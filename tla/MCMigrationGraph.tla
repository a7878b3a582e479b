-------------------------- MODULE MCMigrationGraph --------------------------
(***************************************************************************)
(* Small instances of MigrationGraph for TLC.                              *)
(***************************************************************************)
EXTENDS MigrationRun

CONSTANTS model, helper, escape   \* paths

\* Three tasks: the second needs the first; the third stands alone.
Chain == [tasks |-> {1, 2, 3}, deps |-> <<{}, {1}, {}>>]

\* The first two need each other, as the tasks of two data models with a
\* bidirectional relation do; neither is ever ready.
Cycle == [tasks |-> {1, 2, 3}, deps |-> <<{2}, {1}, {}>>]

ChainAndCycle == {Chain, Cycle}

\* Three tasks that all start in the first wave.
Fanout == {[tasks |-> {1, 2, 3}, deps |-> <<{}, {}, {}>>]}

\* Two tasks, the second needing the first, and a plan with one task only.
Short == {[tasks |-> {1, 2}, deps |-> <<{}, {1}>>],
          [tasks |-> {2}, deps |-> <<{}, {}>>]}

\* Those, and two tasks that make one wave.
ShortOrPair == Short \cup {[tasks |-> {1, 2}, deps |-> <<{}, {}>>]}

\* Task 1 writes its file with or without a helper; task 2 writes the helper or
\* a path outside the workspace; task 3 rewrites the first task's file.
PipelineEmits == <<{{model}, {model, helper}}, {{helper}, {escape}}, {{model}}>>

\* For plans of two tasks; here the second may also answer without any file.
ShortEmits == <<{{model}, {model, helper}}, {{helper}, {escape}, {}}>>

\* One file per task, where only the budget matters.
PlainEmits == [t \in Task |-> {{model}}]
=============================================================================
