--------------------------- MODULE EffectiveDiffs ---------------------------
(***************************************************************************)
(* Which generated files are the output of a run: app/graph/diffs.py.      *)
(*                                                                         *)
(* `results' is the append-only list editor_results.  An element records   *)
(* the task and the set of paths the attempt wrote; the content an attempt *)
(* wrote is identified by the attempt's position in the list.  A diff is a *)
(* record [path, content], so a set of diffs is a set of files.            *)
(* A definition Name_Variant is a faulty variant of Name that the          *)
(* properties of the runs must reject.                                     *)
(***************************************************************************)
EXTENDS Integers, Sequences

\* The content of a file the run did not write.
BaseContent == 0

\* latest_results_by_task: attempt k is the last one of its task.
IsLatest(results, k) ==
  \A j \in DOMAIN results : j > k => results[j].task # results[k].task

\* effective_results, as positions in the list.
EffectiveResults(results, succeeded) ==
  {k \in DOMAIN results : IsLatest(results, k) /\ results[k].task \in succeeded}

(***************************************************************************)
(* A Python dict keeps a key where it was first inserted, whatever is      *)
(* assigned to it later.  So effective_results enumerates the tasks in the *)
(* order of their FIRST attempts, and by_path lets the task that started   *)
(* last win a path, not the attempt that finished last.                    *)
(***************************************************************************)
StartedBefore(results, j, k) ==
  \E i \in DOMAIN results :
    /\ results[i].task = results[j].task
    /\ \A h \in 1..i : results[h].task # results[k].task

EffectiveDiffs_LastAttemptWins(results, succeeded) ==
  LET effective == EffectiveResults(results, succeeded)
  IN  UNION {{[path |-> p, content |-> k] :
                p \in {q \in results[k].files :
                         \A j \in effective : q \in results[j].files => j <= k}} :
             k \in effective}

EffectiveDiffs_KeepsAll(results, succeeded) ==
  UNION {{[path |-> p, content |-> k] : p \in results[k].files} :
         k \in EffectiveResults(results, succeeded)}

\* effective_diffs: one file per path, the last writer of by_path wins.
EffectiveDiffs(results, succeeded) ==
  LET effective == EffectiveResults(results, succeeded)
  IN  UNION {{[path |-> p, content |-> k] :
                p \in {q \in results[k].files :
                         \A j \in effective : q \in results[j].files
                                  => ~ StartedBefore(results, k, j)}} :
             k \in effective}

PathsOf(files) == {f.path : f \in files}

EverWritten(results) == UNION {results[k].files : k \in DOMAIN results}

StalePaths_None(results, succeeded) == {}

StalePaths(results, succeeded) ==
  EverWritten(results) \ PathsOf(EffectiveDiffs(results, succeeded))
=============================================================================
