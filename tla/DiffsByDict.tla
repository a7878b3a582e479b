---------------------------- MODULE DiffsByDict ----------------------------
(***************************************************************************)
(* The algorithm of app/graph/diffs.py statement by statement, with its    *)
(* dicts and loops, as a reference for the closed forms of EffectiveDiffs. *)
(* A loop is a recursive function of the number of elements it has seen.   *)
(* The state is an editor_results list that grows by one attempt per step, *)
(* and the tasks that are SUCCEEDED.                                       *)
(***************************************************************************)
EXTENDS EffectiveDiffs

CONSTANTS DTask, DPath,     \* tasks and paths
          MaxAttempts       \* bound on the length of the list

ASSUME DictAssumption == MaxAttempts \in Nat

VARIABLES results, succeeded

dvars == <<results, succeeded>>

\* A Python dict: a sequence of items with distinct keys.  Assigning to a key
\* it has changes the value in place; a new key goes to the end.
Item(key, value) == [key |-> key, value |-> value]

SetItem(dict, key, value) ==
  IF \E i \in DOMAIN dict : dict[i].key = key
  THEN [i \in DOMAIN dict |-> IF dict[i].key = key THEN Item(key, value)
                                                  ELSE dict[i]]
  ELSE Append(dict, Item(key, value))

\* `latest' after the first n results: latest[result.task_id] = result, with
\* the result's position for the result.
LatestLoop(rs) ==
  LET latest[n \in 0..Len(rs)] ==
        IF n = 0 THEN <<>> ELSE SetItem(latest[n - 1], rs[n].task, n)
  IN  latest

LatestResultsByTask(rs) == LatestLoop(rs)[Len(rs)]

\* effective_results keeps the items of `latest' whose task is SUCCEEDED.
IsEffective(item, succ) == item.key \in succ

\* Assigning to several keys.  The order of this dict's keys reaches nobody, so
\* it is a function.
EmptyDict == [p \in {} |-> BaseContent]

SetItems(dict, keys, value) ==
  [p \in DOMAIN dict \cup keys |-> IF p \in keys THEN value ELSE dict[p]]

\* `by_path' after the first n items: by_path[diff.path] = diff for the diffs of
\* one result after the other.
ByPathLoop(rs, succ, items) ==
  LET by_path[n \in 0..Len(items)] ==
        IF n = 0 THEN EmptyDict
        ELSE IF IsEffective(items[n], succ)
        THEN SetItems(by_path[n - 1], rs[items[n].value].files, items[n].value)
        ELSE by_path[n - 1]
  IN  by_path

DiffsByPath(rs, succ) ==
  LET items == LatestResultsByTask(rs)
  IN  ByPathLoop(rs, succ, items)[Len(items)]

DictInit == results = <<>> /\ succeeded \in SUBSET DTask

Attempt(t, files) ==
  /\ Len(results) < MaxAttempts
  /\ results' = Append(results, [task |-> t, files |-> files])
  /\ UNCHANGED succeeded

Full == Len(results) = MaxAttempts /\ UNCHANGED dvars

DictNext == Full \/ \E t \in DTask, files \in SUBSET DPath : Attempt(t, files)

DictSpec == DictInit /\ [][DictNext]_dvars

\* For every list of attempts, including retries that change the order of the
\* tasks and attempts that fight over a path, the closed form gives the files
\* that the code's dicts end up with, each with the same author.
ClosedFormAgrees ==
  LET by_path == DiffsByPath(results, succeeded)
  IN  EffectiveDiffs(results, succeeded)
        = {[path |-> p, content |-> by_path[p]] : p \in DOMAIN by_path}

\* No path is shipped twice or lost, and none that is shipped is removed as
\* stale: effective and stale paths split what was ever written, and every
\* path a surviving attempt wrote is shipped exactly once.
EveryPathOnce ==
  LET diffs == EffectiveDiffs(results, succeeded)
      live  == UNION {results[k].files : k \in EffectiveResults(results, succeeded)}
  IN  /\ \A d, e \in diffs : d.path = e.path => d = e
      /\ PathsOf(diffs) = live
      /\ StalePaths(results, succeeded) = EverWritten(results) \ live
=============================================================================
