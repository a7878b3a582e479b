------------------------------ MODULE MCClaims ------------------------------
(***************************************************************************)
(* What the repository's documentation and comments say of a run, and the  *)
(* model of the code refutes.                                              *)
(***************************************************************************)
EXTENDS MCMigrationGraph

\* readme.md:90: a run that cannot afford its remaining work "aborts cleanly
\* instead of publishing a partial migration".
SkippedWorkIsNotPublished ==
  github.branch => \A t \in Task : tasks[t].status # "SKIPPED"

\* budget_abort.py:8: "a partial migration is never published
\* automatically".
PartialIsNotPublishedUnreviewed ==
  github.branch /\ ~ config.require_human_approval_before_pr
    => plan.tasks = Succeeded(tasks)

\* readme.md:145 and 189-196: a run that ends after error analysis ends as
\* needs_human; `editing' is a phase of a run under way.
EndsInAFinalPhase ==
  next = "END" => phase \in {"DONE", "REJECTED", "FAILED", "ABORTED_BUDGET",
                             "NEEDS_HUMAN"}

\* sandbox_test.py:43: an unsafe path "is a hard stop, not a retryable test
\* failure".  At error_analysis, only a refused path has left phase FAILED.
UnsafePathIsAHardStop ==
  [][next = "error_analysis" /\ phase = "FAILED" => next' # "editor"]_vars

\* editor.py:70: "one task's generation failure must not abort the whole
\* fanout".
FanoutSurvivesAFailure == [][next = "editor" => next' # "raised"]_vars

\* graph/diffs.py:18-19: the sandbox removes stale files "so the tested
\* workspace matches what ships": the base of the target repository overlaid
\* with the files of the branch.
TestedWorkspaceMatchesWhatShips ==
  github.branch =>
    workspace = ApplyDiffs({[path |-> p, content |-> BaseContent] : p \in BasePaths},
                           github.files)
=============================================================================
