---------------------------- MODULE ApprovalApi ----------------------------
(***************************************************************************)
(* The approve and reject endpoints of app/api/app.py: concurrent requests *)
(* to one or more API processes, each with its own lock for the run.  A    *)
(* request waits for the lock of its process, reads the checkpoint under   *)
(* it, and if the run awaits approval resumes the graph and answers with   *)
(* the phase it ended in.  A process may die at any point; the container   *)
(* is restarted with its lock free and its requests forgotten.             *)
(***************************************************************************)
EXTENDS RunThread

CONSTANTS Request,    \* approve and reject requests for the run
          Replica,    \* API processes
          Nobody,     \* the holder of a free lock
          MayFail     \* whether API processes die and ainvoke raises

ASSUME ApiAssumption ==
  /\ Request \subseteq Process
  /\ Nobody \notin Request
  /\ MayFail \in BOOLEAN

VARIABLES
  request,            \* request[r]: where the handler of r is
  lock                \* lock[a]: the request that holds run_locks[run_id] in a

apiVars == <<request, lock>>

\* status is the HTTP status of the answer and phase the field of a 200.
Handler == [pc : {"unsent", "waiting", "locked", "resuming", "running", "over"},
            replica : Replica,
            decision : Decision,
            status : {"none", "200", "404", "409", "500", "lost"},
            phase : Phase]

ApiTypeOK ==
  /\ ThreadTypeOK
  /\ request \in [Request -> Handler]
  /\ lock \in [Replica -> Request \cup {Nobody}]

-----------------------------------------------------------------------------

ApiInit ==
  /\ request \in [Request -> {h \in Handler : /\ h.pc = "unsent"
                                              /\ h.decision # "none"
                                              /\ h.status = "none"
                                              /\ h.phase = "NONE"}]
  /\ lock = [a \in Replica |-> Nobody]

\* POST /migrations/{run_id}/approve or /reject reaches one of the processes.  A
\* client whose decision was not accepted may send it again.
Ask(r) ==
  /\ request[r].pc \in {"unsent", "over"}
  /\ request[r].status # "200"
  /\ request' = [request EXCEPT ![r] = [@ EXCEPT !.pc = "waiting", !.status = "none"]]
  /\ UNCHANGED <<threadVars, lock>>

Acquire_Always(r) ==
  /\ request[r].pc = "waiting"
  /\ lock' = [lock EXCEPT ![request[r].replica] = r]
  /\ request' = [request EXCEPT ![r].pc = "locked"]
  /\ UNCHANGED threadVars

\* async with lock: the lock of this process only.
Acquire(r) ==
  /\ request[r].pc = "waiting"
  /\ lock[request[r].replica] = Nobody
  /\ lock' = [lock EXCEPT ![request[r].replica] = r]
  /\ request' = [request EXCEPT ![r].pc = "locked"]
  /\ UNCHANGED threadVars

Answer_KeepsLock(r, status, phase) ==
  /\ request' = [request EXCEPT ![r] =
                   [@ EXCEPT !.pc = "over", !.status = status, !.phase = phase]]
  /\ UNCHANGED lock

Answer(r, status, phase) ==
  /\ request' = [request EXCEPT ![r] =
                   [@ EXCEPT !.pc = "over", !.status = status, !.phase = phase]]
  /\ lock' = [lock EXCEPT ![request[r].replica] = Nobody]

IsAwaitingApproval_HasDraft == checkpoint.phase \notin {"NONE", "WORKING", "STOPPED"}

\* _is_awaiting_approval: the next node is the gate.
IsAwaitingApproval == checkpoint.next = "approval_gate"

\* What a client can learn of the run from a status response.  A run that waits
\* has a draft, so pending_approval is there exactly while it waits.
StateToStatusResponse ==
  [status |-> "200", phase |-> checkpoint.phase,
   approval_status |-> checkpoint.approval_status, pending |-> IsAwaitingApproval]

\* GET /migrations/{run_id}
GetMigrationStatus ==
  IF checkpoint.next = "none"
  THEN [status |-> "404", phase |-> "NONE", approval_status |-> "none", pending |-> FALSE]
  ELSE StateToStatusResponse

\* aget_state under the lock, and the two refusals.
Look(r) ==
  /\ request[r].pc = "locked"
  /\ IF checkpoint.next = "none" THEN Answer(r, "404", "NONE")
     ELSE IF ~ IsAwaitingApproval THEN Answer(r, "409", "NONE")
     ELSE /\ request' = [request EXCEPT ![r].pc = "resuming"]
          /\ UNCHANGED lock
  /\ UNCHANGED threadVars

\* ainvoke reads the checkpoint a second time: it may have moved on since Look,
\* if another process resumed the run.
ResumeGraph(r) ==
  /\ request[r].pc = "resuming"
  /\ Resume(r, request[r].decision)
  /\ request' = [request EXCEPT ![r].pc = "running"]
  /\ UNCHANGED lock

Decided_AfterTheGate(r) ==
  /\ request[r].pc = "running"
  /\ exec[r].saved /\ exec[r].state.next \in {"pr_publish", "END"}
  /\ Drop({r})
  /\ Answer(r, "200", exec[r].state.phase)
  /\ UNCHANGED <<config, checkpoint, github>>

\* The graph has run to its end: release the lock and return ApproveResponse.
Decided(r) ==
  /\ request[r].pc = "running"
  /\ Returns(r)
  /\ Drop({r})
  /\ Answer(r, "200", exec[r].state.phase)
  /\ UNCHANGED <<config, checkpoint, github>>

\* aget_state or ainvoke raises, for instance because the database is gone.
ResumeRaises(r) ==
  /\ MayFail
  /\ request[r].pc \in {"locked", "resuming", "running"}
  /\ Drop({r})
  /\ Answer(r, "500", "NONE")
  /\ UNCHANGED <<config, checkpoint, github>>

\* The process dies and is restarted: the locks and the executions of its
\* requests are gone, what they saved stays.
ApiCrash(a) ==
  LET lost == {r \in Request : request[r].replica = a
                                 /\ request[r].pc \notin {"unsent", "over"}}
  IN  /\ MayFail
      /\ lost # {}
      /\ request' = [r \in Request |->
           IF r \in lost THEN [request[r] EXCEPT !.pc = "over", !.status = "lost"]
           ELSE request[r]]
      /\ lock' = [lock EXCEPT ![a] = Nobody]
      /\ Drop(lost)
      /\ UNCHANGED <<config, checkpoint, github>>

\* What a process does of its own accord for request r.
Handle(r) ==
  \/ Acquire(r) \/ Look(r) \/ ResumeGraph(r) \/ Decided(r)
  \/ GraphStep(r) /\ UNCHANGED apiVars

ApiNext ==
  \/ \E r \in Request : Ask(r) \/ Handle(r) \/ ResumeRaises(r)
  \/ \E a \in Replica : ApiCrash(a)

-----------------------------------------------------------------------------
(* The endpoints alone, on a thread a worker has left in any state.        *)

LeftByWorker ==
  {c \in Snapshot :
     /\ c.approval_status = "none"
     /\ \/ c = NoCheckpoint
        \/ c.next = "work" /\ c.phase = "WORKING"
        \/ c.next = "approval_gate" /\ c.phase = "AWAITING_APPROVAL"
             /\ NeedsHumanApproval
        \/ c.next = "END" /\ c.phase = "STOPPED"}

Init == ThreadInit /\ ApiInit /\ checkpoint \in LeftByWorker

vars == <<threadVars, apiVars>>

Spec == Init /\ [][ApiNext]_vars

\* The event loop runs every handler that can go on, and asyncio.Lock is first
\* come first served.  That a call to Postgres or GitHub ends, well or not, is
\* assumed: the code leaves it to the defaults of its libraries.
FairSpec == Spec /\ \A r \in Request : SF_vars(Acquire(r)) /\ WF_vars(Handle(r))

-----------------------------------------------------------------------------
(* Properties.                                                             *)

Accepted == {r \in Request : request[r].status = "200"}

\* app.py:169: with one API process a double-clicked approve, or an approve
\* that crosses a reject, is decided once: the second request gets a 409, even
\* if the process dies while it resumes the run.
DecidedOnce == \A r, s \in Accepted : r = s

\* schemas.py:81: an answer reports done or failed after an approval and
\* rejected after a rejection; it is still what the status endpoint reports.
AnswersAreTruthful ==
  \A r \in Accepted :
    /\ request[r].phase \in IF request[r].decision = "approved"
                            THEN {"DONE", "FAILED"} ELSE {"REJECTED"}
    /\ GetMigrationStatus = [status |-> "200", phase |-> request[r].phase,
                             approval_status |-> request[r].decision,
                             pending |-> FALSE]

\* The gate fails closed (approval.py:19-20) however requests, processes and
\* crashes interleave: nothing is pushed unless someone asked for it.
NothingUnapproved ==
  github.branch => \E r \in Request : /\ request[r].decision = "approved"
                                      /\ request[r].pc # "unsent"

\* Every request gets an answer, unless its process dies.
EveryRequestIsAnswered ==
  \A r \in Request : request[r].pc = "waiting" ~> request[r].pc = "over"
=============================================================================
