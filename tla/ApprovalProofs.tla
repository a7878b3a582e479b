--------------------------- MODULE ApprovalProofs ---------------------------
(***************************************************************************)
(* Theorems about the thread of a run and about the approval endpoints,    *)
(* for any number of requests and, unless one API process is assumed, any  *)
(* number of API processes.                                                *)
(***************************************************************************)
EXTENDS ApprovalApi, TLAPS

-----------------------------------------------------------------------------
(* The thread: what its steps do to the types and to GitHub.               *)

\* Process p is inside pr_publish, between the branch and the pull request.
Pushing(p) == Running(p, "pr_publish") /\ exec[p].published = "branch"

\* Only one execution gets past the creation of the branch, and it does so
\* before there is a pull request.
PublishInv ==
  /\ ThreadTypeOK
  /\ PublishedOnce
  /\ github.pulls > 0 => github.branch
  /\ \A p \in Process : Pushing(p) => github.branch /\ github.pulls = 0
  /\ \A p, q \in Process : Pushing(p) /\ Pushing(q) => p = q
  /\ \A p \in Process : exec[p].published = "branch"
                          => exec[p].state.next \in {"pr_publish", "END"}

\* No execution is a well-formed execution.
LEMMA NoExecutionType ==
  /\ NoCheckpoint \in Snapshot
  /\ NoExecution \in Execution
  /\ NoExecution.on = FALSE /\ NoExecution.state = NoCheckpoint
  /\ NoExecution.published = "nothing" /\ NoExecution.saved = TRUE
  /\ NoExecution.resume = "none"
  /\ NoCheckpoint.next = "none" /\ NoCheckpoint.approval_status = "none"
  /\ NoCheckpoint.phase = "NONE"
  BY DEF NoCheckpoint, NoExecution, Snapshot, Execution, ThreadNode, Decision, Phase

\* What the end of a node does to the executions.
LEMMA NodeFinished ==
  ASSUME ThreadTypeOK,
         NEW p \in Process, NEW node \in ThreadNode, NEW status \in Decision,
         NEW phase \in Phase, FinishNode(p, node, status, phase)
  PROVE  /\ exec' \in [Process -> Execution]
         /\ exec'[p].on = exec[p].on
         /\ exec'[p].state = [next |-> node, approval_status |-> status, phase |-> phase]
         /\ exec'[p].resume = exec[p].resume
         /\ exec'[p].published = exec[p].published
         /\ exec'[p].saved = FALSE
         /\ \A q \in Process : q # p => exec'[q] = exec[q]
<1>1. [next |-> node, approval_status |-> status, phase |-> phase] \in Snapshot
  BY DEF Snapshot
<1> QED BY <1>1 DEF ThreadTypeOK, FinishNode, Execution

\* A save changes the flag and the checkpoint only.
LEMMA Saved ==
  ASSUME ThreadTypeOK, NEW p \in Process, Save(p)
  PROVE  /\ exec' \in [Process -> Execution]
         /\ exec'[p] = [exec[p] EXCEPT !.saved = TRUE]
         /\ exec'[p].on /\ exec'[p].state = exec[p].state
         /\ exec'[p].resume = exec[p].resume /\ exec'[p].published = exec[p].published
         /\ exec'[p].saved = TRUE
         /\ \A q \in Process : q # p => exec'[q] = exec[q]
         /\ checkpoint' = exec[p].state /\ checkpoint' \in Snapshot
         /\ UNCHANGED <<config, github>>
  BY DEF ThreadTypeOK, Save, Execution

\* A new execution of the thread begins with nothing published.
LEMMA Begun ==
  ASSUME ThreadTypeOK, NEW p \in Process,
         Start(p) \/ \E d \in Decision : Resume(p, d)
  PROVE  /\ exec' \in [Process -> Execution]
         /\ exec'[p].on /\ exec'[p].published = "nothing"
         /\ \A q \in Process : q # p => exec'[q] = exec[q]
         /\ UNCHANGED <<config, checkpoint, github>>
<1>1. CASE Start(p)
  <2>1. [checkpoint EXCEPT !.next = "work", !.phase = "WORKING"] \in Snapshot
    BY DEF ThreadTypeOK, Snapshot, ThreadNode, Phase
  <2> QED BY <1>1, <2>1, NoExecutionType DEF Start, ThreadTypeOK, Execution
<1>2. CASE \E d \in Decision : Resume(p, d)
  <2>1. PICK d \in Decision : Resume(p, d)
    BY <1>2
  <2>2. [NoExecution EXCEPT !.on = TRUE, !.state = checkpoint, !.resume = d] \in Execution
    BY NoExecutionType DEF ThreadTypeOK, Execution
  <2> QED BY <2>1, <2>2, NoExecutionType DEF Resume, ThreadTypeOK, Execution
<1> QED BY <1>1, <1>2

\* Dropped executions are gone, the others stay.
LEMMA Dropped ==
  ASSUME ThreadTypeOK, NEW ps, Drop(ps)
  PROVE  /\ exec' \in [Process -> Execution]
         /\ \A p \in Process : exec'[p] = IF p \in ps THEN NoExecution ELSE exec[p]
  BY NoExecutionType DEF ThreadTypeOK, Drop

\* The steps of the graph keep the types of the thread.
LEMMA GraphStepTypes ==
  ASSUME ThreadTypeOK, NEW p \in Process, GraphStep(p)
  PROVE  ThreadTypeOK'
<1>1. exec[p].state.approval_status \in Decision /\ exec[p].resume \in Decision
  BY DEF ThreadTypeOK, Execution, Snapshot
<1>2. ASSUME NEW node \in ThreadNode, NEW status \in Decision, NEW phase \in Phase,
             FinishNode(p, node, status, phase), UNCHANGED <<config, checkpoint>>,
             github' = github \/ github' = [github EXCEPT !.pulls = @ + 1]
      PROVE  ThreadTypeOK'
  <2>1. exec' \in [Process -> Execution]
    BY <1>2, NodeFinished
  <2> QED BY <1>2, <2>1 DEF ThreadTypeOK
<1> USE DEF ThreadNode, Decision, Phase
<1>3. CASE \E drafted \in BOOLEAN : Work(p, drafted)
  BY <1>1, <1>2, <1>3 DEF Work
<1>4. CASE ApprovalGate(p)
  BY <1>1, <1>2, <1>4 DEF ApprovalGate
<1>5. CASE NotPublished(p)
  BY <1>1, <1>2, <1>5 DEF NotPublished
<1>6. CASE PushBranch(p)
  BY <1>6 DEF PushBranch, ThreadTypeOK, Execution
<1>7. CASE \E acknowledged \in BOOLEAN : OpenPull(p, acknowledged)
  BY <1>1, <1>2, <1>7 DEF OpenPull
<1>8. CASE PublishFails(p)
  BY <1>1, <1>2, <1>8 DEF PublishFails
<1>9. CASE Save(p)
  BY <1>9, Saved DEF ThreadTypeOK
<1> QED BY <1>3, <1>4, <1>5, <1>6, <1>7, <1>8, <1>9 DEF GraphStep

\* A step that touches neither GitHub nor the progress of an execution inside
\* pr_publish, other than to let it leave.
LEMMA PublishKept ==
  ASSUME PublishInv, ThreadTypeOK', github' = github,
         \A p \in Process :
           exec'[p].published = "branch" => /\ exec[p].published = "branch"
                                            /\ \/ exec'[p].state.next = "END"
                                               \/ /\ exec'[p].state.next = exec[p].state.next
                                                  /\ exec'[p].on = exec[p].on
  PROVE  PublishInv'
<1>1. \A p \in Process : Pushing(p)' => Pushing(p)
  BY DEF Pushing, Running
<1> QED BY <1>1 DEF PublishInv, PublishedOnce

\* The steps of the graph keep the order branch, then one pull request.
LEMMA GraphStepPublishes ==
  ASSUME PublishInv, NEW p \in Process, GraphStep(p)
  PROVE  PublishInv'
<1>1. ThreadTypeOK /\ ThreadTypeOK'
  BY GraphStepTypes DEF PublishInv
<1>2. exec[p].state.approval_status \in Decision /\ exec[p].resume \in Decision
  BY <1>1 DEF ThreadTypeOK, Execution, Snapshot
<1>3. ASSUME NEW node \in ThreadNode, NEW status \in Decision, NEW phase \in Phase,
             FinishNode(p, node, status, phase), github' = github,
             node = "END" \/ exec[p].published # "branch"
      PROVE  PublishInv'
  <2>1. /\ exec'[p].state.next = node /\ exec'[p].published = exec[p].published
        /\ \A q \in Process : q # p => exec'[q] = exec[q]
    <3>1. exec'[p].state = [next |-> node, approval_status |-> status, phase |-> phase]
      BY <1>1, <1>3, NodeFinished
    <3>2. /\ exec'[p].published = exec[p].published
          /\ \A q \in Process : q # p => exec'[q] = exec[q]
      BY <1>1, <1>3, NodeFinished
    <3> QED BY <3>1, <3>2
  <2>2. ASSUME NEW q \in Process, exec'[q].published = "branch"
        PROVE  /\ exec[q].published = "branch"
               /\ \/ exec'[q].state.next = "END"
                  \/ /\ exec'[q].state.next = exec[q].state.next
                     /\ exec'[q].on = exec[q].on
    BY <1>3, <2>1, <2>2
  <2> QED BY <1>1, <1>3, <2>2, PublishKept
<1> USE DEF ThreadNode, Decision, Phase
<1>4. CASE \E drafted \in BOOLEAN : Work(p, drafted)
  <2>1. exec[p].published # "branch"
    BY <1>4 DEF Work, Running, PublishInv
  <2> QED BY <1>2, <1>3, <1>4, <2>1 DEF Work
<1>5. CASE ApprovalGate(p)
  <2>1. exec[p].published # "branch"
    BY <1>5 DEF ApprovalGate, Running, PublishInv
  <2> QED BY <1>2, <1>3, <1>5, <2>1 DEF ApprovalGate
<1>6. CASE NotPublished(p)
  BY <1>2, <1>3, <1>6 DEF NotPublished
<1>7. CASE PushBranch(p)
  <2>1. /\ ~ github.branch /\ github.pulls = 0
        /\ \A q \in Process : ~ Pushing(q)
    BY <1>1, <1>7 DEF PushBranch, PublishInv, ThreadTypeOK
  <2>2. /\ github'.branch /\ github'.pulls = 0
        /\ exec'[p].published = "branch" /\ exec'[p].state = exec[p].state
        /\ exec'[p].on = exec[p].on
        /\ \A q \in Process : q # p => exec'[q] = exec[q]
    BY <1>1, <1>7, <2>1 DEF PushBranch, ThreadTypeOK, Execution
  <2>3. \A q \in Process : Pushing(q)' => q = p
    BY <2>1, <2>2 DEF Pushing, Running
  <2>4. exec'[p].state.next = "pr_publish"
    BY <1>7, <2>2 DEF PushBranch, Running
  <2> QED BY <1>1, <2>2, <2>3, <2>4 DEF PublishInv, PublishedOnce
<1>8. CASE \E acknowledged \in BOOLEAN : OpenPull(p, acknowledged)
  <2>1. PICK acknowledged \in BOOLEAN : OpenPull(p, acknowledged)
    BY <1>8
  <2>2. Pushing(p) /\ github.branch /\ github.pulls = 0
    BY <2>1 DEF OpenPull, Pushing, PublishInv
  <2>3. github'.branch /\ github'.pulls = 1
    BY <1>1, <2>1, <2>2 DEF OpenPull, ThreadTypeOK
  <2>4. /\ exec'[p].state.next = "END"
        /\ \A q \in Process : q # p => exec'[q] = exec[q]
    <3>1. PICK phase \in Phase :
                 FinishNode(p, "END", exec[p].state.approval_status, phase)
      BY <2>1 DEF OpenPull
    <3>2. "END" \in ThreadNode
      OBVIOUS
    <3> HIDE DEF ThreadNode, Decision, Phase
    <3>3. /\ exec'[p].state = [next |-> "END",
             approval_status |-> exec[p].state.approval_status, phase |-> phase]
          /\ \A q \in Process : q # p => exec'[q] = exec[q]
      BY <1>1, <1>2, <3>1, <3>2, NodeFinished
    <3> QED BY <3>3
  <2>5. \A q \in Process : ~ Pushing(q)'
    BY <2>2, <2>4 DEF Pushing, Running, PublishInv
  <2> QED BY <1>1, <2>3, <2>4, <2>5 DEF PublishInv, PublishedOnce
<1>9. CASE PublishFails(p)
  BY <1>2, <1>3, <1>9 DEF PublishFails
<1>10. CASE Save(p)
  <2>1. github' = github
    BY <1>10 DEF Save
  <2>2. /\ exec'[p].state = exec[p].state /\ exec'[p].published = exec[p].published
        /\ exec'[p].on = exec[p].on
        /\ \A q \in Process : q # p => exec'[q] = exec[q]
    BY <1>1, <1>10, Saved DEF Save
  <2> QED BY <1>1, <2>1, <2>2, PublishKept
<1> QED BY <1>4, <1>5, <1>6, <1>7, <1>8, <1>9, <1>10 DEF GraphStep

\* What finishing a node may do to the state of execution p, by the node.
NodeOutcome(p) ==
  LET old == exec[p].state
      new == exec'[p].state
  IN  \/ /\ old.next = "work"
         /\ new.approval_status = old.approval_status
         /\ \/ new.next = "END"
            \/ /\ new.next = "approval_gate" /\ new.phase = "AWAITING_APPROVAL"
               /\ NeedsHumanApproval
            \/ new.next = "pr_publish" /\ ~ NeedsHumanApproval
      \/ /\ old.next = "approval_gate" /\ exec[p].resume # "none"
         /\ new = IF exec[p].resume = "approved"
                  THEN [next |-> "pr_publish", approval_status |-> "approved",
                        phase |-> "PR_GENERATION"]
                  ELSE [next |-> "END", approval_status |-> "rejected",
                        phase |-> "REJECTED"]
      \/ /\ old.next = "pr_publish"
         /\ new.next = "END" /\ new.approval_status = old.approval_status
         /\ new.phase \in {"DONE", "FAILED"}

\* A step of the graph pushes the branch, finishes a node or saves.
Pushes(p) ==
  /\ Running(p, "pr_publish") /\ MayPublish(p) /\ github'.branch
  /\ exec'[p].state = exec[p].state /\ exec'[p].saved = exec[p].saved
  /\ checkpoint' = checkpoint

Finishes(p) ==
  /\ NodeOutcome(p)
  /\ ~ exec'[p].saved
  /\ checkpoint' = checkpoint /\ github'.branch = github.branch

Saves(p) ==
  /\ ~ exec[p].saved /\ exec'[p].saved
  /\ exec'[p].state = exec[p].state /\ checkpoint' = exec[p].state
  /\ github' = github

\* Every step of the graph is one of the three, of execution p alone.
LEMMA GraphStepOutcome ==
  ASSUME ThreadTypeOK, NEW p \in Process, GraphStep(p)
  PROVE  /\ exec[p].on /\ exec'[p].on
         /\ exec'[p].resume = exec[p].resume
         /\ \A q \in Process : q # p => exec'[q] = exec[q]
         /\ config' = config
         /\ Pushes(p) \/ Finishes(p) \/ Saves(p)
<1> DEFINE Kept == /\ exec[p].on /\ exec'[p].on
                   /\ exec'[p].resume = exec[p].resume
                   /\ \A q \in Process : q # p => exec'[q] = exec[q]
                   /\ config' = config
<1>1. exec[p].state.approval_status \in Decision /\ exec[p].resume \in Decision
  BY DEF ThreadTypeOK, Execution, Snapshot
<1>2. ASSUME NEW node \in ThreadNode, NEW status \in Decision, NEW phase \in Phase,
             FinishNode(p, node, status, phase),
             exec[p].on, UNCHANGED <<config, checkpoint>>
      PROVE  /\ Kept /\ ~ exec'[p].saved /\ checkpoint' = checkpoint
             /\ exec'[p].state = [next |-> node, approval_status |-> status, phase |-> phase]
             /\ exec'[p].state.next = node /\ exec'[p].state.approval_status = status
             /\ exec'[p].state.phase = phase
  <2>1. /\ exec'[p].on = exec[p].on
        /\ exec'[p].state = [next |-> node, approval_status |-> status, phase |-> phase]
        /\ exec'[p].resume = exec[p].resume
        /\ exec'[p].saved = FALSE
        /\ \A q \in Process : q # p => exec'[q] = exec[q]
    BY <1>2, NodeFinished, ZenonT(30)
  <2> QED BY <1>2, <2>1
<1> HIDE DEF Kept
<1> USE DEF ThreadNode, Decision, Phase, Running, Finishes
<1>3. CASE \E drafted \in BOOLEAN : Work(p, drafted)
  BY <1>1, <1>2, <1>3, ZenonT(30) DEF Work, NodeOutcome, Kept
<1>4. CASE ApprovalGate(p)
  BY <1>1, <1>2, <1>4, ZenonT(30) DEF ApprovalGate, NodeOutcome, Kept
<1>5. CASE NotPublished(p)
  BY <1>1, <1>2, <1>5, ZenonT(30) DEF NotPublished, NodeOutcome, Kept
<1>6. CASE PushBranch(p)
  BY <1>6 DEF PushBranch, Pushes, ThreadTypeOK, Execution
<1>7. CASE \E acknowledged \in BOOLEAN : OpenPull(p, acknowledged)
  <2>1. github'.branch = github.branch
    BY <1>7 DEF OpenPull, ThreadTypeOK
  <2> QED BY <1>1, <1>2, <1>7, <2>1, ZenonT(30) DEF OpenPull, NodeOutcome, Kept
<1>8. CASE PublishFails(p)
  BY <1>1, <1>2, <1>8, ZenonT(30) DEF PublishFails, NodeOutcome, Kept
<1>9. CASE Save(p)
  BY <1>9, Saved DEF Save, Saves
<1> QED BY <1>3, <1>4, <1>5, <1>6, <1>7, <1>8, <1>9 DEF GraphStep

\* Starting, resuming and dropping executions leave GitHub alone and publish
\* nothing.
LEMMA BegunPublishes ==
  ASSUME PublishInv, NEW p \in Process,
         Start(p) \/ \E d \in Decision : Resume(p, d)
  PROVE  PublishInv'
<1>1. /\ exec' \in [Process -> Execution]
      /\ exec'[p].published = "nothing"
      /\ \A q \in Process : q # p => exec'[q] = exec[q]
      /\ UNCHANGED <<config, checkpoint, github>>
  BY Begun DEF PublishInv
<1>2. ThreadTypeOK'
  BY <1>1 DEF PublishInv, ThreadTypeOK
<1>3. \A q \in Process : exec'[q].published = "branch" => exec'[q] = exec[q]
  BY <1>1
<1> QED BY <1>1, <1>2, <1>3, PublishKept

LEMMA DroppedPublishes ==
  ASSUME PublishInv, NEW ps, Drop(ps), UNCHANGED <<config, checkpoint, github>>
  PROVE  PublishInv'
<1>1. /\ exec' \in [Process -> Execution]
      /\ \A p \in Process : exec'[p] = IF p \in ps THEN NoExecution ELSE exec[p]
  BY Dropped DEF PublishInv
<1>2. ThreadTypeOK'
  BY <1>1 DEF PublishInv, ThreadTypeOK
<1>3. \A q \in Process : exec'[q].published = "branch" => exec'[q] = exec[q]
  BY <1>1, NoExecutionType
<1> QED BY <1>1, <1>2, <1>3, PublishKept

\* A thread no one has executed.
LEMMA PublishInit ==
  ASSUME ThreadInit, checkpoint \in Snapshot
  PROVE  PublishInv
<1>1. ThreadTypeOK
  BY NoExecutionType DEF ThreadInit, ThreadTypeOK
<1>2. \A p \in Process : exec[p] = NoExecution
  BY DEF ThreadInit
<1>3. github.pulls = 0
  BY DEF ThreadInit
<1> QED BY <1>1, <1>2, <1>3, NoExecutionType DEF PublishInv, PublishedOnce, Pushing, Running

-----------------------------------------------------------------------------
(* The requests.                                                           *)

\* Where the handler of r is between the lock and its answer.
Holding(r) == request[r].pc \in {"locked", "resuming", "running"}

\* What every step keeps of the requests: their decision and their process, and
\* that they were sent; an answer of 200 is final.
RequestsKept ==
  \A r \in Request :
    /\ request'[r].decision = request[r].decision
    /\ request'[r].replica = request[r].replica
    /\ request[r].pc # "unsent" => request'[r].pc # "unsent"

\* The last step of a handler.
LEMMA Answered ==
  ASSUME ApiTypeOK, NEW r \in Request,
         NEW status \in {"200", "404", "409", "500"}, NEW phase \in Phase,
         Answer(r, status, phase)
  PROVE  /\ request' \in [Request -> Handler]
         /\ lock' \in [Replica -> Request \cup {Nobody}]
         /\ RequestsKept
         /\ request'[r].pc = "over" /\ request'[r].status = status
         /\ request'[r].phase = phase
         /\ \A s \in Request : s # r => request'[s] = request[s]
         /\ lock'[request[r].replica] = Nobody
         /\ \A a \in Replica : a # request[r].replica => lock'[a] = lock[a]
<1>1. request[r].replica \in Replica
  BY DEF ApiTypeOK, Handler
<1> QED BY <1>1 DEF ApiTypeOK, Handler, Answer, RequestsKept

\* A handler goes on from one line to another.
LEMMA PcChanged ==
  ASSUME ApiTypeOK, NEW r \in Request,
         NEW pc \in {"waiting", "locked", "resuming", "running"},
         request' = [request EXCEPT ![r].pc = pc]
  PROVE  /\ request' \in [Request -> Handler]
         /\ RequestsKept
         /\ request'[r].pc = pc /\ request'[r].status = request[r].status
         /\ request'[r].phase = request[r].phase
         /\ \A s \in Request : s # r => request'[s] = request[s]
  BY DEF ApiTypeOK, Handler, RequestsKept

\* The death of a process.
LEMMA Crashed ==
  ASSUME ApiTypeOK, NEW a \in Replica, ApiCrash(a)
  PROVE  /\ UNCHANGED <<config, checkpoint, github>>
         /\ \A s \in Request :
              IF request[s].replica = a /\ request[s].pc \notin {"unsent", "over"}
              THEN /\ request'[s].pc = "over" /\ request'[s].status = "lost"
                   /\ s \in Process => exec'[s] = NoExecution
              ELSE /\ request'[s] = request[s]
                   /\ s \in Process => exec'[s] = exec[s]
         /\ \A p \in Process : p \notin Request => exec'[p] = exec[p]
         /\ lock' = [lock EXCEPT ![a] = Nobody]
<1> DEFINE lost == {r \in Request : request[r].replica = a
                                       /\ request[r].pc \notin {"unsent", "over"}}
<1>1. /\ UNCHANGED <<config, checkpoint, github>>
      /\ lock' = [lock EXCEPT ![a] = Nobody]
      /\ Drop(lost)
      /\ request' = [r \in Request |->
           IF r \in lost THEN [request[r] EXCEPT !.pc = "over", !.status = "lost"]
           ELSE request[r]]
  BY DEF ApiCrash
<1>2. \A p \in Process : exec'[p] = IF p \in lost THEN NoExecution ELSE exec[p]
  BY <1>1, Dropped DEF ApiTypeOK
<1>3. ASSUME NEW s \in Request, s \in lost
      PROVE  request'[s].pc = "over" /\ request'[s].status = "lost"
  <2>1. request'[s] = [request[s] EXCEPT !.pc = "over", !.status = "lost"]
    BY <1>1, <1>3
  <2> QED BY <2>1 DEF ApiTypeOK, Handler
<1>4. ASSUME NEW s \in Request, s \notin lost
      PROVE  request'[s] = request[s]
  BY <1>1, <1>4
<1> QED BY <1>1, <1>2, <1>3, <1>4

\* The handlers, seen from the thread: begin or drop an execution, or nothing.
LEMMA ApiStepKinds ==
  ASSUME ApiTypeOK, ApiNext
  PROVE  \/ UNCHANGED threadVars
         \/ \E r \in Request : GraphStep(r) /\ UNCHANGED apiVars
         \/ \E r \in Request : ResumeGraph(r)
         \/ /\ \E ps \in SUBSET Request : Drop(ps)
            /\ UNCHANGED <<config, checkpoint, github>>
<1> USE DEF ApiNext, Handle
<1>1. CASE \E r \in Request : Ask(r) \/ Acquire(r) \/ Look(r)
  BY <1>1 DEF Ask, Acquire, Look
<1>2. CASE \E r \in Request : ResumeGraph(r) \/ (GraphStep(r) /\ UNCHANGED apiVars)
  BY <1>2
<1>3. CASE \E r \in Request : Decided(r) \/ ResumeRaises(r)
  <2>1. PICK r \in Request : Drop({r}) /\ UNCHANGED <<config, checkpoint, github>>
    BY <1>3 DEF Decided, ResumeRaises
  <2> QED BY <2>1
<1>4. CASE \E a \in Replica : ApiCrash(a)
  <2>1. PICK a \in Replica : ApiCrash(a)
    BY <1>4
  <2> DEFINE lost == {r \in Request : request[r].replica = a
                                        /\ request[r].pc \notin {"unsent", "over"}}
  <2>2. Drop(lost) /\ UNCHANGED <<config, checkpoint, github>>
    BY <2>1 DEF ApiCrash
  <2> QED BY <2>2
<1> QED BY <1>1, <1>2, <1>3, <1>4

\* A handler resumes the graph only after it saw the run at its gate.
LEMMA NewlyResuming ==
  ASSUME ApiTypeOK, ApiNext, NEW s \in Request, request'[s].pc = "resuming"
  PROVE  request[s].pc = "resuming" \/ checkpoint.next = "approval_gate"
<1> USE DEF ApiTypeOK, Handler
<1>1. ASSUME NEW r \in Request, Ask(r)
      PROVE  request[s].pc = "resuming"
  BY <1>1 DEF Ask
<1>2. ASSUME NEW r \in Request, Acquire(r)
      PROVE  request[s].pc = "resuming"
  BY <1>2 DEF Acquire
<1>3. ASSUME NEW r \in Request, NEW status, NEW phase, Answer(r, status, phase)
      PROVE  request[s].pc = "resuming"
  BY <1>3 DEF Answer
<1>4. ASSUME NEW r \in Request, Look(r), checkpoint.next # "approval_gate"
      PROVE  request[s].pc = "resuming"
  BY <1>3, <1>4 DEF Look, IsAwaitingApproval
<1>5. ASSUME NEW r \in Request, ResumeGraph(r)
      PROVE  request[s].pc = "resuming"
  BY <1>5 DEF ResumeGraph
<1>6. ASSUME NEW r \in Request, Decided(r) \/ ResumeRaises(r)
      PROVE  request[s].pc = "resuming"
  BY <1>3, <1>6 DEF Decided, ResumeRaises
<1>7. ASSUME NEW a \in Replica, ApiCrash(a)
      PROVE  request[s].pc = "resuming"
  BY <1>7, Crashed
<1>8. ASSUME NEW r \in Request, GraphStep(r), UNCHANGED apiVars
      PROVE  request[s].pc = "resuming"
  BY <1>8 DEF apiVars
<1> QED BY <1>1, <1>2, <1>4, <1>5, <1>6, <1>7, <1>8 DEF ApiNext, Handle

\* Every step of the API keeps the types, and what RequestsKept says.
LEMMA ApiStepTypes ==
  ASSUME ApiTypeOK, ApiNext
  PROVE  ApiTypeOK' /\ RequestsKept
<1> DEFINE ReqOK == /\ request' \in [Request -> Handler]
                    /\ lock' \in [Replica -> Request \cup {Nobody}]
                    /\ RequestsKept
<1> USE ApiAssumption
<1>1. ThreadTypeOK /\ lock \in [Replica -> Request \cup {Nobody}]
      /\ request \in [Request -> Handler]
  BY DEF ApiTypeOK
<1>2. UNCHANGED apiVars => ReqOK
  BY <1>1 DEF apiVars, RequestsKept
<1>3. ThreadTypeOK'
  <2>1. CASE UNCHANGED threadVars
    BY <1>1, <2>1 DEF threadVars, ThreadTypeOK
  <2>2. CASE \E r \in Request : GraphStep(r) /\ UNCHANGED apiVars
    BY <1>1, <2>2, GraphStepTypes
  <2>3. CASE \E r \in Request : ResumeGraph(r)
    <3>1. PICK r \in Request : Resume(r, request[r].decision)
      BY <2>3 DEF ResumeGraph
    <3>2. request[r].decision \in Decision /\ r \in Process
      BY <1>1 DEF Handler
    <3>3. exec' \in [Process -> Execution] /\ UNCHANGED <<config, checkpoint, github>>
      BY <1>1, <3>1, <3>2, Begun
    <3> QED BY <1>1, <3>3 DEF ThreadTypeOK
  <2>4. CASE /\ \E ps \in SUBSET Request : Drop(ps)
             /\ UNCHANGED <<config, checkpoint, github>>
    <3>1. exec' \in [Process -> Execution]
      BY <1>1, <2>4, Dropped
    <3> QED BY <1>1, <2>4, <3>1 DEF ThreadTypeOK
  <2> QED BY <2>1, <2>2, <2>3, <2>4, ApiStepKinds
<1>4. ReqOK
  <2>1. ASSUME NEW r \in Request, Ask(r)
        PROVE  ReqOK
    BY <1>1, <2>1 DEF Ask, Handler, RequestsKept
  <2>2. ASSUME NEW r \in Request, Acquire(r)
        PROVE  ReqOK
    <3>1. lock' \in [Replica -> Request \cup {Nobody}]
      BY <1>1, <2>2 DEF Acquire, Handler
    <3> QED BY <2>2, <3>1, PcChanged DEF Acquire
  <2>3. ASSUME NEW r \in Request, Look(r)
        PROVE  ReqOK
    <3>1. CASE Answer(r, "404", "NONE") \/ Answer(r, "409", "NONE")
      BY <3>1, Answered DEF Phase
    <3>2. CASE request' = [request EXCEPT ![r].pc = "resuming"] /\ lock' = lock
      BY <1>1, <3>2, PcChanged
    <3> QED BY <2>3, <3>1, <3>2 DEF Look
  <2>4. ASSUME NEW r \in Request, ResumeGraph(r)
        PROVE  ReqOK
    BY <1>1, <2>4, PcChanged DEF ResumeGraph
  <2>5. ASSUME NEW r \in Request, Decided(r)
        PROVE  ReqOK
    <3>1. exec[r].state.phase \in Phase
      BY <1>1 DEF ThreadTypeOK, Execution, Snapshot
    <3> QED BY <2>5, <3>1, Answered DEF Decided
  <2>6. ASSUME NEW r \in Request, ResumeRaises(r)
        PROVE  ReqOK
    BY <2>6, Answered DEF ResumeRaises, Phase
  <2>7. ASSUME NEW a \in Replica, ApiCrash(a)
        PROVE  ReqOK
    BY <1>1, <2>7 DEF ApiCrash, Handler, RequestsKept
  <2>8. ASSUME NEW r \in Request, GraphStep(r), UNCHANGED apiVars
        PROVE  ReqOK
    BY <1>2, <2>8
  <2> QED BY <2>1, <2>2, <2>3, <2>4, <2>5, <2>6, <2>7, <2>8 DEF ApiNext, Handle
<1> QED BY <1>3, <1>4 DEF ApiTypeOK

\* The state a worker has left is well typed.
LEMMA ApiInitTypes ==
  ASSUME Init
  PROVE  ApiTypeOK /\ PublishInv
<1>1. checkpoint \in Snapshot
  BY DEF Init, LeftByWorker
<1>2. PublishInv
  BY <1>1, PublishInit DEF Init
<1>3. request \in [Request -> Handler] /\ lock \in [Replica -> Request \cup {Nobody}]
  BY DEF Init, ApiInit
<1> QED BY <1>2, <1>3 DEF ApiTypeOK, PublishInv

\* The handlers publish only through the graph.
LEMMA ApiStepPublishes ==
  ASSUME ApiTypeOK, PublishInv, ApiNext
  PROVE  PublishInv'
<1>1. CASE UNCHANGED threadVars
  BY <1>1 DEF threadVars, PublishInv, PublishedOnce, ThreadTypeOK, Pushing, Running
<1>2. CASE \E r \in Request : GraphStep(r) /\ UNCHANGED apiVars
  BY <1>2, GraphStepPublishes, ApiAssumption
<1>3. CASE \E r \in Request : ResumeGraph(r)
  <2>1. PICK r \in Request : Resume(r, request[r].decision)
    BY <1>3 DEF ResumeGraph
  <2>2. request[r].decision \in Decision /\ r \in Process
    BY ApiAssumption DEF ApiTypeOK, Handler
  <2> QED BY <2>1, <2>2, BegunPublishes
<1>4. CASE /\ \E ps \in SUBSET Request : Drop(ps)
           /\ UNCHANGED <<config, checkpoint, github>>
  BY <1>4, DroppedPublishes
<1> QED BY <1>1, <1>2, <1>3, <1>4, ApiStepKinds

\* Type correctness of the endpoints, for any set of requests and API processes:
\* every handler is at a line of its own, every lock is free or held by a
\* request, and every execution is at a node of the graph.
THEOREM ApiTypeCorrect == Spec => []ApiTypeOK
<1>1. Init => ApiTypeOK
  BY ApiInitTypes
<1>2. ApiTypeOK /\ [ApiNext]_vars => ApiTypeOK'
  <2>1. ApiTypeOK /\ UNCHANGED vars => ApiTypeOK'
    BY DEF vars, threadVars, apiVars, ApiTypeOK, ThreadTypeOK
  <2> QED BY <2>1, ApiStepTypes
<1> QED BY <1>1, <1>2, PTL DEF Spec

\* The run opens at most one pull request, for any number of API processes and
\* requests, and wherever processes die or calls raise.
THEOREM ApiPublishesOnce == Spec => []PublishedOnce
<1>1. Init => ApiTypeOK /\ PublishInv
  BY ApiInitTypes
<1>2. ApiTypeOK /\ PublishInv /\ [ApiNext]_vars => (ApiTypeOK /\ PublishInv)'
  <2>1. ApiTypeOK /\ PublishInv /\ UNCHANGED vars => (ApiTypeOK /\ PublishInv)'
    BY DEF vars, threadVars, apiVars, ApiTypeOK, ThreadTypeOK, PublishInv,
           PublishedOnce, Pushing, Running
  <2> QED BY <2>1, ApiStepTypes, ApiStepPublishes
<1>3. PublishInv => PublishedOnce
  BY DEF PublishInv
<1> QED BY <1>1, <1>2, <1>3, PTL DEF Spec

-----------------------------------------------------------------------------
(* The gate fails closed, for any number of API processes.                 *)

AskedApproval ==
  \E r \in Request : request[r].decision = "approved" /\ request[r].pc # "unsent"

\* Only requests execute the thread, each with its own decision, and only for a
\* run that needs approval; `approved' is nowhere unless a request says so.
UnapprovedInv ==
  /\ ApiTypeOK
  /\ NothingUnapproved
  /\ checkpoint.next = "approval_gate" => NeedsHumanApproval
  /\ checkpoint.approval_status = "approved" => AskedApproval
  /\ \A p \in Process : exec[p].state.approval_status = "approved" => AskedApproval
  /\ \A p \in Process :
       exec[p].on => /\ p \in Request /\ request[p].pc # "unsent"
                     /\ exec[p].resume = request[p].decision
                     /\ NeedsHumanApproval
  /\ \A r \in Request : request[r].pc = "resuming" => NeedsHumanApproval

\* An approval that was asked for stays asked for.
LEMMA AskedStays ==
  ASSUME RequestsKept, AskedApproval
  PROVE  AskedApproval'
  BY DEF RequestsKept, AskedApproval

\* The steps of the graph keep it.
LEMMA GraphStepUnapproved ==
  ASSUME UnapprovedInv, NEW r \in Request, GraphStep(r), UNCHANGED apiVars,
         ApiTypeOK'
  PROVE  UnapprovedInv'
<1>1. ThreadTypeOK /\ r \in Process
  BY ApiAssumption DEF UnapprovedInv, ApiTypeOK
<1>2. /\ exec[r].on /\ exec'[r].on
      /\ exec'[r].resume = exec[r].resume
      /\ \A q \in Process : q # r => exec'[q] = exec[q]
      /\ config' = config
      /\ Pushes(r) \/ Finishes(r) \/ Saves(r)
  BY <1>1, GraphStepOutcome
<1>3. /\ NeedsHumanApproval /\ NeedsHumanApproval'
      /\ exec[r].resume = request[r].decision /\ request[r].pc # "unsent"
      /\ request' = request
  BY <1>1, <1>2 DEF UnapprovedInv, NeedsHumanApproval, apiVars
<1>4. AskedApproval' <=> AskedApproval
  BY <1>3 DEF AskedApproval
<1>5. exec'[r].state.approval_status = "approved" => AskedApproval
  <2>1. CASE exec'[r].state.approval_status = exec[r].state.approval_status
    BY <1>1, <2>1 DEF UnapprovedInv
  <2>2. CASE exec[r].resume = "approved"
    BY <1>3, <2>2 DEF AskedApproval
  <2>3. CASE exec'[r].state.approval_status = "rejected"
    BY <2>3
  <2> QED BY <1>2, <2>1, <2>2, <2>3 DEF Pushes, Finishes, Saves, NodeOutcome
<1>6. checkpoint'.approval_status = "approved" => AskedApproval
  BY <1>1, <1>2 DEF UnapprovedInv, Pushes, Finishes, Saves
<1>7. github'.branch => AskedApproval
  <2>1. CASE Pushes(r)
    BY <1>1, <1>3, <2>1 DEF Pushes, MayPublish, UnapprovedInv
  <2>2. CASE github'.branch = github.branch
    BY <2>2 DEF UnapprovedInv, NothingUnapproved, AskedApproval
  <2> QED BY <1>2, <2>1, <2>2 DEF Finishes, Saves
<1>8. \A p \in Process : exec'[p].state.approval_status = "approved" => AskedApproval
  BY <1>2, <1>5 DEF UnapprovedInv
<1>9. \A p \in Process :
        exec'[p].on => /\ p \in Request /\ request[p].pc # "unsent"
                       /\ exec'[p].resume = request[p].decision
  BY <1>1, <1>2 DEF UnapprovedInv
<1>10. NothingUnapproved'
  BY <1>4, <1>7 DEF NothingUnapproved, AskedApproval
<1> QED BY <1>3, <1>4, <1>6, <1>8, <1>9, <1>10 DEF UnapprovedInv

\* So do the handlers.
LEMMA ApiStepUnapproved ==
  ASSUME UnapprovedInv, ApiNext
  PROVE  UnapprovedInv'
<1>1. ApiTypeOK /\ ThreadTypeOK /\ ApiTypeOK' /\ RequestsKept
  BY ApiStepTypes DEF UnapprovedInv, ApiTypeOK
<1>2. AskedApproval => AskedApproval'
  BY <1>1, AskedStays
<1>3. ASSUME UNCHANGED <<config, checkpoint, github>>,
             \A p \in Process : exec'[p] = exec[p] \/ exec'[p] = NoExecution,
             \A r \in Request : request'[r].pc = "resuming" => NeedsHumanApproval
      PROVE  UnapprovedInv'
  <2>1. NeedsHumanApproval' <=> NeedsHumanApproval
    BY <1>3 DEF NeedsHumanApproval
  <2>2. NothingUnapproved'
    BY <1>2, <1>3 DEF UnapprovedInv, NothingUnapproved, AskedApproval
  <2>3. ASSUME NEW p \in Process, exec'[p].on
        PROVE  /\ p \in Request /\ request'[p].pc # "unsent"
               /\ exec'[p].resume = request'[p].decision
               /\ NeedsHumanApproval
    BY <1>1, <1>3, <2>3, NoExecutionType DEF UnapprovedInv, RequestsKept
  <2>4. ASSUME NEW p \in Process, exec'[p].state.approval_status = "approved"
        PROVE  AskedApproval'
    BY <1>2, <1>3, <2>4, NoExecutionType DEF UnapprovedInv
  <2> QED BY <1>1, <1>2, <1>3, <2>1, <2>2, <2>3, <2>4 DEF UnapprovedInv
<1>4. \A r \in Request : request'[r].pc = "resuming" => NeedsHumanApproval
  BY <1>1, NewlyResuming DEF UnapprovedInv
<1>5. CASE UNCHANGED threadVars
  BY <1>3, <1>4, <1>5 DEF threadVars
<1>6. CASE /\ \E ps \in SUBSET Request : Drop(ps)
           /\ UNCHANGED <<config, checkpoint, github>>
  <2>1. \A p \in Process : exec'[p] = exec[p] \/ exec'[p] = NoExecution
    BY <1>1, <1>6, Dropped
  <2> QED BY <1>3, <1>4, <1>6, <2>1
<1>7. ASSUME NEW r \in Request, ResumeGraph(r)
      PROVE  UnapprovedInv'
  <2>1. /\ Resume(r, request[r].decision) /\ request[r].pc = "resuming"
        /\ r \in Process
    BY <1>7, ApiAssumption DEF ResumeGraph
  <2>2. /\ exec'[r].state = checkpoint /\ exec'[r].resume = request[r].decision
        /\ \A q \in Process : q # r => exec'[q] = exec[q]
        /\ UNCHANGED <<config, checkpoint, github>>
    BY <1>1, <2>1, NoExecutionType DEF Resume, ThreadTypeOK, Execution
  <2>3. /\ request'[r].pc = "running"
        /\ \A s \in Request : s # r => request'[s] = request[s]
    BY <1>1, <1>7, PcChanged DEF ResumeGraph
  <2>4. NeedsHumanApproval /\ NeedsHumanApproval'
    BY <2>1, <2>2 DEF UnapprovedInv, NeedsHumanApproval
  <2>5. NothingUnapproved'
    BY <1>2, <2>2 DEF UnapprovedInv, NothingUnapproved, AskedApproval
  <2>6. ASSUME NEW p \in Process, exec'[p].on
        PROVE  /\ p \in Request /\ request'[p].pc # "unsent"
               /\ exec'[p].resume = request'[p].decision
    BY <1>1, <2>2, <2>3, <2>6 DEF UnapprovedInv, RequestsKept
  <2>7. ASSUME NEW p \in Process, exec'[p].state.approval_status = "approved"
        PROVE  AskedApproval'
    BY <1>2, <2>2, <2>7 DEF UnapprovedInv
  <2>8. checkpoint'.approval_status = "approved" => AskedApproval'
    BY <1>2, <2>2 DEF UnapprovedInv
  <2> QED BY <1>1, <2>4, <2>5, <2>6, <2>7, <2>8 DEF UnapprovedInv
<1>8. ASSUME NEW r \in Request, GraphStep(r), UNCHANGED apiVars
      PROVE  UnapprovedInv'
  BY <1>1, <1>8, GraphStepUnapproved
<1> QED BY <1>1, <1>5, <1>6, <1>7, <1>8, ApiStepKinds

\* For any number of API processes and requests, and wherever they die: the
\* branch of a run is pushed only if someone asked for the approval of the run.
THEOREM GateFailsClosed == Spec => []NothingUnapproved
<1>1. Init => UnapprovedInv
  <2> SUFFICES ASSUME Init PROVE UnapprovedInv
    OBVIOUS
  <2>1. ApiTypeOK
    BY ApiInitTypes
  <2>2. \A p \in Process : exec[p] = NoExecution
    BY DEF Init, ThreadInit
  <2>3. \A r \in Request : request[r].pc = "unsent"
    BY DEF Init, ApiInit
  <2>4. ~ github.branch
    BY DEF Init, ThreadInit
  <2>5. /\ checkpoint.approval_status = "none"
        /\ checkpoint.next = "approval_gate" => NeedsHumanApproval
    BY NoExecutionType DEF Init, LeftByWorker
  <2> QED BY <2>1, <2>2, <2>3, <2>4, <2>5, NoExecutionType
          DEF UnapprovedInv, NothingUnapproved
<1>2. UnapprovedInv /\ [ApiNext]_vars => UnapprovedInv'
  <2>1. UnapprovedInv /\ UNCHANGED vars => UnapprovedInv'
    BY DEF vars, threadVars, apiVars, ApiTypeOK, ThreadTypeOK, UnapprovedInv,
           NothingUnapproved, AskedApproval, NeedsHumanApproval
  <2> QED BY <2>1, ApiStepUnapproved
<1>3. UnapprovedInv => NothingUnapproved
  BY DEF UnapprovedInv
<1> QED BY <1>1, <1>2, <1>3, PTL DEF Spec

-----------------------------------------------------------------------------
(* The lock of one API process.                                            *)

\* A request that is past the lock holds it; it executes the thread exactly
\* while its handler awaits ainvoke; an accepted request is over.
LockInv ==
  \A r \in Request :
    /\ request[r].decision \in {"approved", "rejected"}
    /\ Holding(r) => lock[request[r].replica] = r
    /\ exec[r].on <=> request[r].pc = "running"
    /\ request[r].status = "200" => request[r].pc = "over"

\* The phases an accepted decision may be answered with.
Honest(d) == IF d = "approved" THEN {"DONE", "FAILED"} ELSE {"REJECTED"}

\* How far the resumed execution of request r is, and what it has saved.
Progress(r) ==
  LET e == exec[r]
  IN  /\ e.resume = request[r].decision
      /\ e.saved => checkpoint = e.state
      /\ checkpoint.next = "END" => e.saved
      /\ checkpoint.approval_status \in {"none", e.state.approval_status}
      /\ checkpoint.approval_status = "none" => checkpoint.next = "approval_gate"
      /\ \/ /\ e.state.next = "approval_gate" /\ e.state.approval_status = "none"
            /\ e.saved
         \/ /\ e.state.next = "pr_publish" /\ e.state.approval_status = "approved"
            /\ e.resume = "approved"
         \/ /\ e.state.next = "END" /\ e.state.approval_status = e.resume
            /\ e.state.phase \in Honest(e.resume)

\* The end of the run that an accepted request reports.
EndedAs(r) ==
  /\ checkpoint.next = "END" /\ checkpoint.approval_status = request[r].decision
  /\ checkpoint.phase = request[r].phase
  /\ request[r].phase \in Honest(request[r].decision)

\* With one process, whoever is about to resume finds the run at its gate, and
\* nobody resumes it once a decision has been accepted.
DecisionInv ==
  /\ ApiTypeOK
  /\ LockInv
  /\ checkpoint.next = "approval_gate" => checkpoint.approval_status = "none"
  /\ \A r \in Request : request[r].pc = "resuming" => checkpoint.next = "approval_gate"
  /\ \A r \in Request : request[r].pc = "running" => Progress(r)
  /\ \A r \in Accepted : EndedAs(r) /\ \A s \in Request : request[s].pc # "running"
  /\ DecidedOnce

\* The second half of DecidedOnce's argument: the answers are what the status
\* endpoint reports.
LEMMA TruthfulDecisions ==
  ASSUME DecisionInv
  PROVE  AnswersAreTruthful
<1> SUFFICES ASSUME NEW r \in Accepted
             PROVE  /\ request[r].phase \in Honest(request[r].decision)
                    /\ GetMigrationStatus =
                         [status |-> "200", phase |-> request[r].phase,
                          approval_status |-> request[r].decision, pending |-> FALSE]
  BY DEF AnswersAreTruthful, Honest
<1>1. EndedAs(r)
  BY DEF DecisionInv
<1> QED BY <1>1 DEF EndedAs, GetMigrationStatus, StateToStatusResponse,
                     IsAwaitingApproval

\* With one process at most one request is past the lock.
LEMMA OneHolder ==
  ASSUME DecisionInv, NEW a, Replica = {a}, NEW r \in Request, NEW s \in Request,
         Holding(r), Holding(s)
  PROVE  r = s
  BY DEF DecisionInv, LockInv, ApiTypeOK, Handler

\* The steps of the graph under the lock.
LEMMA GraphStepDecides ==
  ASSUME DecisionInv, NEW a, Replica = {a}, ApiTypeOK',
         NEW r \in Request, GraphStep(r), UNCHANGED apiVars
  PROVE  DecisionInv'
<1>1. ThreadTypeOK /\ r \in Process
  BY ApiAssumption DEF DecisionInv, ApiTypeOK
<1>2. /\ exec[r].on /\ exec'[r].on
      /\ exec'[r].resume = exec[r].resume
      /\ \A q \in Process : q # r => exec'[q] = exec[q]
      /\ Pushes(r) \/ Finishes(r) \/ Saves(r)
  BY <1>1, GraphStepOutcome
<1>3. request[r].pc = "running" /\ Progress(r)
  BY <1>2 DEF DecisionInv, LockInv
<1>4. \A s \in Request : s # r => request[s].pc \notin {"resuming", "running"}
  BY <1>3, OneHolder DEF Holding
<1>5. Accepted = {} /\ request' = request /\ lock' = lock
  BY <1>3 DEF DecisionInv, apiVars
<1>6. exec[r].resume \in {"approved", "rejected"}
  BY <1>3 DEF Progress, DecisionInv, LockInv
<1>7. Progress(r)'
  BY <1>2, <1>3, <1>5, <1>6
     DEF Progress, Pushes, Finishes, Saves, NodeOutcome, Honest
<1>8. checkpoint'.next = "approval_gate" => checkpoint'.approval_status = "none"
  BY <1>2, <1>3 DEF Progress, Pushes, Finishes, Saves, DecisionInv
<1>9. LockInv'
  BY <1>1, <1>2, <1>5, ApiAssumption DEF DecisionInv, LockInv, Holding
<1> QED BY <1>3, <1>4, <1>5, <1>7, <1>8, <1>9 DEF DecisionInv, Accepted, DecidedOnce

\* The handlers, with one process.
LEMMA ApiStepDecides ==
  ASSUME DecisionInv, NEW a, Replica = {a}, ApiNext
  PROVE  DecisionInv'
<1>1. ApiTypeOK /\ ThreadTypeOK /\ ApiTypeOK' /\ RequestsKept
  BY ApiStepTypes DEF DecisionInv, ApiTypeOK
<1>2. \A r \in Request : request[r].replica = a /\ r \in Process
  BY <1>1, ApiAssumption DEF ApiTypeOK, Handler
<1>3. \A r \in Request : request'[r].decision \in {"approved", "rejected"}
  BY <1>1 DEF RequestsKept, DecisionInv, LockInv
\* A step that leaves the thread, but for executions it drops, and the accepted
\* requests alone; what happens to the lock is left to the cases.
<1>4. ASSUME checkpoint' = checkpoint,
             LockInv',
             \A s \in Request : request'[s].status = "200"
                                  => s \in Accepted /\ request'[s] = request[s],
             \A s \in Request : request'[s].pc = "resuming"
                                  => checkpoint.next = "approval_gate",
             \A s \in Request : request'[s].pc = "running"
                                  => request[s].pc = "running" /\ exec'[s] = exec[s]
      PROVE  DecisionInv'
  <2>1. \A s \in Request : request'[s].pc = "running" => Progress(s)'
    BY <1>1, <1>4 DEF DecisionInv, Progress, RequestsKept
  <2>2. \A s \in Request : request'[s].status = "200" => EndedAs(s)'
    BY <1>4 DEF DecisionInv, EndedAs
  <2>3. DecidedOnce'
    BY <1>4 DEF DecidedOnce, Accepted, DecisionInv
  <2> QED BY <1>1, <1>4, <2>1, <2>2, <2>3 DEF DecisionInv, Accepted
<1>5. ASSUME NEW r \in Request, Ask(r)
      PROVE  DecisionInv'
  <2>1. /\ request[r].pc \in {"unsent", "over"} /\ request[r].status # "200"
        /\ request'[r].pc = "waiting" /\ request'[r].status = "none"
        /\ \A s \in Request : s # r => request'[s] = request[s]
        /\ lock' = lock /\ exec' = exec /\ checkpoint' = checkpoint
    BY <1>1, <1>5 DEF Ask, threadVars, ApiTypeOK, Handler
  <2>2. LockInv'
    BY <1>1, <1>3, <2>1 DEF LockInv, Holding, DecisionInv
  <2> QED BY <1>4, <2>1, <2>2 DEF Accepted, DecisionInv
<1>6. ASSUME NEW r \in Request, Acquire(r)
      PROVE  DecisionInv'
  <2>1. /\ request[r].pc = "waiting" /\ lock[a] = Nobody
        /\ lock' = [lock EXCEPT ![a] = r] /\ lock'[a] = r
        /\ exec' = exec /\ checkpoint' = checkpoint
    BY <1>1, <1>2, <1>6 DEF Acquire, threadVars, ApiTypeOK
  <2>2. /\ request'[r].pc = "locked" /\ request'[r].status = request[r].status
        /\ \A s \in Request : s # r => request'[s] = request[s]
    BY <1>1, <1>6, PcChanged DEF Acquire
  <2>3. \A s \in Request : ~ Holding(s)
    BY <1>2, <2>1, ApiAssumption DEF DecisionInv, LockInv
  <2>4. request[r].status # "200"
    BY <2>1 DEF DecisionInv, LockInv
  <2>5. LockInv'
    BY <1>1, <1>2, <1>3, <2>1, <2>2, <2>3, <2>4
       DEF LockInv, Holding, DecisionInv, RequestsKept
  <2> QED BY <1>4, <2>1, <2>2, <2>4, <2>5 DEF Accepted, DecisionInv
\* Every handler that gives up the lock without a decision.
<1>7. ASSUME NEW r \in Request, Holding(r), checkpoint' = checkpoint,
             NEW status \in {"404", "409", "500"}, Answer(r, status, "NONE"),
             exec'[r].on = FALSE,
             \A s \in Request : s # r => exec'[s] = exec[s]
      PROVE  DecisionInv'
  <2>1. /\ request'[r].pc = "over" /\ request'[r].status = status
        /\ \A s \in Request : s # r => request'[s] = request[s]
    BY <1>1, <1>7, Answered DEF Phase
  <2>2. \A s \in Request : s # r => ~ Holding(s)
    BY <1>7, OneHolder
  <2>3. LockInv'
    BY <1>1, <1>3, <1>7, <2>1, <2>2 DEF LockInv, Holding, DecisionInv
  <2> QED BY <1>4, <1>7, <2>1, <2>3 DEF Accepted, DecisionInv
<1>8. ASSUME NEW r \in Request, Look(r)
      PROVE  DecisionInv'
  <2>1. /\ request[r].pc = "locked" /\ Holding(r) /\ ~ exec[r].on
        /\ exec' = exec /\ checkpoint' = checkpoint
    BY <1>8 DEF Look, threadVars, Holding, DecisionInv, LockInv
  <2>2. CASE Answer(r, "404", "NONE") \/ Answer(r, "409", "NONE")
    <3>1. exec[r].on = FALSE
      BY <1>1, <1>2, <2>1 DEF ThreadTypeOK, Execution
    <3> QED BY <1>7, <2>1, <2>2, <3>1
  <2>3. CASE /\ checkpoint.next = "approval_gate"
             /\ request' = [request EXCEPT ![r].pc = "resuming"] /\ lock' = lock
    <3>1. /\ request'[r].pc = "resuming" /\ request'[r].status = request[r].status
          /\ \A s \in Request : s # r => request'[s] = request[s]
      BY <1>1, <2>3, PcChanged
    <3>2. LockInv'
      BY <1>1, <1>3, <2>1, <2>3, <3>1 DEF LockInv, Holding, DecisionInv, RequestsKept
    <3>3. request[r].status # "200"
      BY <2>1 DEF DecisionInv, LockInv
    <3> QED BY <1>4, <2>1, <2>3, <3>1, <3>2, <3>3 DEF Accepted, DecisionInv
  <2> QED BY <1>8, <2>2, <2>3 DEF Look, IsAwaitingApproval
<1>9. ASSUME NEW r \in Request, ResumeGraph(r)
      PROVE  DecisionInv'
  <2>1. /\ Resume(r, request[r].decision) /\ request[r].pc = "resuming" /\ Holding(r)
        /\ checkpoint.next = "approval_gate" /\ checkpoint.approval_status = "none"
        /\ lock' = lock
    BY <1>9 DEF ResumeGraph, Holding, DecisionInv
  <2>2. /\ exec'[r].state = checkpoint /\ exec'[r].resume = request[r].decision
        /\ exec'[r].saved = TRUE /\ exec'[r].on = TRUE
        /\ \A q \in Process : q # r => exec'[q] = exec[q]
        /\ checkpoint' = checkpoint
    BY <1>1, <1>2, <2>1, NoExecutionType DEF Resume, ThreadTypeOK, Execution
  <2>3. /\ request'[r].pc = "running" /\ request'[r].status = request[r].status
        /\ \A s \in Request : s # r => request'[s] = request[s]
    BY <1>1, <1>9, PcChanged DEF ResumeGraph
  <2>4. \A s \in Request : s # r => ~ Holding(s)
    BY <2>1, OneHolder
  <2>5. \A s \in Request : request[s].status # "200"
    BY <2>1 DEF DecisionInv, EndedAs, Accepted
  <2>6. LockInv'
    BY <1>1, <1>2, <1>3, <2>1, <2>2, <2>3, <2>5
       DEF LockInv, Holding, DecisionInv, RequestsKept
  <2>7. Progress(r)'
    BY <1>1, <2>1, <2>2 DEF Progress, RequestsKept
  <2>8. \A s \in Request : s # r => request'[s].pc \notin {"resuming", "running"}
    BY <2>3, <2>4 DEF Holding
  <2> QED BY <1>1, <2>1, <2>2, <2>3, <2>5, <2>6, <2>7, <2>8
          DEF DecisionInv, Accepted, DecidedOnce
<1>10. ASSUME NEW r \in Request, Decided(r)
       PROVE  DecisionInv'
  <2>1. /\ request[r].pc = "running" /\ Holding(r) /\ Progress(r) /\ Returns(r)
        /\ Drop({r}) /\ Answer(r, "200", exec[r].state.phase)
        /\ checkpoint' = checkpoint
    BY <1>10 DEF Decided, Holding, DecisionInv
  <2>2. /\ exec'[r].on = FALSE
        /\ \A s \in Request : s # r => exec'[s] = exec[s]
    BY <1>1, <1>2, <2>1, Dropped, NoExecutionType
  <2>3. exec[r].state.phase \in Phase
    BY <1>1, <1>2 DEF ThreadTypeOK, Execution, Snapshot
  <2>4. /\ request'[r].pc = "over" /\ request'[r].status = "200"
        /\ request'[r].phase = exec[r].state.phase
        /\ \A s \in Request : s # r => request'[s] = request[s]
    BY <1>1, <2>1, <2>3, Answered
  <2>5. \A s \in Request : s # r => ~ Holding(s)
    BY <2>1, OneHolder
  <2>6. \A s \in Request : request[s].status # "200"
    BY <2>1 DEF DecisionInv, Accepted
  <2>7. LockInv'
    BY <1>1, <1>3, <2>2, <2>4, <2>5 DEF LockInv, Holding, DecisionInv
  <2>8. exec[r].resume # "none"
    BY <2>1 DEF Progress, DecisionInv, LockInv
  <2>9. EndedAs(r)'
    BY <1>1, <2>1, <2>4, <2>8 DEF EndedAs, Progress, Returns, RequestsKept
  <2>10. \A s \in Request : request'[s].pc \notin {"resuming", "running"}
    BY <2>4, <2>5 DEF Holding
  <2> QED BY <1>1, <2>1, <2>4, <2>6, <2>7, <2>9, <2>10
          DEF DecisionInv, Accepted, DecidedOnce
<1>11. ASSUME NEW r \in Request, ResumeRaises(r)
       PROVE  DecisionInv'
  <2>1. Holding(r) /\ Drop({r}) /\ checkpoint' = checkpoint /\ Answer(r, "500", "NONE")
    BY <1>11 DEF ResumeRaises, Holding
  <2>2. /\ exec'[r].on = FALSE
        /\ \A s \in Request : s # r => exec'[s] = exec[s]
    BY <1>1, <1>2, <2>1, Dropped, NoExecutionType
  <2> QED BY <1>7, <2>1, <2>2
<1>12. ASSUME NEW b \in Replica, ApiCrash(b)
       PROVE  DecisionInv'
  <2>1. checkpoint' = checkpoint
    BY <1>1, <1>12, Crashed
  <2>2. \A s \in Request :
          \/ request'[s].pc = "over" /\ request'[s].status = "lost"
               /\ exec'[s] = NoExecution
          \/ request'[s] = request[s] /\ request[s].pc \in {"unsent", "over"}
               /\ exec'[s] = exec[s]
    BY <1>1, <1>2, <1>12, Crashed
  <2>3. LockInv'
    BY <1>1, <1>3, <2>2, NoExecutionType DEF LockInv, Holding, DecisionInv
  <2> QED BY <1>4, <2>1, <2>2, <2>3 DEF Accepted, DecisionInv
<1>13. ASSUME NEW r \in Request, GraphStep(r), UNCHANGED apiVars
       PROVE  DecisionInv'
  BY <1>1, <1>13, GraphStepDecides
<1> QED BY <1>5, <1>6, <1>8, <1>9, <1>10, <1>11, <1>12, <1>13 DEF ApiNext, Handle

\* Before anyone has asked.
LEMMA DecisionInit ==
  ASSUME ThreadInit, ApiInit, ApiTypeOK, checkpoint.approval_status = "none"
  PROVE  DecisionInv
<1>1. \A p \in Process : exec[p] = NoExecution
  BY DEF ThreadInit
<1>2. \A r \in Request : /\ request[r].pc = "unsent" /\ request[r].status = "none"
                         /\ request[r].decision \in {"approved", "rejected"}
  BY DEF ApiInit, Handler, Decision
<1>3. LockInv
  BY <1>1, <1>2, NoExecutionType, ApiAssumption DEF LockInv, Holding
<1> QED BY <1>2, <1>3 DEF DecisionInv, Accepted, DecidedOnce

\* The invariant of one API process.
LEMMA DecisionAlways ==
  ASSUME NEW a, Replica = {a}
  PROVE  Spec => []DecisionInv
<1>1. Init => DecisionInv
  <2> SUFFICES ASSUME Init PROVE DecisionInv
    OBVIOUS
  <2>1. ApiTypeOK /\ checkpoint.approval_status = "none"
    BY ApiInitTypes DEF Init, LeftByWorker
  <2> QED BY <2>1, DecisionInit DEF Init
<1>2. DecisionInv /\ [ApiNext]_vars => DecisionInv'
  <2>1. DecisionInv /\ UNCHANGED vars => DecisionInv'
    BY DEF vars, threadVars, apiVars, DecisionInv, ApiTypeOK, ThreadTypeOK, LockInv,
           Holding, Progress, EndedAs, Accepted, DecidedOnce
  <2> QED BY <2>1, ApiStepDecides
<1> QED BY <1>1, <1>2, PTL DEF Spec

\* With one API process, any number of requests and a process that may die at
\* any point, at most one decision is ever accepted.
THEOREM OneDecision ==
  ASSUME NEW a, Replica = {a}
  PROVE  Spec => []DecidedOnce
<1>1. DecisionInv => DecidedOnce
  BY DEF DecisionInv
<1> QED BY <1>1, DecisionAlways, PTL

\* Under the same assumption an accepted answer names an outcome that fits the
\* decision, and the status endpoint goes on reporting it.
THEOREM TruthfulAnswers ==
  ASSUME NEW a, Replica = {a}
  PROVE  Spec => []AnswersAreTruthful
<1>1. DecisionInv => AnswersAreTruthful
  BY TruthfulDecisions
<1> QED BY <1>1, DecisionAlways, PTL
=============================================================================
