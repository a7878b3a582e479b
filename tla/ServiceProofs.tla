--------------------------- MODULE ServiceProofs ---------------------------
(***************************************************************************)
(* Theorems about the deployed system, for any number of workers, requests *)
(* and faults, and with any number of API processes unless one is assumed: *)
(* what a redelivered job can and cannot do, and that a service with one   *)
(* API process implements RunContract.                                     *)
(***************************************************************************)
EXTENDS Service, ApprovalProofs

-----------------------------------------------------------------------------
(* Deliveries.                                                             *)

\* Worker w has got past the first clone.
Past(w) == job[w] \notin {"idle", "source"}

\* The clone of the source is the lock of a run: whoever gets past it found no
\* directory, the directory outlives the worker, and no one else gets past.
DeliveryInv ==
  /\ WorkerTypeOK
  /\ GraphStartsOnce
  /\ \A w, v \in Worker : Past(w) /\ Past(v) => w = v
  /\ \A w \in Worker : Past(w) => source # "absent"
  /\ source = "absent" => starts = 0
  /\ \A w \in Worker : Past(w) => starts = IF job[w] = "graph" THEN 1 ELSE 0
  /\ submitted = "queued" => queued > 0 \/ returned \/ failed
                               \/ \E w \in Worker : job[w] # "idle"

\* A delivery that goes on to another step of its job.
LEMMA Moved ==
  ASSUME WorkerTypeOK, NEW w \in Worker, NEW step \in JobStep, MoveTo(w, step)
  PROVE  /\ job' \in [Worker -> JobStep]
         /\ job'[w] = step
         /\ \A v \in Worker : v # w => job'[v] = job[v]
  BY DEF WorkerTypeOK, MoveTo

\* The three things a worker does to the thread, other than a step of the graph:
\* nothing, to begin an execution, or to drop one.
Prepares ==
  /\ UNCHANGED threadVars /\ UNCHANGED <<starts, returned>>
  /\ \A v \in Worker : job'[v] = "graph" <=> job[v] = "graph"

Leaves(w) ==
  /\ Drop({w}) /\ MoveTo(w, "idle")
  /\ UNCHANGED <<config, checkpoint, github, starts>>
  /\ returned' = returned \/ Returns(w)

\* There is nothing else.
LEMMA WorkerStepKinds ==
  ASSUME WorkerTypeOK, WorkerNext
  PROVE  \/ Prepares
         \/ \E w \in Worker : \/ GraphStep(w) /\ UNCHANGED workerVars
                              \/ StartGraph(w)
                              \/ Leaves(w)
<1> USE DEF WorkerNext, JobStepOf
<1>1. CASE \E accepted \in BOOLEAN : Submit(accepted)
  BY <1>1 DEF Submit, Prepares
<1>2. ASSUME NEW w \in Worker,
             Receive(w) \/ PrepareSource(w) \/ PrepareTarget(w) \/ VisibilityTimeout(w)
      PROVE  Prepares
  <2>1. UNCHANGED threadVars /\ UNCHANGED <<starts, returned>>
    BY <1>2 DEF Receive, PrepareSource, PrepareTarget, VisibilityTimeout
  <2>2. CASE VisibilityTimeout(w)
    BY <2>1, <2>2 DEF VisibilityTimeout, Prepares
  <2>3. CASE Receive(w) \/ PrepareSource(w) \/ PrepareTarget(w)
    <3>1. job[w] # "graph"
      BY <2>3 DEF Receive, PrepareSource, PrepareTarget, CloneInto, CloneEnds, Scaffold
    <3>2. \E step \in JobStep : step # "graph" /\ MoveTo(w, step)
      BY <2>3 DEF Receive, PrepareSource, PrepareTarget, CloneInto, CloneEnds, Scaffold,
                  JobFails, MoveTo, JobStep
    <3>3. job'[w] # "graph" /\ \A v \in Worker : v # w => job'[v] = job[v]
      BY <3>2, Moved
    <3> QED BY <2>1, <3>1, <3>3 DEF Prepares
  <2> QED BY <1>2, <2>2, <2>3
<1>3. CASE \E w \in Worker : Acknowledge(w) \/ JobAborts(w) \/ WorkerDies(w)
  BY <1>3 DEF Acknowledge, JobAborts, JobFails, WorkerDies, Leaves
<1> QED BY <1>1, <1>2, <1>3

\* The steps of the workers keep the types of the thread.
LEMMA WorkerStepThread ==
  ASSUME WorkerTypeOK, WorkerNext
  PROVE  ThreadTypeOK'
<1> USE WorkerAssumption
<1>1. ThreadTypeOK
  BY DEF WorkerTypeOK
<1>2. CASE Prepares
  BY <1>1, <1>2 DEF Prepares, threadVars, ThreadTypeOK
<1>3. ASSUME NEW w \in Worker, GraphStep(w)
      PROVE  ThreadTypeOK'
  BY <1>1, <1>3, GraphStepTypes
<1>4. ASSUME NEW w \in Worker, StartGraph(w)
      PROVE  ThreadTypeOK'
  <2>1. exec' \in [Process -> Execution] /\ UNCHANGED <<config, checkpoint, github>>
    BY <1>1, <1>4, Begun DEF StartGraph
  <2> QED BY <1>1, <2>1 DEF ThreadTypeOK
<1>5. ASSUME NEW w \in Worker, Leaves(w)
      PROVE  ThreadTypeOK'
  <2>1. exec' \in [Process -> Execution]
    BY <1>1, <1>5, Dropped DEF Leaves
  <2> QED BY <1>1, <1>5, <2>1 DEF Leaves, ThreadTypeOK
<1> QED BY <1>2, <1>3, <1>4, <1>5, WorkerStepKinds

\* Every step of a worker keeps the invariant of the deliveries.
LEMMA WorkerStepDelivers ==
  ASSUME DeliveryInv, WorkerNext
  PROVE  DeliveryInv'
<1> USE DEF JobStep, Directory
<1>1. WorkerTypeOK /\ ThreadTypeOK /\ ThreadTypeOK'
  BY WorkerStepThread DEF DeliveryInv, WorkerTypeOK
<1>2. ASSUME NEW accepted \in BOOLEAN, Submit(accepted)
      PROVE  DeliveryInv'
  <2>1. WorkerTypeOK'
    BY <1>1, <1>2 DEF Submit, WorkerTypeOK
  <2>2. submitted' = "queued" => queued' > 0
    BY <1>2 DEF Submit
  <2> QED BY <1>2, <2>1, <2>2 DEF Submit, DeliveryInv, GraphStartsOnce, Past
<1>3. ASSUME NEW w \in Worker, Receive(w)
      PROVE  DeliveryInv'
  <2>1. /\ job' \in [Worker -> JobStep] /\ job'[w] = "source"
        /\ \A v \in Worker : v # w => job'[v] = job[v]
    BY <1>1, <1>3 DEF Receive, WorkerTypeOK
  <2>2. WorkerTypeOK'
    BY <1>1, <1>3, <2>1 DEF Receive, WorkerTypeOK
  <2> QED BY <1>3, <2>1, <2>2 DEF Receive, DeliveryInv, GraphStartsOnce, Past
<1>4. ASSUME NEW w \in Worker, PrepareSource(w)
      PROVE  DeliveryInv'
  <2>1. CASE job[w] = "source" /\ source = "absent"
    <3>1. /\ source' = "partial" /\ MoveTo(w, "cloning_source") /\ failed' = failed
      BY <1>4, <2>1 DEF PrepareSource, CloneInto, CloneEnds
    <3>2. /\ job' \in [Worker -> JobStep] /\ job'[w] = "cloning_source"
          /\ \A v \in Worker : v # w => job'[v] = job[v]
      BY <1>1, <3>1, Moved
    <3>3. \A v \in Worker : ~ Past(v)
      BY <2>1 DEF DeliveryInv
    <3> QED BY <1>1, <1>4, <2>1, <3>1, <3>2, <3>3
            DEF PrepareSource, DeliveryInv, WorkerTypeOK, GraphStartsOnce, Past
  <2>2. CASE job[w] = "source" /\ source # "absent"
    <3>1. source' = source /\ MoveTo(w, "idle") /\ failed' = TRUE
      BY <1>4, <2>2 DEF PrepareSource, CloneInto, CloneEnds, JobFails
    <3>2. /\ job' \in [Worker -> JobStep] /\ job'[w] = "idle"
          /\ \A v \in Worker : v # w => job'[v] = job[v]
      BY <1>1, <3>1, Moved
    <3> QED BY <1>1, <1>4, <2>2, <3>1, <3>2
            DEF PrepareSource, DeliveryInv, WorkerTypeOK, GraphStartsOnce, Past
  <2>3. CASE job[w] = "cloning_source" /\ source' = "complete"
               /\ MoveTo(w, "target") /\ failed' = failed
    <3>1. /\ job' \in [Worker -> JobStep] /\ job'[w] = "target"
          /\ \A v \in Worker : v # w => job'[v] = job[v]
      BY <1>1, <2>3, Moved
    <3> QED BY <1>1, <1>4, <2>3, <3>1
            DEF PrepareSource, DeliveryInv, WorkerTypeOK, GraphStartsOnce, Past
  <2>4. CASE job[w] = "cloning_source" /\ source' = "absent"
               /\ MoveTo(w, "idle") /\ failed' = TRUE
    <3>1. /\ job' \in [Worker -> JobStep] /\ job'[w] = "idle"
          /\ \A v \in Worker : v # w => job'[v] = job[v]
      BY <1>1, <2>4, Moved
    <3>2. starts = 0 /\ \A v \in Worker : v # w => ~ Past(v)
      BY <2>4 DEF DeliveryInv, Past
    <3> QED BY <1>1, <1>4, <2>4, <3>1, <3>2
            DEF PrepareSource, DeliveryInv, WorkerTypeOK, GraphStartsOnce, Past
  <2> QED BY <1>4, <2>1, <2>2, <2>3, <2>4
          DEF PrepareSource, CloneInto, CloneEnds, JobFails
\* A step of a job past the clone that does not start the graph.
<1>5. ASSUME NEW w \in Worker, Past(w), job[w] # "graph",
             NEW step \in {"idle", "cloning_target", "setup"}, MoveTo(w, step),
             step = "idle" => failed', failed => failed', failed' \in BOOLEAN,
             target' \in Directory,
             UNCHANGED <<submitted, queued, source, hasTargetRepo, deaths, timeouts,
                         starts, returned>>
      PROVE  DeliveryInv'
  <2>1. /\ job' \in [Worker -> JobStep] /\ job'[w] = step
        /\ \A v \in Worker : v # w => job'[v] = job[v]
    BY <1>1, <1>5, Moved
  <2> QED BY <1>1, <1>5, <2>1 DEF DeliveryInv, WorkerTypeOK, GraphStartsOnce, Past
<1>6. ASSUME NEW w \in Worker, PrepareTarget(w)
      PROVE  DeliveryInv'
  <2>1. job[w] \in {"target", "cloning_target"} /\ target \in Directory
        /\ failed \in BOOLEAN
    BY <1>1, <1>6 DEF PrepareTarget, CloneInto, CloneEnds, Scaffold, WorkerTypeOK
  <2>2. \E step \in {"idle", "cloning_target", "setup"} :
          /\ MoveTo(w, step) /\ target' \in Directory /\ failed' \in BOOLEAN
          /\ step = "idle" => failed'
          /\ failed => failed'
    BY <1>6, <2>1 DEF PrepareTarget, CloneInto, CloneEnds, Scaffold, JobFails
  <2> QED BY <1>5, <1>6, <2>1, <2>2 DEF PrepareTarget, Past
<1>7. ASSUME NEW w \in Worker, StartGraph(w)
      PROVE  DeliveryInv'
  <2>1. /\ job' \in [Worker -> JobStep] /\ job'[w] = "graph"
        /\ \A v \in Worker : v # w => job'[v] = job[v]
    BY <1>1, <1>7, Moved DEF StartGraph
  <2>2. Past(w) /\ starts = 0 /\ starts' = 1 /\ source # "absent"
    BY <1>7 DEF StartGraph, DeliveryInv, Past
  <2>3. WorkerTypeOK'
    BY <1>1, <1>7, <2>1, <2>2 DEF StartGraph, WorkerTypeOK
  <2> QED BY <1>7, <2>1, <2>2, <2>3
          DEF StartGraph, DeliveryInv, GraphStartsOnce, Past
\* The end of a job, however it ends.
<1>8. ASSUME NEW w \in Worker, MoveTo(w, "idle"),
             queued' \in Nat, queued' >= queued,
             returned' \in BOOLEAN, returned => returned',
             failed' \in BOOLEAN, failed => failed',
             queued' > 0 \/ returned' \/ failed', deaths' \in 0..MaxDeaths,
             UNCHANGED <<submitted, source, target, hasTargetRepo, timeouts, starts>>
      PROVE  DeliveryInv'
  <2>1. /\ job' \in [Worker -> JobStep] /\ job'[w] = "idle"
        /\ \A v \in Worker : v # w => job'[v] = job[v]
    BY <1>1, <1>8, Moved
  <2> QED BY <1>1, <1>8, <2>1 DEF DeliveryInv, WorkerTypeOK, GraphStartsOnce, Past
<1>9. ASSUME NEW w \in Worker, Acknowledge(w) \/ JobAborts(w)
      PROVE  DeliveryInv'
  <2>1. queued \in Nat /\ deaths \in 0..MaxDeaths /\ returned \in BOOLEAN
        /\ failed \in BOOLEAN
    BY <1>1 DEF WorkerTypeOK
  <2>2. CASE Acknowledge(w)
    BY <1>8, <2>1, <2>2 DEF Acknowledge
  <2>3. CASE JobAborts(w)
    BY <1>8, <2>1, <2>3 DEF JobAborts, JobFails
  <2> QED BY <1>9, <2>2, <2>3
<1>10. ASSUME NEW w \in Worker, WorkerDies(w)
       PROVE  DeliveryInv'
  <2>1. queued \in Nat /\ deaths \in 0..MaxDeaths /\ returned \in BOOLEAN
        /\ failed \in BOOLEAN
    BY <1>1 DEF WorkerTypeOK
  <2>2. /\ queued' \in Nat /\ queued' > 0 /\ queued' >= queued
        /\ deaths' \in 0..MaxDeaths /\ MoveTo(w, "idle")
        /\ UNCHANGED <<submitted, source, target, hasTargetRepo, timeouts, starts,
                       returned, failed>>
    BY <1>10, <2>1, WorkerAssumption DEF WorkerDies
  <2> QED BY <1>8, <2>1, <2>2
<1>11. ASSUME NEW w \in Worker, VisibilityTimeout(w)
       PROVE  DeliveryInv'
  <2>1. WorkerTypeOK' /\ queued' > 0
    BY <1>1, <1>11, WorkerAssumption DEF VisibilityTimeout, WorkerTypeOK
  <2> QED BY <1>11, <2>1 DEF VisibilityTimeout, DeliveryInv, GraphStartsOnce, Past
<1>12. ASSUME NEW w \in Worker, GraphStep(w), UNCHANGED workerVars
       PROVE  DeliveryInv'
  BY <1>1, <1>12 DEF workerVars, DeliveryInv, WorkerTypeOK, GraphStartsOnce, Past
<1> QED BY <1>2, <1>3, <1>4, <1>6, <1>7, <1>9, <1>10, <1>11, <1>12
        DEF WorkerNext, JobStepOf

-----------------------------------------------------------------------------
(* The API leaves the deliveries alone.                                    *)

\* What the two halves of the service share.
ServiceInv == ApiTypeOK /\ DeliveryInv /\ PublishInv

\* Before the run is submitted.
LEMMA ServiceInitInv ==
  ASSUME ServiceInit
  PROVE  ServiceInv
<1> USE DEF ServiceInit, WorkerInit
<1>1. PublishInv
  BY NoExecutionType, PublishInit
<1>2. ApiTypeOK
  BY <1>1 DEF ApiInit, ApiTypeOK, PublishInv
<1>3. WorkerTypeOK
  <2>1. ThreadTypeOK /\ job \in [Worker -> JobStep]
    BY <1>1 DEF PublishInv, JobStep
  <2>2. deaths \in 0..MaxDeaths /\ timeouts \in 0..MaxTimeouts
    BY WorkerAssumption
  <2> QED BY <2>1, <2>2 DEF WorkerTypeOK, Directory
<1>4. DeliveryInv
  BY <1>3 DEF DeliveryInv, GraphStartsOnce, Past
<1> QED BY <1>1, <1>2, <1>4 DEF ServiceInv

\* A step of the API.
LEMMA ApiStepDelivers ==
  ASSUME ServiceInv, ApiNext, UNCHANGED workerVars
  PROVE  ServiceInv'
<1>1. ApiTypeOK' /\ PublishInv'
  BY ApiStepTypes, ApiStepPublishes DEF ServiceInv
<1>2. DeliveryInv'
  BY <1>1 DEF ServiceInv, DeliveryInv, WorkerTypeOK, GraphStartsOnce, Past, workerVars,
              ApiTypeOK
<1> QED BY <1>1, <1>2 DEF ServiceInv

\* A step of a worker.
LEMMA WorkerStepService ==
  ASSUME ServiceInv, WorkerNext, UNCHANGED apiVars
  PROVE  ServiceInv'
<1>1. DeliveryInv'
  BY WorkerStepDelivers DEF ServiceInv
<1>2. ApiTypeOK'
  BY <1>1 DEF ServiceInv, DeliveryInv, WorkerTypeOK, ApiTypeOK, apiVars
<1>3. PublishInv'
  <2> USE WorkerAssumption DEF ServiceInv
  <2>1. CASE Prepares
    BY <2>1 DEF Prepares, threadVars, PublishInv, PublishedOnce, ThreadTypeOK, Pushing,
                Running
  <2>2. ASSUME NEW w \in Worker, GraphStep(w)
        PROVE  PublishInv'
    BY <2>2, GraphStepPublishes
  <2>3. ASSUME NEW w \in Worker, StartGraph(w)
        PROVE  PublishInv'
    BY <2>3, BegunPublishes DEF StartGraph
  <2>4. ASSUME NEW w \in Worker, Leaves(w)
        PROVE  PublishInv'
    BY <2>4, DroppedPublishes DEF Leaves
  <2>5. WorkerTypeOK
    BY DEF DeliveryInv
  <2> QED BY <2>1, <2>2, <2>3, <2>4, <2>5, WorkerStepKinds
<1> QED BY <1>1, <1>2, <1>3 DEF ServiceInv

\* A step of neither.
LEMMA ServiceStutters ==
  ASSUME ServiceInv, UNCHANGED serviceVars
  PROVE  ServiceInv'
  BY DEF serviceVars, threadVars, apiVars, workerVars, ServiceInv, ApiTypeOK,
         DeliveryInv, WorkerTypeOK, ThreadTypeOK, GraphStartsOnce, Past, PublishInv,
         PublishedOnce, Pushing, Running

\* The invariant of the service.
LEMMA ServiceAlways == ServiceSpec => []ServiceInv
<1>1. ServiceInit => ServiceInv
  BY ServiceInitInv
<1>2. ServiceInv /\ [ServiceNext]_serviceVars => ServiceInv'
  BY ServiceStutters, ApiStepDelivers, WorkerStepService DEF ServiceNext
<1> QED BY <1>1, <1>2, PTL DEF ServiceSpec

\* Type correctness of the service, for any numbers of workers, requests, API
\* processes and faults.
THEOREM ServiceTypeCorrect == ServiceSpec => []WorkerTypeOK
<1>1. ServiceInv => WorkerTypeOK
  BY DEF ServiceInv, DeliveryInv
<1> QED BY <1>1, ServiceAlways, PTL

\* However many workers there are, however often they die or the broker repeats
\* the message, the graph of a run is started once.
THEOREM StartsOnce == ServiceSpec => []GraphStartsOnce
<1>1. ServiceInv => GraphStartsOnce
  BY DEF ServiceInv, DeliveryInv
<1> QED BY <1>1, ServiceAlways, PTL

\* An accepted run is never forgotten: somebody works on it, it is queued, or its
\* job has returned or failed on record.
THEOREM NotLost == ServiceSpec => []JobIsNotLost
<1>1. ServiceInv => JobIsNotLost
  BY DEF ServiceInv, DeliveryInv, JobIsNotLost, Idle, WorkerTypeOK
<1> QED BY <1>1, ServiceAlways, PTL

\* Workers and API processes together open at most one pull request.
THEOREM ServicePublishesOnce == ServiceSpec => []PublishedOnce
<1>1. ServiceInv => PublishedOnce
  BY DEF ServiceInv, PublishInv
<1> QED BY <1>1, ServiceAlways, PTL

-----------------------------------------------------------------------------
(* A run that has got past its work stays past it.                         *)

Late == {"approval_gate", "pr_publish", "END"}

\* Requests execute the thread only once a checkpoint is late, and from then on
\* every execution is.  That the graph was started once is what keeps a second
\* delivery from saving an early state over a late one.
HandoverInv ==
  /\ ServiceInv
  /\ ReturnedRunStays
  /\ \A p \in Process :
       exec[p].on => p \in Request \cup Worker /\ exec[p].state.next \in Late \cup {"work"}
  /\ \A w \in Worker : exec[w].on <=> job[w] = "graph"
  /\ checkpoint.next \in Late
       => starts = 1 /\ \A p \in Process : exec[p].on => exec[p].state.next \in Late
  /\ \A p \in Process : exec[p].on /\ exec[p].saved /\ exec[p].state.next \in Late
                          => checkpoint.next \in Late
  /\ \A r \in Request : request[r].pc = "resuming" \/ exec[r].on
                          => checkpoint.next \in Late

\* The steps of the graph, of a worker or of a request.
LEMMA GraphStepHandsOver ==
  ASSUME HandoverInv, ServiceInv', NEW p \in Process, GraphStep(p),
         UNCHANGED <<job, starts, returned, request>>
  PROVE  HandoverInv'
<1>1. ThreadTypeOK
  BY DEF HandoverInv, ServiceInv, ApiTypeOK
<1>2. /\ exec[p].on /\ exec'[p].on
      /\ \A q \in Process : q # p => exec'[q] = exec[q]
      /\ Pushes(p) \/ Finishes(p) \/ Saves(p)
  BY <1>1, GraphStepOutcome
<1>3. \A q \in Process : exec'[q].on <=> exec[q].on
  BY <1>2
<1>4. CASE Pushes(p)
  <2>1. \A q \in Process : exec'[q].state = exec[q].state /\ exec'[q].saved = exec[q].saved
    BY <1>2, <1>4 DEF Pushes
  <2> QED BY <1>3, <1>4, <2>1, ApiAssumption, WorkerAssumption
          DEF Pushes, HandoverInv, ReturnedRunStays
<1>5. CASE Finishes(p)
  <2>1. exec'[p].state.next \in Late /\ ~ exec'[p].saved /\ checkpoint' = checkpoint
    BY <1>5 DEF Finishes, NodeOutcome, Late
  <2> QED BY <1>2, <1>3, <2>1, ApiAssumption, WorkerAssumption
          DEF HandoverInv, ReturnedRunStays
<1>6. CASE Saves(p)
  <2>1. \A q \in Process : exec'[q].state = exec[q].state
    BY <1>2, <1>6 DEF Saves
  <2>2. CASE exec[p].state.next \in Late
    <3>1. checkpoint'.next \in Late
      BY <1>6, <2>2 DEF Saves
    <3>2. starts = 1 /\ \A q \in Process : exec[q].on => exec[q].state.next \in Late
      <4>1. CASE checkpoint.next \in Late
        BY <4>1 DEF HandoverInv
      <4>2. CASE checkpoint.next \notin Late
        <5>1. p \in Worker /\ job[p] = "graph"
          BY <1>2, <4>2 DEF HandoverInv
        <5>2. starts = 1 /\ \A w \in Worker : job[w] = "graph" => w = p
          BY <5>1 DEF HandoverInv, ServiceInv, DeliveryInv, Past
        <5>3. \A q \in Process : exec[q].on => q = p
          BY <4>2, <5>2 DEF HandoverInv
        <5> QED BY <2>2, <5>2, <5>3
      <4> QED BY <4>1, <4>2
    <3> QED BY <1>3, <2>1, <3>1, <3>2, ApiAssumption, WorkerAssumption
            DEF HandoverInv, ReturnedRunStays, Late
  <2>3. CASE exec[p].state.next \notin Late
    <3>1. checkpoint.next \notin Late /\ checkpoint'.next \notin Late
      BY <1>2, <1>6, <2>3 DEF HandoverInv, Saves
    <3>2. \A q \in Process : exec'[q].on /\ exec'[q].saved => exec'[q].state.next \notin Late
      BY <1>2, <2>1, <2>3, <3>1 DEF HandoverInv
    <3> QED BY <1>3, <2>1, <3>1, <3>2, ApiAssumption, WorkerAssumption
            DEF HandoverInv, ReturnedRunStays, Late
  <2> QED BY <2>2, <2>3
<1> QED BY <1>2, <1>4, <1>5, <1>6

\* A step that leaves the checkpoint alone and at most drops executions.
LEMMA HandoverKept ==
  ASSUME HandoverInv, ServiceInv', checkpoint' = checkpoint, starts' = starts,
         \A p \in Process : exec'[p] = exec[p] \/ exec'[p] = NoExecution,
         \A w \in Worker : exec'[w].on <=> job'[w] = "graph",
         \A r \in Request : request'[r].pc = "resuming"
                              => request[r].pc = "resuming" \/ checkpoint.next \in Late,
         returned' => returned \/ checkpoint.next \in Late
  PROVE  HandoverInv'
<1>1. \A p \in Process : exec'[p].on => exec[p].on /\ exec'[p] = exec[p]
  BY NoExecutionType
<1> QED BY <1>1, ApiAssumption, WorkerAssumption DEF HandoverInv, ReturnedRunStays, Late

\* The steps of the workers.
LEMMA WorkerStepHandsOver ==
  ASSUME HandoverInv, WorkerNext, UNCHANGED apiVars
  PROVE  HandoverInv'
<1>1. ServiceInv' /\ WorkerTypeOK /\ ThreadTypeOK /\ UNCHANGED request
  BY WorkerStepService DEF HandoverInv, ServiceInv, DeliveryInv, WorkerTypeOK, apiVars
<1>2. CASE Prepares
  <2>1. exec' = exec /\ checkpoint' = checkpoint
    BY <1>2 DEF Prepares, threadVars
  <2> QED BY <1>1, <1>2, <2>1, HandoverKept DEF Prepares, HandoverInv
<1>3. ASSUME NEW w \in Worker, GraphStep(w), UNCHANGED workerVars
      PROVE  HandoverInv'
  BY <1>1, <1>3, GraphStepHandsOver, WorkerAssumption DEF workerVars
<1>4. ASSUME NEW w \in Worker, StartGraph(w)
      PROVE  HandoverInv'
  <2>1. /\ w \in Process /\ Past(w) /\ starts = 0 /\ starts' = 1 /\ returned' = returned
        /\ \A v \in Worker : Past(v) => v = w
    BY <1>4, WorkerAssumption DEF StartGraph, HandoverInv, ServiceInv, DeliveryInv, Past
  <2>2. /\ job'[w] = "graph"
        /\ \A v \in Worker : v # w => job'[v] = job[v]
    BY <1>1, <1>4, Moved DEF StartGraph, JobStep
  <2>3. /\ exec'[w].on /\ ~ exec'[w].saved /\ exec'[w].state.next = "work"
        /\ \A q \in Process : q # w => exec'[q] = exec[q]
        /\ checkpoint' = checkpoint
    BY <1>1, <1>4, <2>1, NoExecutionType
       DEF StartGraph, Start, ThreadTypeOK, Execution, Snapshot
  <2>4. checkpoint.next \notin Late
    BY <2>1 DEF HandoverInv
  <2>5. \A r \in Request : r # w
    BY ServiceAssumption
  <2> QED BY <1>1, <2>1, <2>2, <2>3, <2>4, <2>5, ApiAssumption, WorkerAssumption
          DEF HandoverInv, ReturnedRunStays, Late
<1>5. ASSUME NEW w \in Worker, Leaves(w)
      PROVE  HandoverInv'
  <2>1. \A p \in Process : exec'[p] = IF p = w THEN NoExecution ELSE exec[p]
    BY <1>1, <1>5, Dropped DEF Leaves
  <2>2. /\ job'[w] = "idle"
        /\ \A v \in Worker : v # w => job'[v] = job[v]
    BY <1>1, <1>5, Moved DEF Leaves, JobStep
  <2>3. \A v \in Worker : exec'[v].on <=> job'[v] = "graph"
    BY <2>1, <2>2, NoExecutionType, WorkerAssumption DEF HandoverInv
  <2>4. Returns(w) => checkpoint.next \in Late
    BY WorkerAssumption DEF Returns, HandoverInv, Late
  <2> QED BY <1>1, <1>5, <2>1, <2>3, <2>4, HandoverKept DEF Leaves
<1> QED BY <1>1, <1>2, <1>3, <1>4, <1>5, WorkerStepKinds

\* The steps of the API.
LEMMA ApiStepHandsOver ==
  ASSUME HandoverInv, ApiNext, UNCHANGED workerVars
  PROVE  HandoverInv'
<1>1. ServiceInv' /\ ApiTypeOK /\ ThreadTypeOK
  BY ApiStepDelivers DEF HandoverInv, ServiceInv, ApiTypeOK
<1>2. UNCHANGED <<job, starts, returned>>
  BY DEF workerVars
<1>3. \A r \in Request : request'[r].pc = "resuming"
                           => request[r].pc = "resuming" \/ checkpoint.next \in Late
  BY <1>1, NewlyResuming DEF Late
<1>4. CASE UNCHANGED threadVars
  BY <1>1, <1>2, <1>3, <1>4, HandoverKept DEF threadVars, HandoverInv
<1>5. CASE /\ \E ps \in SUBSET Request : Drop(ps)
           /\ UNCHANGED <<config, checkpoint, github>>
  <2>1. PICK ps \in SUBSET Request : Drop(ps)
    BY <1>5
  <2>2. \A p \in Process : exec'[p] = IF p \in ps THEN NoExecution ELSE exec[p]
    BY <1>1, <2>1, Dropped
  <2>3. \A w \in Worker : exec'[w] = exec[w]
    BY <2>2, WorkerAssumption, ServiceAssumption
  <2> QED BY <1>1, <1>2, <1>3, <1>5, <2>2, <2>3, HandoverKept DEF HandoverInv
<1>6. ASSUME NEW r \in Request, ResumeGraph(r)
      PROVE  HandoverInv'
  <2>1. /\ Resume(r, request[r].decision) /\ request[r].pc = "resuming"
        /\ r \in Process /\ r \notin Worker
    BY <1>6, ApiAssumption, ServiceAssumption DEF ResumeGraph
  <2>2. /\ exec'[r].state = checkpoint
        /\ \A q \in Process : q # r => exec'[q] = exec[q]
        /\ checkpoint' = checkpoint
    BY <1>1, <2>1, NoExecutionType DEF Resume, ThreadTypeOK, Execution
  <2>3. checkpoint.next \in Late
    BY <2>1 DEF HandoverInv
  <2> QED BY <1>1, <1>2, <1>3, <2>1, <2>2, <2>3, ApiAssumption, WorkerAssumption
          DEF HandoverInv, ReturnedRunStays, Late
<1>7. ASSUME NEW r \in Request, GraphStep(r), UNCHANGED apiVars
      PROVE  HandoverInv'
  BY <1>1, <1>2, <1>7, GraphStepHandsOver, ApiAssumption DEF apiVars
<1> QED BY <1>1, <1>4, <1>5, <1>6, <1>7, ApiStepKinds

\* The invariant of the handover.
LEMMA HandoverAlways == ServiceSpec => []HandoverInv
<1>1. ServiceInit => HandoverInv
  <2> SUFFICES ASSUME ServiceInit PROVE HandoverInv
    OBVIOUS
  <2>1. ServiceInv
    BY ServiceInitInv
  <2>2. \A p \in Process : ~ exec[p].on
    BY NoExecutionType DEF ServiceInit, ThreadInit
  <2>3. checkpoint.next = "none" /\ ~ returned /\ \A w \in Worker : job[w] = "idle"
    BY NoExecutionType DEF ServiceInit, WorkerInit
  <2>4. \A r \in Request : request[r].pc = "unsent"
    BY DEF ServiceInit, ApiInit
  <2> QED BY <2>1, <2>2, <2>3, <2>4, ApiAssumption, WorkerAssumption
          DEF HandoverInv, ReturnedRunStays, Late
<1>2. HandoverInv /\ [ServiceNext]_serviceVars => HandoverInv'
  <2> SUFFICES ASSUME HandoverInv, [ServiceNext]_serviceVars PROVE HandoverInv'
    OBVIOUS
  <2>1. CASE UNCHANGED serviceVars
    <3>1. /\ UNCHANGED <<exec, checkpoint, job, starts, returned, request>>
      BY <2>1 DEF serviceVars, threadVars, apiVars, workerVars
    <3>2. ServiceInv'
      BY <2>1, ServiceStutters DEF HandoverInv
    <3> QED BY <3>1, <3>2, HandoverKept DEF HandoverInv
  <2> QED BY <2>1, ApiStepHandsOver, WorkerStepHandsOver DEF ServiceNext
<1> QED BY <1>1, <1>2, PTL DEF ServiceSpec

\* For any numbers of workers, API processes and faults, a run whose graph has
\* returned to a worker is never again reported as unknown or under way.
THEOREM ReturnedStays == ServiceSpec => []ReturnedRunStays
<1>1. HandoverInv => ReturnedRunStays
  BY DEF HandoverInv
<1> QED BY <1>1, HandoverAlways, PTL

-----------------------------------------------------------------------------
(* One API process: the workers do not disturb a decision.                 *)

\* Nobody has decided, is about to, or could.
Undecided ==
  /\ checkpoint.approval_status = "none" /\ checkpoint.next # "approval_gate"
  /\ \A r \in Request : /\ request[r].pc \notin {"resuming", "running"}
                        /\ request[r].status # "200"

\* A worker's execution that has only to return.
AtItsGate(w) ==
  exec[w].state.next = "approval_gate" /\ exec[w].saved

\* A worker executes the thread before the gate is in the checkpoint; from then
\* on its execution is at the gate, and the requests have the thread.
QuietInv ==
  /\ HandoverInv /\ DecisionInv
  /\ \A p \in Process : ~ exec[p].on => exec[p] = NoExecution
  /\ \A w \in Worker : exec[w].on =>
       /\ exec[w].resume = "none" /\ exec[w].state.approval_status = "none"
       /\ \/ AtItsGate(w)
          \/ Undecided /\ (checkpoint.next = "END" => exec[w].state.next = "END")
       /\ exec[w].state.next = "approval_gate" => NeedsHumanApproval
       /\ exec[w].state.next = "pr_publish" => ~ NeedsHumanApproval
  /\ starts = 0 => Undecided /\ checkpoint.next = "none"
  /\ checkpoint.next = "approval_gate" => NeedsHumanApproval
  /\ \A r \in Request : request[r].pc \in {"resuming", "running"} => NeedsHumanApproval
  /\ NeedsHumanApproval /\ github.branch => decision = "approved"

\* Steps of the workers keep what the API knows, if they leave the checkpoint
\* alone or nobody has decided.
LEMMA DecisionKept ==
  ASSUME DecisionInv, ApiTypeOK', UNCHANGED apiVars,
         \A r \in Request : exec'[r] = exec[r],
         checkpoint' = checkpoint \/ (Undecided /\ checkpoint'.approval_status = "none")
  PROVE  DecisionInv'
<1>1. request' = request /\ lock' = lock
  BY DEF apiVars
<1>2. LockInv'
  BY <1>1 DEF DecisionInv, LockInv, Holding
<1>3. CASE checkpoint' = checkpoint
  BY <1>1, <1>2, <1>3 DEF DecisionInv, Progress, EndedAs, Accepted, DecidedOnce
<1>4. CASE Undecided /\ checkpoint'.approval_status = "none"
  BY <1>1, <1>2, <1>4 DEF DecisionInv, Undecided, Accepted, DecidedOnce
<1> QED BY <1>3, <1>4

\* As long as nobody has decided, no step of the API changes that by itself.
LEMMA UndecidedKept ==
  ASSUME DecisionInv, Undecided, ApiNext
  PROVE  Undecided' /\ UNCHANGED <<config, checkpoint, github>>
<1> USE DEF Undecided
<1>1. ApiTypeOK /\ ThreadTypeOK
  BY DEF DecisionInv, ApiTypeOK
<1>2. ASSUME NEW r \in Request, Ask(r) \/ Acquire(r) \/ Look(r) \/ ResumeRaises(r)
      PROVE  Undecided' /\ UNCHANGED <<config, checkpoint, github>>
  <2>1. UNCHANGED <<config, checkpoint, github>>
    BY <1>2 DEF Ask, Acquire, Look, ResumeRaises, threadVars
  <2>2. \A s \in Request : s # r => request'[s] = request[s]
    BY <1>1, <1>2 DEF Ask, Acquire, Look, ResumeRaises, Answer, ApiTypeOK
  <2>3. request'[r].pc \notin {"resuming", "running"} /\ request'[r].status # "200"
    <3> USE DEF ApiTypeOK, Handler
    <3>1. CASE Ask(r)
      BY <1>1, <3>1 DEF Ask
    <3>2. CASE Acquire(r)
      BY <1>1, <3>2 DEF Acquire
    <3>3. CASE Look(r)
      <4>1. PICK status \in {"404", "409"} : Answer(r, status, "NONE")
        BY <3>3 DEF Look, IsAwaitingApproval
      <4> QED BY <1>1, <4>1, Answered DEF Phase
    <3>4. CASE ResumeRaises(r)
      BY <1>1, <3>4, Answered DEF ResumeRaises, Phase
    <3> QED BY <1>2, <3>1, <3>2, <3>3, <3>4
  <2> QED BY <2>1, <2>2, <2>3
<1>3. ASSUME NEW b \in Replica, ApiCrash(b)
      PROVE  Undecided' /\ UNCHANGED <<config, checkpoint, github>>
  BY <1>1, <1>3, Crashed
<1>4. ASSUME NEW r \in Request
      PROVE  ~ ResumeGraph(r) /\ ~ Decided(r) /\ ~ GraphStep(r)
  <2>1. ~ exec[r].on /\ r \in Process
    BY ApiAssumption DEF DecisionInv, LockInv
  <2>2. ~ GraphStep(r)
    BY <1>1, <2>1, GraphStepOutcome
  <2> QED BY <2>2 DEF ResumeGraph, Decided
<1> QED BY <1>2, <1>3, <1>4 DEF ApiNext, Handle

-----------------------------------------------------------------------------
(* One API process that does not die: the service implements RunContract.  *)

\* A step an observer of the checkpoint and of GitHub does not see.
LEMMA Unseen ==
  ASSUME decision' = decision, config' = config, github'.branch = github.branch,
         checkpoint'.next = checkpoint.next
  PROVE  UNCHANGED Contract!vars
  BY DEF Contract!vars, stage, NeedsHumanApproval

\* The steps of the graph of a worker.
LEMMA WorkerGraphContract ==
  ASSUME QuietInv, NEW w \in Worker, GraphStep(w), UNCHANGED workerVars,
         UNCHANGED apiVars, HandoverInv'
  PROVE  QuietInv' /\ [Contract!Next]_Contract!vars
<1>1. ThreadTypeOK /\ ThreadTypeOK' /\ ApiTypeOK' /\ w \in Process /\ w \notin Request
  BY WorkerAssumption, ServiceAssumption
     DEF QuietInv, HandoverInv, ServiceInv, ApiTypeOK
<1>2. /\ exec[w].on /\ exec'[w].on
      /\ exec'[w].resume = exec[w].resume
      /\ \A q \in Process : q # w => exec'[q] = exec[q]
      /\ config' = config
      /\ Pushes(w) \/ Finishes(w) \/ Saves(w)
  BY <1>1, GraphStepOutcome
<1>3. /\ exec[w].resume = "none" /\ exec[w].state.approval_status = "none"
      /\ exec[w].state.next = "approval_gate" => NeedsHumanApproval
      /\ exec[w].state.next = "pr_publish" => ~ NeedsHumanApproval
  BY <1>2 DEF QuietInv
<1>4. Undecided /\ (checkpoint.next = "END" => exec[w].state.next = "END")
  <2>1. ~ AtItsGate(w)
    BY <1>2, <1>3 DEF AtItsGate, Pushes, Finishes, Saves, NodeOutcome, Running
  <2> QED BY <1>2, <2>1 DEF QuietInv
<1>5. /\ request' = request /\ starts' = starts /\ starts = 1
      /\ \A v \in Worker : v # w => ~ exec[v].on
  <2>1. job[w] = "graph"
    BY <1>2 DEF QuietInv, HandoverInv
  <2>2. starts = 1 /\ \A v \in Worker : job[v] = "graph" => v = w
    BY <2>1 DEF QuietInv, HandoverInv, ServiceInv, DeliveryInv, Past
  <2> QED BY <2>2 DEF QuietInv, HandoverInv, apiVars, workerVars
<1>6. NeedsHumanApproval' <=> NeedsHumanApproval
  BY <1>2 DEF NeedsHumanApproval
<1>7. exec'[w].state.approval_status = "none" /\ checkpoint'.approval_status = "none"
  BY <1>2, <1>3, <1>4 DEF Undecided, Pushes, Finishes, Saves, NodeOutcome
<1>8. DecisionInv'
  <2>1. \A r \in Request : exec'[r] = exec[r]
    BY <1>1, <1>2, ApiAssumption
  <2> QED BY <1>1, <1>4, <1>7, <2>1, DecisionKept DEF QuietInv
<1>9. decision = "none" /\ decision' = "none"
  <2>1. \A p \in Process : exec[p].state.approval_status = "none"
    BY <1>3, <1>4, <1>5, NoExecutionType
       DEF QuietInv, HandoverInv, DecisionInv, LockInv, Undecided
  <2>2. \A p \in Process : exec'[p].state.approval_status = "none"
    BY <1>2, <1>7, <2>1
  <2> QED BY <1>4, <1>7, <2>1, <2>2 DEF decision, Undecided
<1>10. /\ exec'[w].state.next = "approval_gate" => NeedsHumanApproval
       /\ exec'[w].state.next = "pr_publish" => ~ NeedsHumanApproval
  BY <1>2, <1>3 DEF Pushes, Finishes, Saves, NodeOutcome
<1>11. /\ AtItsGate(w)' \/ (Undecided' /\ (checkpoint'.next = "END"
                                             => exec'[w].state.next = "END"))
       /\ checkpoint'.next = "approval_gate" => NeedsHumanApproval
  <2>1. CASE Pushes(w)
    BY <1>3, <1>4, <1>5, <2>1 DEF Pushes, Undecided, Running
  <2>2. CASE Finishes(w)
    BY <1>3, <1>4, <1>5, <2>2 DEF Finishes, NodeOutcome, Undecided
  <2>3. CASE Saves(w)
    BY <1>3, <1>4, <1>5, <1>7, <2>3 DEF Saves, Undecided, AtItsGate
  <2> QED BY <1>2, <2>1, <2>2, <2>3
<1>12. NeedsHumanApproval => ~ github.branch /\ ~ github'.branch
  BY <1>2, <1>3, <1>9 DEF QuietInv, Pushes, Finishes, Saves, Running
<1>13. QuietInv'
  <2>1. \A p \in Process : ~ exec'[p].on => exec'[p] = NoExecution
    BY <1>2 DEF QuietInv
  <2>2. \A r \in Request : request[r].pc \notin {"resuming", "running"}
    BY <1>4 DEF Undecided
  <2>3. \A v \in Worker : exec'[v].on => v = w
    BY <1>2, <1>5, WorkerAssumption
  <2> QED BY <1>2, <1>3, <1>5, <1>6, <1>7, <1>8, <1>10, <1>11, <1>12, <2>1, <2>2, <2>3
          DEF QuietInv
<1>14. github.branch \in BOOLEAN /\ github'.branch \in BOOLEAN
  BY <1>1 DEF ThreadTypeOK
<1>15. CASE Pushes(w)
  <2>1. CASE github.branch
    BY <1>2, <1>9, <1>13, <1>14, <1>15, <2>1, Unseen DEF Pushes
  <2>2. CASE ~ github.branch
    <3>1. stage = "running" /\ stage' = "ended"
      BY <1>4, <1>9, <1>15, <2>2 DEF stage, Pushes, Running, Undecided
    <3>2. Contract!End(TRUE)
      BY <1>2, <1>3, <1>6, <1>9, <1>14, <1>15, <3>1 DEF Contract!End, Pushes, Running
    <3> QED BY <1>13, <3>2 DEF Contract!Next
  <2> QED BY <2>1, <2>2
<1>16. CASE Finishes(w)
  BY <1>2, <1>9, <1>13, <1>16, Unseen DEF Finishes
<1>17. CASE Saves(w)
  <2>1. checkpoint' = exec[w].state /\ github' = github
    BY <1>17 DEF Saves
  <2>2. CASE stage' = stage
    BY <1>2, <1>6, <1>9, <1>13, <2>1, <2>2 DEF Contract!vars, NeedsHumanApproval
  <2>3. CASE exec[w].state.next = "approval_gate"
    <3>1. ~ github.branch /\ NeedsHumanApproval
      BY <1>3, <1>12, <2>3
    <3>2. stage = "running" /\ stage' = "awaiting"
      BY <1>4, <1>9, <2>1, <2>3, <3>1 DEF stage, Undecided
    <3>3. Contract!Pause
      BY <1>6, <1>9, <2>1, <3>1, <3>2 DEF Contract!Pause
    <3> QED BY <1>13, <3>3 DEF Contract!Next
  <2>4. CASE exec[w].state.next # "approval_gate" /\ stage' # stage
    <3>1. stage = "running" /\ stage' = "ended" /\ ~ github.branch
      BY <1>4, <1>9, <2>1, <2>4 DEF stage, Undecided
    <3>2. Contract!End(FALSE)
      BY <1>6, <1>9, <1>14, <2>1, <3>1 DEF Contract!End
    <3> QED BY <1>13, <3>2 DEF Contract!Next
  <2> QED BY <2>2, <2>3, <2>4
<1> QED BY <1>2, <1>15, <1>16, <1>17

\* A step that changes neither checkpoint, GitHub nor the requests, and begins an
\* execution only before anyone has decided.
LEMMA QuietKept ==
  ASSUME QuietInv, HandoverInv', DecisionInv',
         UNCHANGED <<config, checkpoint, github>>, decision' = decision,
         \A r \in Request :
           /\ request'[r].pc \in {"resuming", "running"} => NeedsHumanApproval
           /\ Undecided => /\ request'[r].pc \notin {"resuming", "running"}
                           /\ request'[r].status # "200",
         \A p \in Process : ~ exec'[p].on => exec'[p] = NoExecution,
         \A w \in Worker : exec'[w].on =>
           \/ exec'[w] = exec[w]
           \/ /\ Undecided /\ checkpoint.next = "none"
              /\ exec'[w].resume = "none" /\ exec'[w].state.approval_status = "none"
              /\ exec'[w].state.next = "work",
         starts' = 0 => starts = 0
  PROVE  QuietInv' /\ [Contract!Next]_Contract!vars
<1>1. NeedsHumanApproval' <=> NeedsHumanApproval
  BY DEF NeedsHumanApproval
<1>2. Undecided => Undecided'
  BY DEF Undecided
<1>3. ASSUME NEW w \in Worker, exec'[w].on
      PROVE  /\ exec'[w].resume = "none" /\ exec'[w].state.approval_status = "none"
             /\ AtItsGate(w)' \/ (Undecided' /\ (checkpoint'.next = "END"
                                                   => exec'[w].state.next = "END"))
             /\ exec'[w].state.next = "approval_gate" => NeedsHumanApproval'
             /\ exec'[w].state.next = "pr_publish" => ~ NeedsHumanApproval'
  <2>1. CASE exec'[w] = exec[w]
    BY <1>1, <1>2, <1>3, <2>1 DEF QuietInv, AtItsGate
  <2>2. CASE exec'[w] # exec[w]
    BY <1>2, <1>3, <2>2
  <2> QED BY <2>1, <2>2
<1>4. QuietInv'
  BY <1>1, <1>2, <1>3 DEF QuietInv
<1>5. UNCHANGED Contract!vars
  BY Unseen
<1> QED BY <1>4, <1>5

\* The other steps of the workers.
LEMMA WorkerStepContract ==
  ASSUME QuietInv, WorkerNext, UNCHANGED apiVars
  PROVE  QuietInv' /\ [Contract!Next]_Contract!vars
<1>1. HandoverInv' /\ ThreadTypeOK /\ WorkerTypeOK /\ ApiTypeOK'
  BY WorkerStepHandsOver
     DEF QuietInv, HandoverInv, ServiceInv, DeliveryInv, WorkerTypeOK
<1>2. request' = request
  BY DEF apiVars
<1>3. \A r \in Request :
        /\ request'[r].pc \in {"resuming", "running"} => NeedsHumanApproval
        /\ Undecided => /\ request'[r].pc \notin {"resuming", "running"}
                        /\ request'[r].status # "200"
  BY <1>2 DEF QuietInv, Undecided
<1>4. CASE Prepares
  <2>1. UNCHANGED <<config, checkpoint, github>> /\ exec' = exec /\ starts' = starts
    BY <1>4 DEF Prepares, threadVars
  <2>2. decision' = decision
    BY <2>1 DEF decision
  <2>3. DecisionInv'
    BY <1>1, <2>1, DecisionKept DEF QuietInv
  <2>4. \A p \in Process : ~ exec'[p].on => exec'[p] = NoExecution
    BY <2>1 DEF QuietInv
  <2> QED BY <1>1, <1>3, <2>1, <2>2, <2>3, <2>4, QuietKept
<1>5. ASSUME NEW w \in Worker, StartGraph(w)
      PROVE  QuietInv' /\ [Contract!Next]_Contract!vars
  <2>1. /\ w \in Process /\ w \notin Request /\ ~ exec[w].on
        /\ starts = 0 /\ starts' = 1
    BY <1>5, WorkerAssumption, ServiceAssumption
       DEF StartGraph, Start, QuietInv, HandoverInv, ServiceInv, DeliveryInv, Past
  <2>2. Undecided /\ checkpoint.next = "none"
    BY <2>1 DEF QuietInv
  <2>3. /\ exec'[w].on /\ exec'[w].resume = "none" /\ exec'[w].state.next = "work"
        /\ exec'[w].state.approval_status = checkpoint.approval_status
        /\ \A q \in Process : q # w => exec'[q] = exec[q]
        /\ UNCHANGED <<config, checkpoint, github>>
    BY <1>1, <1>5, <2>1, NoExecutionType
       DEF StartGraph, Start, ThreadTypeOK, Execution, Snapshot
  <2>4. exec'[w].state.approval_status = "none" /\ exec[w].state.approval_status = "none"
    BY <2>1, <2>2, <2>3, NoExecutionType DEF Undecided, QuietInv
  <2>5. decision' = decision
    BY <2>1, <2>3, <2>4 DEF decision
  <2>6. DecisionInv'
    <3>1. \A r \in Request : exec'[r] = exec[r]
      BY <2>1, <2>3, ApiAssumption
    <3> QED BY <1>1, <2>3, <3>1, DecisionKept DEF QuietInv
  <2>7. \A p \in Process : ~ exec'[p].on => exec'[p] = NoExecution
    BY <2>3 DEF QuietInv
  <2>8. \A v \in Worker : v # w => exec'[v] = exec[v]
    BY <2>3, WorkerAssumption
  <2> QED BY <1>1, <1>3, <2>1, <2>2, <2>3, <2>4, <2>5, <2>6, <2>7, <2>8, QuietKept
<1>6. ASSUME NEW w \in Worker, Leaves(w)
      PROVE  QuietInv' /\ [Contract!Next]_Contract!vars
  <2>1. w \in Process /\ w \notin Request
    BY WorkerAssumption, ServiceAssumption
  <2>2. \A p \in Process : exec'[p] = IF p = w THEN NoExecution ELSE exec[p]
    BY <1>1, <1>6, Dropped DEF Leaves
  <2>3. exec[w].state.approval_status = "none"
    BY <2>1, NoExecutionType DEF QuietInv
  <2>4. decision' = decision
    BY <1>6, <2>1, <2>2, <2>3, NoExecutionType DEF decision, Leaves
  <2>5. DecisionInv'
    <3>1. \A r \in Request : exec'[r] = exec[r]
      BY <2>1, <2>2, ApiAssumption
    <3> QED BY <1>1, <1>6, <3>1, DecisionKept DEF QuietInv, Leaves
  <2>6. \A p \in Process : ~ exec'[p].on => exec'[p] = NoExecution
    BY <2>2 DEF QuietInv
  <2>7. \A v \in Worker : exec'[v].on => exec'[v] = exec[v]
    BY <2>2, NoExecutionType, WorkerAssumption
  <2> QED BY <1>1, <1>3, <1>6, <2>4, <2>5, <2>6, <2>7, QuietKept DEF Leaves
<1>7. ASSUME NEW w \in Worker, GraphStep(w), UNCHANGED workerVars
      PROVE  QuietInv' /\ [Contract!Next]_Contract!vars
  BY <1>1, <1>7, WorkerGraphContract
<1> QED BY <1>1, <1>4, <1>5, <1>6, <1>7, WorkerStepKinds

\* A request that is past its look at the checkpoint is alone with the thread:
\* every worker is at its gate, and the decision is the one it carries.
LEMMA AloneWithThread ==
  ASSUME QuietInv, NEW a, Replica = {a}, NEW r \in Request,
         request[r].pc \in {"resuming", "running"}
  PROVE  /\ r \in Process /\ r \notin Worker
         /\ \A s \in Request : s # r => request[s].pc \notin {"resuming", "running"}
         /\ \A p \in Process : p # r => exec[p].state.approval_status = "none"
         /\ \A w \in Worker : exec[w].on => AtItsGate(w)
         /\ starts = 1 /\ NeedsHumanApproval
<1>1. r \in Process /\ r \notin Worker
  BY ApiAssumption, ServiceAssumption
<1>2. \A s \in Request : s # r => request[s].pc \notin {"resuming", "running"}
  BY OneHolder DEF QuietInv, Holding
<1>3. \A p \in Process : p # r => exec[p].state.approval_status = "none"
  BY <1>2, NoExecutionType DEF QuietInv, HandoverInv, DecisionInv, LockInv
<1>4. ~ Undecided
  BY DEF Undecided
<1>5. starts = 1
  BY DEF QuietInv, HandoverInv, DecisionInv, LockInv
<1> QED BY <1>1, <1>2, <1>3, <1>4, <1>5 DEF QuietInv

\* The steps of the graph of a request.
LEMMA RequestGraphContract ==
  ASSUME QuietInv, NEW a, Replica = {a}, NEW r \in Request, GraphStep(r),
         UNCHANGED apiVars, UNCHANGED workerVars, HandoverInv', DecisionInv'
  PROVE  QuietInv' /\ [Contract!Next]_Contract!vars
<1>1. ThreadTypeOK /\ ThreadTypeOK' /\ r \in Process
  BY ApiAssumption DEF QuietInv, HandoverInv, ServiceInv, ApiTypeOK
<1>2. /\ exec[r].on /\ exec'[r].on
      /\ exec'[r].resume = exec[r].resume
      /\ \A q \in Process : q # r => exec'[q] = exec[q]
      /\ config' = config
      /\ Pushes(r) \/ Finishes(r) \/ Saves(r)
  BY <1>1, GraphStepOutcome
<1>3. /\ request[r].pc = "running" /\ Progress(r)
      /\ exec[r].resume \in {"approved", "rejected"}
  BY <1>2 DEF QuietInv, DecisionInv, LockInv, Progress
<1>4. /\ r \notin Worker
      /\ \A p \in Process : p # r => exec[p].state.approval_status = "none"
      /\ \A w \in Worker : exec[w].on => AtItsGate(w)
      /\ starts = 1 /\ NeedsHumanApproval
  BY <1>3, AloneWithThread
<1>5. request' = request /\ starts' = starts /\ NeedsHumanApproval'
  BY <1>2, <1>4 DEF apiVars, workerVars, NeedsHumanApproval
<1>6. Progress(r)'
  BY <1>3, <1>5 DEF DecisionInv
<1>7. /\ decision = exec[r].state.approval_status
      /\ decision' = exec'[r].state.approval_status
  <2>1. \A p \in Process : p # r => exec'[p].state.approval_status = "none"
    BY <1>2, <1>4
  <2> QED BY <1>1, <1>2, <1>3, <1>4, <1>6, <2>1 DEF decision, Progress
<1>8. github.branch \in BOOLEAN /\ github'.branch \in BOOLEAN
  BY <1>1 DEF ThreadTypeOK
<1>9. github'.branch => decision' = "approved"
  <2>1. CASE github.branch
    <3>1. exec[r].state.approval_status = "approved"
      BY <1>4, <1>7, <2>1 DEF QuietInv
    <3>2. exec'[r].state.approval_status = "approved"
      BY <1>2, <1>3, <3>1 DEF Progress, Pushes, Finishes, Saves, NodeOutcome
    <3> QED BY <1>7, <3>2
  <2>2. CASE ~ github.branch
    BY <1>2, <1>4, <1>7, <1>8, <2>2 DEF Pushes, Finishes, Saves, MayPublish
  <2> QED BY <2>1, <2>2
<1>10. QuietInv'
  <2>1. \A p \in Process : ~ exec'[p].on => exec'[p] = NoExecution
    BY <1>2 DEF QuietInv
  <2>2. \A w \in Worker : exec'[w] = exec[w]
    BY <1>2, <1>4, WorkerAssumption
  <2>3. \A w \in Worker : exec'[w].on => AtItsGate(w)'
    BY <1>4, <2>2 DEF AtItsGate
  <2>4. ASSUME NEW w \in Worker, exec'[w].on
        PROVE  /\ exec'[w].resume = "none" /\ exec'[w].state.approval_status = "none"
               /\ exec'[w].state.next = "approval_gate" => NeedsHumanApproval'
               /\ exec'[w].state.next = "pr_publish" => ~ NeedsHumanApproval'
    BY <1>4, <1>5, <2>2, <2>4 DEF QuietInv, AtItsGate
  <2> QED BY <1>4, <1>5, <1>9, <2>1, <2>3, <2>4 DEF QuietInv
<1>11. CASE Pushes(r)
  <2>1. decision' = decision /\ decision = "approved" /\ checkpoint' = checkpoint
    BY <1>4, <1>7, <1>11 DEF Pushes, MayPublish
  <2>2. CASE github.branch
    BY <1>2, <1>8, <1>10, <1>11, <2>1, <2>2, Unseen DEF Pushes
  <2>3. CASE ~ github.branch
    <3>1. checkpoint.next # "END"
      BY <1>3, <1>11 DEF Pushes, Running, Progress
    <3>2. stage = "running" /\ stage' = "ended"
      BY <1>11, <2>1, <2>3, <3>1 DEF stage, Pushes
    <3>3. Contract!End(TRUE)
      BY <1>4, <1>5, <1>8, <1>11, <2>1, <3>2 DEF Contract!End, Pushes
    <3> QED BY <1>10, <3>3 DEF Contract!Next
  <2> QED BY <2>2, <2>3
<1>12. CASE Finishes(r)
  <2>1. checkpoint' = checkpoint /\ github'.branch = github.branch
    BY <1>12 DEF Finishes
  <2>2. CASE exec[r].state.next = "pr_publish"
    BY <1>2, <1>7, <1>10, <1>12, <2>1, <2>2, Unseen DEF Finishes, NodeOutcome
  <2>3. CASE exec[r].state.next = "approval_gate"
    <3>1. checkpoint.next = "approval_gate" /\ decision = "none"
      BY <1>3, <1>7, <2>3 DEF Progress
    <3>2. ~ github.branch
      BY <1>4, <3>1 DEF QuietInv
    <3>3. stage = "awaiting"
      BY <3>1, <3>2 DEF stage
    <3>4. CASE exec[r].resume = "approved"
      <4>1. decision' = "approved"
        BY <1>7, <1>12, <2>3, <3>4 DEF Finishes, NodeOutcome
      <4>2. stage' = "running"
        BY <2>1, <3>1, <3>2, <4>1 DEF stage
      <4>3. Contract!Approve
        BY <1>4, <1>5, <2>1, <3>3, <4>1, <4>2 DEF Contract!Approve
      <4> QED BY <1>10, <4>3 DEF Contract!Next
    <3>5. CASE exec[r].resume = "rejected"
      <4>1. decision' = "rejected"
        BY <1>7, <1>12, <2>3, <3>5 DEF Finishes, NodeOutcome
      <4>2. stage' = "ended"
        BY <4>1 DEF stage
      <4>3. Contract!Reject
        BY <1>4, <1>5, <2>1, <3>3, <4>1, <4>2 DEF Contract!Reject
      <4> QED BY <1>10, <4>3 DEF Contract!Next
    <3> QED BY <1>3, <3>4, <3>5
  <2> QED BY <1>3, <1>12, <2>2, <2>3 DEF Finishes, NodeOutcome, Progress
<1>13. CASE Saves(r)
  <2>1. /\ checkpoint' = exec[r].state /\ github' = github /\ decision' = decision
        /\ ~ exec[r].saved
    BY <1>7, <1>13 DEF Saves
  <2>2. checkpoint.next # "END" /\ checkpoint'.next # "approval_gate"
    BY <1>3, <2>1 DEF Progress
  <2>3. CASE stage' = stage
    BY <1>4, <1>5, <1>10, <2>1, <2>3 DEF Contract!vars
  <2>4. CASE stage' # stage
    <3>1. decision \in {"approved", "rejected"}
      BY <1>3, <1>7, <2>1 DEF Progress
    <3>2. stage = "running" /\ stage' = "ended" /\ ~ github.branch
          /\ decision = "approved"
      BY <2>1, <2>2, <2>4, <3>1 DEF stage
    <3>3. Contract!End(FALSE)
      BY <1>4, <1>5, <1>8, <2>1, <3>2 DEF Contract!End
    <3> QED BY <1>10, <3>3 DEF Contract!Next
  <2> QED BY <2>3, <2>4
<1> QED BY <1>2, <1>11, <1>12, <1>13

\* The steps of the API.
LEMMA ApiStepContract ==
  ASSUME QuietInv, NEW a, Replica = {a}, MayFail = FALSE, ApiNext, UNCHANGED workerVars
  PROVE  QuietInv' /\ [Contract!Next]_Contract!vars
<1>1. HandoverInv' /\ DecisionInv' /\ ThreadTypeOK /\ ApiTypeOK /\ starts' = starts
  BY ApiStepHandsOver, ApiStepDecides
     DEF QuietInv, HandoverInv, ServiceInv, ApiTypeOK, workerVars
<1>2. \A s \in Request : Undecided => /\ request'[s].pc \notin {"resuming", "running"}
                                      /\ request'[s].status # "200"
  BY UndecidedKept DEF QuietInv, Undecided
<1>3. \A s \in Request : request'[s].pc = "resuming" => NeedsHumanApproval
  BY <1>1, NewlyResuming DEF QuietInv
<1>4. ASSUME NEW r \in Request, Ask(r) \/ Acquire(r) \/ Look(r)
      PROVE  QuietInv' /\ [Contract!Next]_Contract!vars
  <2>1. UNCHANGED <<config, checkpoint, github>> /\ exec' = exec
    BY <1>4 DEF Ask, Acquire, Look, threadVars
  <2>2. decision' = decision
    BY <2>1 DEF decision
  <2>3. \A s \in Request : request'[s].pc = "running" => NeedsHumanApproval
    <3>1. \A s \in Request : request'[s].pc = "running" => request[s].pc = "running"
      BY <1>1, <2>1 DEF DecisionInv, LockInv, QuietInv
    <3> QED BY <3>1 DEF QuietInv
  <2>4. \A p \in Process : ~ exec'[p].on => exec'[p] = NoExecution
    BY <2>1 DEF QuietInv
  <2> QED BY <1>1, <1>2, <1>3, <2>1, <2>2, <2>3, <2>4, QuietKept
<1>5. ASSUME NEW r \in Request, ResumeGraph(r)
      PROVE  QuietInv' /\ [Contract!Next]_Contract!vars
  <2>1. /\ Resume(r, request[r].decision) /\ request[r].pc = "resuming"
        /\ checkpoint.approval_status = "none"
    BY <1>5 DEF ResumeGraph, QuietInv, DecisionInv
  <2>2. /\ r \in Process /\ r \notin Worker /\ NeedsHumanApproval
        /\ \A s \in Request : s # r => request[s].pc \notin {"resuming", "running"}
        /\ \A p \in Process : p # r => exec[p].state.approval_status = "none"
    BY <2>1, AloneWithThread
  <2>3. /\ exec'[r].state = checkpoint /\ exec'[r].on
        /\ \A q \in Process : q # r => exec'[q] = exec[q]
        /\ UNCHANGED <<config, checkpoint, github>> /\ ~ exec[r].on
    BY <1>1, <2>1, <2>2, NoExecutionType DEF Resume, ThreadTypeOK, Execution
  <2>4. exec[r].state.approval_status = "none"
    BY <2>2, <2>3, NoExecutionType DEF QuietInv
  <2>5. decision' = decision
    BY <2>1, <2>2, <2>3, <2>4 DEF decision
  <2>6. \A p \in Process : ~ exec'[p].on => exec'[p] = NoExecution
    BY <2>3 DEF QuietInv
  <2>7. \A w \in Worker : exec'[w] = exec[w]
    BY <2>2, <2>3, WorkerAssumption
  <2> QED BY <1>1, <1>2, <2>2, <2>3, <2>5, <2>6, <2>7, QuietKept
<1>6. ASSUME NEW r \in Request, Decided(r)
      PROVE  QuietInv' /\ [Contract!Next]_Contract!vars
  <2>1. /\ request[r].pc = "running" /\ Progress(r) /\ exec[r].saved
        /\ Drop({r}) /\ UNCHANGED <<config, checkpoint, github>>
    BY <1>6 DEF Decided, Returns, QuietInv, DecisionInv
  <2>2. /\ r \in Process /\ r \notin Worker /\ NeedsHumanApproval
        /\ \A p \in Process : p # r => exec[p].state.approval_status = "none"
    BY <2>1, AloneWithThread
  <2>3. \A p \in Process : exec'[p] = IF p = r THEN NoExecution ELSE exec[p]
    BY <1>1, <2>1, Dropped
  <2>4. checkpoint.approval_status = exec[r].state.approval_status
    BY <2>1 DEF Progress
  <2>5. exec[r].state.approval_status \in {"none", "approved", "rejected"}
    BY <1>1, <2>2 DEF ThreadTypeOK, Execution, Snapshot, Decision
  <2>6. \A p \in Process : exec'[p].state.approval_status = "none"
    BY <2>2, <2>3, NoExecutionType
  <2>7. decision' = checkpoint.approval_status
    BY <2>1, <2>6 DEF decision
  <2>8. decision = checkpoint.approval_status
    BY <2>2, <2>4, <2>5 DEF decision
  <2>9. \A p \in Process : ~ exec'[p].on => exec'[p] = NoExecution
    BY <2>3 DEF QuietInv
  <2>10. \A w \in Worker : exec'[w] = exec[w]
    BY <2>2, <2>3, WorkerAssumption
  <2> QED BY <1>1, <1>2, <2>1, <2>2, <2>7, <2>8, <2>9, <2>10, QuietKept
<1>7. ASSUME NEW r \in Request, GraphStep(r), UNCHANGED apiVars
      PROVE  QuietInv' /\ [Contract!Next]_Contract!vars
  BY <1>1, <1>7, RequestGraphContract
<1> QED BY <1>4, <1>5, <1>6, <1>7 DEF ApiNext, Handle, ResumeRaises, ApiCrash

\* The service starts as the contract says.
LEMMA ServiceInitContract ==
  ASSUME ServiceInit
  PROVE  QuietInv /\ Contract!Init
<1>1. \A p \in Process : exec[p] = NoExecution
  BY DEF ServiceInit, ThreadInit
<1>2. checkpoint = NoCheckpoint /\ ~ github.branch /\ github.branch \in BOOLEAN
  BY DEF ServiceInit, ThreadInit, WorkerInit
<1>3. \A r \in Request : request[r].pc = "unsent" /\ request[r].status = "none"
  BY DEF ServiceInit, ApiInit
<1>4. ServiceInv
  BY ServiceInitInv
<1>5. DecisionInv
  BY <1>2, <1>4, NoExecutionType, DecisionInit DEF ServiceInit, ServiceInv
<1>6. HandoverInv
  <2>1. ~ returned /\ \A w \in Worker : job[w] = "idle"
    BY DEF ServiceInit, WorkerInit
  <2> QED BY <1>1, <1>2, <1>3, <1>4, <2>1, NoExecutionType, ApiAssumption,
             WorkerAssumption DEF HandoverInv, ReturnedRunStays, Late
<1>7. decision = "none"
  BY <1>1, <1>2, NoExecutionType DEF decision
<1>8. QuietInv
  BY <1>1, <1>2, <1>3, <1>5, <1>6, NoExecutionType, WorkerAssumption
     DEF QuietInv, Undecided
<1>9. stage = "running"
  BY <1>2, <1>7, NoExecutionType DEF stage
<1>10. NeedsHumanApproval \in BOOLEAN
  BY DEF NeedsHumanApproval
<1> QED BY <1>2, <1>7, <1>8, <1>9, <1>10 DEF Contract!Init

\* One API process that stays up, any number of workers that may die, any number
\* of deliveries, jobs that raise at any point: pause, decision and publication
\* of a run happen in the order of RunContract, each at most once.
THEOREM ServiceContract ==
  ASSUME NEW a, Replica = {a}, MayFail = FALSE
  PROVE  ServiceSpec => ServiceKeepsContract
<1>1. ServiceInit => QuietInv /\ Contract!Init
  BY ServiceInitContract
<1>2. QuietInv /\ [ServiceNext]_serviceVars
        => QuietInv' /\ [Contract!Next]_Contract!vars
  <2>1. ASSUME QuietInv, UNCHANGED serviceVars
        PROVE  QuietInv' /\ [Contract!Next]_Contract!vars
    <3>1. UNCHANGED threadVars /\ UNCHANGED apiVars /\ UNCHANGED workerVars
      BY <2>1 DEF serviceVars
    <3>2. UNCHANGED <<config, checkpoint, exec, github, request, lock, job, starts,
                      returned>>
      BY <3>1 DEF threadVars, apiVars, workerVars
    <3>3. ServiceInv'
      BY <2>1, ServiceStutters DEF QuietInv, HandoverInv
    <3>4. HandoverInv'
      BY <2>1, <3>2, <3>3, HandoverKept DEF QuietInv, HandoverInv
    <3>5. DecisionInv'
      BY <2>1, <3>1, <3>2, <3>3, DecisionKept DEF QuietInv, ServiceInv
    <3>6. decision' = decision
      BY <3>2 DEF decision
    <3> QED BY <2>1, <3>2, <3>4, <3>5, <3>6, QuietKept DEF QuietInv, Undecided
  <2> QED BY <2>1, ApiStepContract, WorkerStepContract DEF ServiceNext
<1> QED BY <1>1, <1>2, PTL DEF ServiceSpec, ServiceKeepsContract, Contract!Safety
=============================================================================
