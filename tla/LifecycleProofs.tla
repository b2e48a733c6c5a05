--------------------------- MODULE LifecycleProofs ---------------------------
(***************************************************************************)
(* Proofs about module Lifecycle, for any list of pipelines.               *)
(***************************************************************************)
EXTENDS Lifecycle, TLAPS

(* The invariants the proofs rest on: why the properties hold.             *)

(* The forwarders follow the lifespan along Order, up and down.            *)
ForwarderFollows(n) ==
  LET p == Order[n]
  IN  /\ proc = "down" => forwarder[p] = "new" /\ task[p] = "none"
      /\ proc = "starting" =>
           IF n < at THEN forwarder[p] = "open" ELSE forwarder[p] = "new" /\ task[p] = "none"
      /\ proc \in {"serving", "draining"} => forwarder[p] = "open"
      /\ proc = "closing" =>
           /\ n < at => forwarder[p] = "closed" /\ task[p] \in Over
           /\ n = at => forwarder[p] = "open" \/ (forwarder[p] = "closing" /\ task[p] \in Over /\ ~waiting)
           /\ n > at => forwarder[p] = "open"
      /\ proc = "exiting" => task[p] \in Over \cup {"stopping"}

LifespanInv ==
  /\ proc \notin {"starting", "closing"} => at = 1
  /\ waiting => /\ proc = "closing" /\ at <= Len(Order)
                /\ task[Current] \in {"stopping", "ended"}
  /\ proc \notin {"serving", "draining"} => ingesting = {}
  /\ proc \in {"down", "starting"} => ~admitted

FlagsFollow ==
  \A p \in Kafka :
    (p \in running <=> task[p] \in InLoop) /\ (p \in connected <=> task[p] \in InLoop)

IInv ==
  /\ TypeOK /\ LifespanInv /\ FlagsFollow /\ AdmittedOnceAllConnected
  /\ \A n \in DOMAIN Order : ForwarderFollows(n)
-----------------------------------------------------------------------------
LEMMA OrderFacts ==
  /\ Len(Order) \in Nat /\ DOMAIN Order = 1 .. Len(Order)
  /\ \A n \in DOMAIN Order : Order[n] \in Pipelines
  /\ \A m, n \in DOMAIN Order : Order[m] = Order[n] => m = n
  /\ Kafka \subseteq Pipelines
BY LifecycleAssumption

(* A process that is not there has the invariant, whatever was before it.  *)
LEMMA DownIInv ==
  ASSUME proc = "down", at = 1, waiting = FALSE, task = [p \in Pipelines |-> "none"],
         failed = {}, running = {}, connected = {}, forwarder = [p \in Pipelines |-> "new"],
         ingesting = {}, admitted = FALSE, disruptions \in 0 .. MaxDisruptions
  PROVE  IInv
<1>1. TypeOK
  <2>1. at \in 1 .. Len(Order) + 1
    BY OrderFacts
  <2>2. task \in [Pipelines -> InLoop \cup Over \cup {"connecting", "stopping"}]
    BY DEF InLoop, Over
  <2>3. forwarder \in [Pipelines -> {"new", "open", "closing", "closed"}]
    OBVIOUS
  <2>4. \A p \in Pipelines : task[p] = "none"
    OBVIOUS
  <2> QED  BY <2>1, <2>2, <2>3, <2>4 DEF TypeOK
<1>2. LifespanInv /\ FlagsFollow /\ AdmittedOnceAllConnected
  BY OrderFacts DEF LifespanInv, FlagsFollow, AdmittedOnceAllConnected, InLoop
<1>3. ASSUME NEW n \in DOMAIN Order
      PROVE  ForwarderFollows(n)
  <2>1. forwarder[Order[n]] = "new" /\ task[Order[n]] = "none"
    BY OrderFacts
  <2> QED  BY <2>1 DEF ForwarderFollows
<1> QED  BY <1>1, <1>2, <1>3 DEF IInv

LEMMA InitIInv == Init => IInv
<1> SUFFICES ASSUME Init PROVE IInv
  OBVIOUS
<1>1. disruptions \in 0 .. MaxDisruptions
  BY LifecycleAssumption DEF Init
<1> QED  BY <1>1, DownIInv DEF Init

LEMMA EndsIInv ==
  ASSUME Ends, disruptions' \in 0 .. MaxDisruptions
  PROVE  IInv'
<1> USE DEF Ends
<1>1. TypeOK'
  <2>1. at' \in 1 .. Len(Order) + 1
    BY OrderFacts
  <2>2. task' \in [Pipelines -> InLoop \cup Over \cup {"connecting", "stopping"}]
    BY DEF InLoop, Over
  <2>3. forwarder' \in [Pipelines -> {"new", "open", "closing", "closed"}]
    OBVIOUS
  <2>4. \A p \in Pipelines : task'[p] = "none"
    OBVIOUS
  <2> QED  BY <2>1, <2>2, <2>3, <2>4 DEF TypeOK
<1>2. LifespanInv' /\ FlagsFollow' /\ AdmittedOnceAllConnected'
  BY OrderFacts DEF LifespanInv, FlagsFollow, AdmittedOnceAllConnected, InLoop
<1>3. ASSUME NEW n \in DOMAIN Order
      PROVE  ForwarderFollows(n)'
  <2>1. forwarder'[Order[n]] = "new" /\ task'[Order[n]] = "none"
    BY OrderFacts
  <2> QED  BY <2>1 DEF ForwarderFollows
<1> QED  BY <1>1, <1>2, <1>3 DEF IInv

(* What the tasks are when asyncio.run() has cancelled all of them. *)
LEMMA CancelledTasks ==
  ASSUME TypeOK, CancelsAll
  PROVE  /\ task' \in [Pipelines -> Over \cup {"stopping"}]
         /\ \A p \in Pipelines : task[p] = "none" <=> task'[p] = "none"
         /\ \A p \in Pipelines :
              \/ task'[p] = task[p]
              \/ task[p] \in InLoop \cup {"connecting"} /\ task'[p] = "stopping"
              \/ task[p] = "stopping" /\ task'[p] = "ended"
<1>1. ASSUME NEW p \in Pipelines
      PROVE  /\ task[p] \in InLoop \cup Over \cup {"connecting", "stopping"}
             /\ task'[p] = CASE task[p] \in Over -> task[p]
                              [] task[p] = "stopping" -> "ended"
                              [] OTHER -> "stopping"
  BY DEF TypeOK, CancelsAll
<1>2. ASSUME NEW p \in Pipelines
      PROVE  /\ task'[p] \in Over \cup {"stopping"}
             /\ task[p] = "none" <=> task'[p] = "none"
             /\ \/ task'[p] = task[p]
                \/ task[p] \in InLoop \cup {"connecting"} /\ task'[p] = "stopping"
                \/ task[p] = "stopping" /\ task'[p] = "ended"
  BY <1>1 DEF Over, InLoop
<1>3. task' = [p \in Pipelines |-> task'[p]]
  BY DEF CancelsAll
<1> QED  BY <1>2, <1>3

LEMMA CancelsAllIInv ==
  ASSUME IInv, CancelsAll, proc \in {"starting", "closing"}, disruptions' \in 0 .. MaxDisruptions
  PROVE  IInv'
<1>0. TypeOK /\ LifespanInv /\ FlagsFollow /\ AdmittedOnceAllConnected
  BY DEF IInv
<1>1. /\ task' \in [Pipelines -> Over \cup {"stopping"}]
      /\ \A p \in Pipelines : task[p] = "none" <=> task'[p] = "none"
  BY <1>0, CancelledTasks
<1>2. /\ proc' = "exiting" /\ at' = 1 /\ waiting' = FALSE
      /\ running' = {} /\ connected' = {} /\ failed' \subseteq failed
      /\ UNCHANGED <<forwarder, ingesting, admitted>>
  BY DEF CancelsAll
<1>3. TypeOK'
  <2>1. at' \in 1 .. Len(Order) + 1
    BY <1>2, OrderFacts
  <2>2. task' \in [Pipelines -> InLoop \cup Over \cup {"connecting", "stopping"}]
    BY <1>1
  <2>3. \A p \in Pipelines \ Kafka : task'[p] = "none"
    BY <1>0, <1>1 DEF TypeOK
  <2> QED  BY <1>0, <1>2, <2>1, <2>2, <2>3 DEF TypeOK
<1>4. LifespanInv'
  BY <1>0, <1>2 DEF LifespanInv
<1>5. FlagsFollow'
  <2>1. \A p \in Kafka : task'[p] \notin InLoop
    BY <1>1, OrderFacts DEF InLoop, Over
  <2> QED  BY <1>2, <2>1 DEF FlagsFollow
<1>6. AdmittedOnceAllConnected'
  <2> SUFFICES ASSUME admitted, NEW p \in Kafka
               PROVE  task'[p] \in InLoop \cup {"stopping", "ended"}
    BY <1>2 DEF AdmittedOnceAllConnected
  <2>1. task[p] # "none"
    BY <1>0 DEF AdmittedOnceAllConnected, InLoop
  <2> QED  BY <1>1, <2>1, OrderFacts DEF Over
<1>7. ASSUME NEW n \in DOMAIN Order
      PROVE  ForwarderFollows(n)'
  <2>1. task'[Order[n]] \in Over \cup {"stopping"}
    BY <1>1, OrderFacts
  <2> QED  BY <1>2, <2>1 DEF ForwarderFollows
<1> QED  BY <1>3, <1>4, <1>5, <1>6, <1>7 DEF IInv

LEMMA DisruptType ==
  ASSUME TypeOK, Disrupt
  PROVE  disruptions' \in 0 .. MaxDisruptions
BY LifecycleAssumption DEF TypeOK, Disrupt

(* The steps of the start. *)
LEMMA StartStep ==
  ASSUME IInv, Boot \/ StartPipeline \/ Serve
  PROVE  IInv'
<1> USE OrderFacts
    DEF IInv, TypeOK, LifespanInv, FlagsFollow, AdmittedOnceAllConnected, ForwarderFollows,
        InLoop, Over, tasks, lifespan
<1>1. CASE Boot
  BY <1>1 DEF Boot
<1>2. CASE StartPipeline
  <2>1. TypeOK'
    BY <1>2 DEF StartPipeline, Current
  <2>2. LifespanInv' /\ AdmittedOnceAllConnected'
    BY <1>2 DEF StartPipeline, Current
  <2>3. FlagsFollow'
    BY <1>2 DEF StartPipeline, Current
  <2>4. \A n \in DOMAIN Order : ForwarderFollows(n)'
    BY <1>2 DEF StartPipeline, Current
  <2> QED  BY <2>1, <2>2, <2>3, <2>4
<1>3. CASE Serve
  BY <1>3 DEF Serve
<1> QED  BY <1>1, <1>2, <1>3

(* The steps of a consumer's task, which move neither the lifespan nor the *)
(* forwarders.                                                             *)
LEMMA TaskStep ==
  ASSUME IInv, NEW p \in Kafka,
         \/ Connected(p) \/ TakeRecord(p) \/ RecordDone(p)
         \/ Fails(p) \/ Stopped(p) \/ StopRaises(p)
  PROVE  IInv'
<1> USE OrderFacts
    DEF IInv, TypeOK, LifespanInv, FlagsFollow, AdmittedOnceAllConnected, ForwarderFollows,
        InLoop, Over, tasks, lifespan
<1>1. CASE Connected(p)
  BY <1>1 DEF Connected, Current
<1>2. CASE TakeRecord(p)
  BY <1>2 DEF TakeRecord, Current
<1>3. CASE RecordDone(p)
  BY <1>3 DEF RecordDone, Current
<1>4. CASE Fails(p)
  BY <1>4, DisruptType DEF Fails, Unwinds, Current
<1>5. CASE Stopped(p)
  BY <1>5 DEF Stopped, Current
<1>6. CASE StopRaises(p)
  BY <1>6, DisruptType DEF StopRaises, Current
<1> QED  BY <1>1, <1>2, <1>3, <1>4, <1>5, <1>6

(* Probes, requests and signals. *)
LEMMA ServeStep ==
  ASSUME IInv,
         \/ Admit \/ \E p \in Pipelines : Arrive(p) \/ Answer(p)
         \/ Retire \/ StartupProbeFails \/ LivenessProbeFails
  PROVE  IInv'
<1> USE OrderFacts
    DEF IInv, TypeOK, LifespanInv, FlagsFollow, AdmittedOnceAllConnected, ForwarderFollows,
        InLoop, Over, tasks, lifespan
<1>1. CASE Admit
  BY <1>1 DEF Admit, Ready, Current
<1>2. ASSUME NEW p \in Pipelines, Arrive(p) \/ Answer(p)
      PROVE  IInv'
  BY <1>2 DEF Arrive, Answer, Current
<1>3. CASE Retire \/ StartupProbeFails \/ LivenessProbeFails
  <2>1. Drain /\ disruptions' \in 0 .. MaxDisruptions
    BY <1>3, DisruptType DEF Retire, StartupProbeFails, LivenessProbeFails
  <2> QED  BY <2>1 DEF Drain, Current
<1> QED  BY <1>1, <1>2, <1>3

(* The steps of the shutdown that are not its end. *)
LEMMA ShutdownStep ==
  ASSUME IInv, Close \/ CancelTask \/ WaitTimesOut \/ CloseForwarder \/ Closed
  PROVE  IInv'
<1> USE OrderFacts
    DEF IInv, TypeOK, LifespanInv, FlagsFollow, AdmittedOnceAllConnected, ForwarderFollows,
        InLoop, Over, tasks, lifespan
<1>1. CASE Close
  BY <1>1 DEF Close, Current
<1>2. CASE CancelTask
  <2>1. Current \in Kafka /\ at \in DOMAIN Order
    BY <1>2 DEF CancelTask, ClosingCurrent, Current
  <2>2. /\ task[Current] \notin Over /\ proc = "closing" /\ waiting'
        /\ task' \in {[task EXCEPT ![Current] = "stopping"], [task EXCEPT ![Current] = "ended"]}
        /\ UNCHANGED <<proc, at, forwarder, ingesting, admitted, disruptions>>
    BY <1>2 DEF CancelTask, ClosingCurrent, Unwinds
  <2>3. TypeOK' /\ FlagsFollow'
    BY <1>2, <2>1 DEF CancelTask, ClosingCurrent, Unwinds, Current
  <2>4. LifespanInv' /\ AdmittedOnceAllConnected'
    BY <1>2, <2>1, <2>2 DEF CancelTask, ClosingCurrent, Current
  <2>5. \A n \in DOMAIN Order : ForwarderFollows(n)'
    BY <2>1, <2>2 DEF Current
  <2> QED  BY <2>3, <2>4, <2>5
<1>3. CASE WaitTimesOut
  BY <1>3 DEF WaitTimesOut, ClosingCurrent, Current
<1>4. CASE CloseForwarder
  <2>1. TypeOK' /\ FlagsFollow' /\ LifespanInv' /\ AdmittedOnceAllConnected'
    BY <1>4 DEF CloseForwarder, ClosingCurrent, Current
  <2>2. \A n \in DOMAIN Order : ForwarderFollows(n)'
    BY <1>4 DEF CloseForwarder, ClosingCurrent, Current
  <2> QED  BY <2>1, <2>2
<1>5. CASE Closed
  BY <1>5 DEF Closed, ClosingCurrent, Current
<1> QED  BY <1>1, <1>2, <1>3, <1>4, <1>5

LEMMA IInvStep ==
  ASSUME IInv, [Next]_vars
  PROVE  IInv'
<1>1. CASE Kill \/ Finish \/ Exit \/ KillHanging
  <2>1. Ends /\ disruptions' \in 0 .. MaxDisruptions
    BY <1>1, DisruptType DEF Kill, Finish, Exit, KillHanging, IInv, TypeOK
  <2> QED  BY <2>1, EndsIInv
<1>3. CASE StartupFails \/ Abort
  <2>1. CancelsAll /\ proc \in {"starting", "closing"} /\ disruptions' \in 0 .. MaxDisruptions
    BY <1>3, DisruptType DEF StartupFails, Abort, ClosingCurrent, IInv, TypeOK
  <2> QED  BY <2>1, CancelsAllIInv
<1>2. CASE UNCHANGED vars
  BY <1>2
  DEF vars, tasks, lifespan, IInv, TypeOK, LifespanInv, FlagsFollow, AdmittedOnceAllConnected,
      ForwarderFollows, Current
<1> QED
  BY <1>1, <1>2, <1>3, StartStep, TaskStep, ServeStep, ShutdownStep DEF Next, Shutdown

LEMMA IInvHolds == Spec => []IInv
<1> QED  BY InitIInv, IInvStep, PTL DEF Spec
-----------------------------------------------------------------------------
(* The variables of the container have their types in any list of          *)
(* pipelines.                                                              *)
THEOREM LifecycleTypeCorrect == Spec => []TypeOK
<1>1. IInv => TypeOK
  BY DEF IInv
<1> QED  BY <1>1, IInvHolds, PTL

(* However tasks, requests and the shutdown interleave, nobody calls       *)
(* forward() on a forwarder that close() has begun to close or start() has *)
(* not opened.                                                             *)
THEOREM LifecycleNoUseAfterClose == Spec => []NoUseAfterClose
<1>1. IInv => NoUseAfterClose
  <2> SUFFICES ASSUME IInv, NEW p \in Pipelines,
                      task[p] \in InLoop \cup {"connecting"} \/ p \in ingesting
               PROVE  forwarder[p] = "open"
    BY DEF NoUseAfterClose
  <2>1. PICK n \in DOMAIN Order : Order[n] = p
    BY LifecycleAssumption
  <2>2. ForwarderFollows(n) /\ LifespanInv /\ TypeOK /\ n \in 1 .. Len(Order)
    BY OrderFacts DEF IInv
  <2> QED
    BY <2>1, <2>2 DEF ForwarderFollows, LifespanInv, TypeOK, InLoop, Over
<1> QED  BY <1>1, IInvHolds, PTL

(* /health and /ready answer 200 exactly when each consumer is in its      *)
(* loop: no state of a task deceives the probes.                           *)
THEOREM LifecycleProbesTellTheTruth == Spec => []ProbesTellTheTruth
<1>1. IInv => ProbesTellTheTruth
  BY DEF IInv, FlagsFollow, ProbesTellTheTruth, Healthy, Ready, Crashed, InLoop
<1> QED  BY <1>1, IInvHolds, PTL

(* No event reaches a container before all its consumers have connected.   *)
THEOREM LifecycleAdmittedOnceAllConnected == Spec => []AdmittedOnceAllConnected
<1>1. IInv => AdmittedOnceAllConnected
  BY DEF IInv
<1> QED  BY <1>1, IInvHolds, PTL

(* A shutdown leaves a forwarder open only behind an exception that aborts *)
(* it, whatever had become of the tasks before their turn.                 *)
THEOREM LifecycleShutdownClosesAll == Spec => ShutdownClosesAll
<1> DEFINE Closes == proc = "closing" /\ proc' # "closing" /\ UNCHANGED disruptions
                       => \A n \in DOMAIN Order :
                            forwarder[Order[n]] = "closed" \/ (proc' = "exiting" /\ n >= at)
<1>1. IInv /\ [Next]_vars => [Closes]_vars
  <2> SUFFICES ASSUME IInv, Next, proc = "closing", proc' # "closing",
                      UNCHANGED disruptions, NEW n \in DOMAIN Order
               PROVE  forwarder[Order[n]] = "closed" \/ (proc' = "exiting" /\ n >= at)
    BY DEF vars, lifespan
  <2>1. disruptions \in Nat
    BY LifecycleAssumption DEF IInv, TypeOK
  <2>2. ~Kill
    BY <2>1 DEF Kill, Disrupt
  <2>3. Finish \/ Abort
    BY <2>2
    DEF Next, Shutdown, Boot, StartPipeline, StartupFails, Serve, Connected, TakeRecord, RecordDone,
        Fails, Stopped, StopRaises, Admit, Arrive, Answer, Retire, StartupProbeFails,
        LivenessProbeFails, Drain, Close, CancelTask, WaitTimesOut, CloseForwarder, Closed,
        Exit, KillHanging, lifespan
  <2>4. /\ n < at => forwarder[Order[n]] = "closed"
        /\ n \in 1 .. Len(Order) /\ Len(Order) \in Nat /\ at \in Nat
    BY OrderFacts DEF IInv, TypeOK, ForwarderFollows
  <2>5. CASE Finish
    BY <2>4, <2>5 DEF Finish
  <2>6. CASE Abort
    BY <2>4, <2>6 DEF Abort, CancelsAll
  <2> QED  BY <2>3, <2>5, <2>6
<1> QED  BY <1>1, IInvHolds, PTL DEF Spec, ShutdownClosesAll
-----------------------------------------------------------------------------
(* The refinement of TaskLife, for each pipeline with a consumer.          *)

(* What TaskLife lets become of v. *)
Follows(v, w) ==
  \/ w = v
  \/ v = "off" /\ w = "connect"
  \/ v = "connect" /\ w = "loop"
  \/ v \in {"connect", "loop"} /\ w = "ended"
  \/ v # "off" /\ w = "off"

LEMMA FollowsIsNext ==
  ASSUME NEW p \in Kafka, Follows(Life(p), Life(p)')
  PROVE  [T(p)!Next]_(Life(p))
BY DEF Follows, T!Next, T!Boot, T!Connect, T!End, T!Exit

(* What a step makes of one task, in terms of start()'s own states.        *)
LEMMA TaskFollows ==
  ASSUME IInv, NEW p \in Kafka,
         \/ task'[p] = task[p]
         \/ task[p] = "none" /\ task'[p] = "connecting"
         \/ task[p] = "connecting" /\ task'[p] = "looping"
         \/ task[p] \in InLoop /\ task'[p] \in InLoop
         \/ task[p] \in InLoop \cup {"connecting"} /\ task'[p] = "stopping"
         \/ task[p] = "stopping" /\ task'[p] = "ended"
         \/ task'[p] = "none"
  PROVE  Follows(Life(p), Life(p)')
<1>1. task[p] \in InLoop \cup Over \cup {"connecting", "stopping"}
  BY OrderFacts DEF IInv, TypeOK
<1> QED  BY <1>1 DEF Follows, Life, InLoop, Over

(* A task is created only for a pipeline that has none: the lifespan goes  *)
(* along Order once, and no process outlives its lifespan.                 *)
LEMMA CreatedOnce ==
  ASSUME IInv, StartPipeline
  PROVE  Current \in Pipelines /\ task[Current] = "none"
<1>1. at \in DOMAIN Order /\ proc = "starting"
  BY OrderFacts DEF StartPipeline, IInv, TypeOK
<1>2. ForwarderFollows(at) /\ at \in Nat
  BY <1>1, OrderFacts DEF IInv
<1> QED  BY <1>1, <1>2, OrderFacts DEF ForwarderFollows, Current

LEMMA EveryTaskFollows ==
  ASSUME IInv, [Next]_vars, NEW p \in Kafka
  PROVE  Follows(Life(p), Life(p)')
<1>1. p \in Pipelines /\ task \in [Pipelines -> InLoop \cup Over \cup {"connecting", "stopping"}]
  BY OrderFacts DEF IInv, TypeOK
<1>2. CASE UNCHANGED task
  BY <1>2, TaskFollows
<1>3. CASE Ends
  BY <1>1, <1>3, TaskFollows DEF Ends
<1>4. CASE StartPipeline
  BY <1>1, <1>4, CreatedOnce, TaskFollows DEF StartPipeline
<1>5. ASSUME NEW q \in Kafka,
             \/ Connected(q) \/ TakeRecord(q) \/ RecordDone(q)
             \/ Fails(q) \/ Stopped(q) \/ StopRaises(q)
      PROVE  Follows(Life(p), Life(p)')
  <2>1. q # p => task'[p] = task[p]
    BY <1>1, <1>5 DEF Connected, TakeRecord, RecordDone, Fails, Unwinds, Stopped, StopRaises
  <2>2. q = p => \/ task[p] = "connecting" /\ task'[p] = "looping"
                 \/ task[p] \in InLoop /\ task'[p] \in InLoop
                 \/ task[p] \in InLoop \cup {"connecting"} /\ task'[p] = "stopping"
                 \/ task[p] = "stopping" /\ task'[p] = "ended"
    BY <1>1, <1>5
    DEF Connected, TakeRecord, RecordDone, Fails, Unwinds, Stopped, StopRaises, InLoop
  <2> QED  BY <2>1, <2>2, TaskFollows
<1>6. CASE CancelTask
  <2>1. Current # p => task'[p] = task[p]
    BY <1>1, <1>6 DEF CancelTask, Unwinds
  <2>2. Current = p => \/ task[p] \in InLoop \cup {"connecting"} /\ task'[p] = "stopping"
                       \/ task[p] = "stopping" /\ task'[p] = "ended"
    BY <1>1, <1>6 DEF CancelTask, Unwinds, Over
  <2> QED  BY <2>1, <2>2, TaskFollows
<1>7. CASE WaitTimesOut
  BY <1>1, <1>7, TaskFollows DEF WaitTimesOut
<1>8. CASE CancelsAll
  <2>1. TypeOK
    BY DEF IInv
  <2> QED  BY <1>1, <1>8, <2>1, CancelledTasks, TaskFollows
<1> QED
  BY <1>2, <1>3, <1>4, <1>5, <1>6, <1>7, <1>8
  DEF Next, Shutdown, Boot, StartupFails, Serve, Admit, Arrive, Answer, Retire,
      StartupProbeFails, LivenessProbeFails, Drain, Kill, Close, CloseForwarder, Abort, Closed,
      Finish, Exit, KillHanging, tasks, vars

(* The task of every pipeline lives as TaskLife says, in a process that    *)
(* any number of others may bring down.                                    *)
THEOREM LifecycleTasksLive == Spec => TasksLive
<1>1. Init => \A p \in Kafka : T(p)!Init
  <2> SUFFICES ASSUME Init, NEW p \in Kafka PROVE T(p)!Init
    OBVIOUS
  <2>1. task[p] = "none"
    BY OrderFacts DEF Init
  <2> QED  BY <2>1 DEF T!Init, Life, InLoop
<1>2. IInv /\ [Next]_vars => \A p \in Kafka : [T(p)!Next]_(Life(p))
  BY EveryTaskFollows, FollowsIsNext
<1> QED  BY <1>1, <1>2, IInvHolds, PTL DEF Spec, TasksLive
=============================================================================
