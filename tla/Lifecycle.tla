------------------------------ MODULE Lifecycle ------------------------------
(***************************************************************************)
(* One container of the service: the lifespan of app/main.py, which starts *)
(* the pipelines of PIPELINES_JSON one by one and stops them one by one,   *)
(* with start() and close() of app/webhook.py, start() of app/consumer.py  *)
(* around its loop, /ready and /health, and the probes of service.yaml     *)
(* that decide by them.                                                    *)
(*                                                                         *)
(* uvicorn, asyncio and the platform are external: requests are served     *)
(* once the lifespan has yielded; on SIGTERM uvicorn takes no new ones,    *)
(* waits for those in flight and resumes the lifespan; when that raises,   *)
(* or when the start does, asyncio.run() cancels the tasks that are left   *)
(* and waits for them before the process ends, for as long as they take.   *)
(* The platform gives the container requests once its startup probe has    *)
(* succeeded, ends it when a probe fails as often as its threshold, and    *)
(* kills it when it does not end.                                          *)
(***************************************************************************)
EXTENDS Naturals, Sequences

CONSTANTS
  Pipelines,      \* the pipelines' names, which are unique
  Order,          \* the pipelines as PIPELINES_JSON lists them
  Kafka,          \* those with a Kafka consumer
  Dlq,            \* those with a dead letter topic
  MaxDisruptions  \* bound on failures, kills and shutdowns without a cause

ASSUME LifecycleAssumption ==
  /\ Order \in Seq(Pipelines)
  /\ \A p \in Pipelines : \E n \in DOMAIN Order : Order[n] = p
  /\ \A m, n \in DOMAIN Order : Order[m] = Order[n] => m = n
  /\ Kafka \subseteq Pipelines /\ Dlq \subseteq Pipelines
  /\ MaxDisruptions \in Nat

VARIABLES
  proc,        \* what the process does
  at,          \* the index in Order the lifespan is at, starting or closing
  waiting,     \* the lifespan waits for the task of Order[at]
  task,        \* task[p]: where KafkaConsumerService.start() is
  failed,      \* pipelines whose task is ending or has ended with an exception
  running,     \* pipelines whose consumer's _running is set
  connected,   \* the same of _connected
  forwarder,   \* forwarder[p]: what became of the session and the producer
  ingesting,   \* pipelines with a POST /ingest in forward()
  admitted,    \* the startup probe has succeeded
  disruptions

tasks == <<task, failed, running, connected>>
lifespan == <<proc, at, waiting>>
vars == <<lifespan, tasks, forwarder, ingesting, admitted, disruptions>>

Current == Order[at]
InLoop == {"looping", "forwarding"}
Over == {"none", "ended"}  \* no task, or state.task.done()

Init ==
  /\ proc = "down" /\ at = 1 /\ waiting = FALSE
  /\ task = [p \in Pipelines |-> "none"]
  /\ failed = {} /\ running = {} /\ connected = {}
  /\ forwarder = [p \in Pipelines |-> "new"]
  /\ ingesting = {} /\ admitted = FALSE
  /\ disruptions = 0

Disrupt ==
  /\ disruptions < MaxDisruptions
  /\ disruptions' = disruptions + 1

(* The process is gone, and everything with it. *)
Ends ==
  /\ proc' = "down" /\ at' = 1 /\ waiting' = FALSE
  /\ task' = [p \in Pipelines |-> "none"]
  /\ failed' = {} /\ running' = {} /\ connected' = {}
  /\ forwarder' = [p \in Pipelines |-> "new"]
  /\ ingesting' = {} /\ admitted' = FALSE

(* asyncio.run() when the lifespan has raised: it cancels every task that  *)
(* is not done.  One that stops its client already is thrown out of that.  *)
CancelsAll ==
  /\ proc' = "exiting" /\ at' = 1 /\ waiting' = FALSE
  /\ task' = [p \in Pipelines |->
       CASE task[p] \in Over -> task[p]
         [] task[p] = "stopping" -> "ended"
         [] OTHER -> "stopping"]
  /\ failed' = {p \in failed : task[p] \in Over}
  /\ running' = {} /\ connected' = {}
  /\ UNCHANGED <<forwarder, ingesting, admitted>>
-----------------------------------------------------------------------------
(* The start of the lifespan.  Tasks it has created run while it awaits    *)
(* the next pipeline's producer.                                           *)
Boot ==
  /\ proc = "down"
  /\ proc' = "starting"
  /\ UNCHANGED <<at, waiting, tasks, forwarder, ingesting, admitted, disruptions>>

(* Mutant: a consumer's task is created for every pipeline. *)
StartPipelineWithTask ==
  /\ proc = "starting" /\ at <= Len(Order)
  /\ forwarder' = [forwarder EXCEPT ![Current] = "open"]
  /\ task' = [task EXCEPT ![Current] = "connecting"]
  /\ at' = at + 1
  /\ UNCHANGED <<proc, waiting, failed, running, connected, ingesting, admitted, disruptions>>

(* forwarder.start() returns, and the consumer's task is created. *)
StartPipeline ==
  /\ proc = "starting" /\ at <= Len(Order)
  /\ forwarder' = [forwarder EXCEPT ![Current] = "open"]
  /\ task' = [task EXCEPT ![Current] = IF Current \in Kafka THEN "connecting" ELSE "none"]
  /\ at' = at + 1
  /\ UNCHANGED <<proc, waiting, failed, running, connected, ingesting, admitted, disruptions>>

(* The producer of the dead letter topic does not start: nothing catches   *)
(* that, no pipeline is served, and the tasks of earlier ones are left.    *)
StartupFails ==
  /\ proc = "starting" /\ at <= Len(Order) /\ Current \in Dlq
  /\ Disrupt
  /\ CancelsAll

Serve ==
  /\ proc = "starting" /\ at > Len(Order)
  /\ proc' = "serving" /\ at' = 1
  /\ UNCHANGED <<waiting, tasks, forwarder, ingesting, admitted, disruptions>>
-----------------------------------------------------------------------------
(* KafkaConsumerService.start(), from one await to the next.               *)

(* Mutant: the loop is entered before the consumer counts as running. *)
ConnectedOnly(p) ==
  /\ task[p] = "connecting"
  /\ task' = [task EXCEPT ![p] = "looping"]
  /\ connected' = connected \cup {p}
  /\ UNCHANGED <<lifespan, failed, running, forwarder, ingesting, admitted, disruptions>>

Connected(p) ==
  /\ task[p] = "connecting"
  /\ task' = [task EXCEPT ![p] = "looping"]
  /\ running' = running \cup {p} /\ connected' = connected \cup {p}
  /\ UNCHANGED <<lifespan, failed, forwarder, ingesting, admitted, disruptions>>

TakeRecord(p) ==
  /\ task[p] = "looping"
  /\ task' = [task EXCEPT ![p] = "forwarding"]
  /\ UNCHANGED <<lifespan, failed, running, connected, forwarder, ingesting, admitted, disruptions>>

RecordDone(p) ==
  /\ task[p] = "forwarding"
  /\ task' = [task EXCEPT ![p] = "looping"]
  /\ UNCHANGED <<lifespan, failed, running, connected, forwarder, ingesting, admitted, disruptions>>

(* Mutant: the flags are cleared when the client has been stopped. *)
UnwindsLate(p) ==
  /\ task' = [task EXCEPT ![p] = "stopping"]
  /\ UNCHANGED <<running, connected>>

(* The finally clause up to the await of the client's stop(). *)
Unwinds(p) ==
  /\ task' = [task EXCEPT ![p] = "stopping"]
  /\ running' = running \ {p} /\ connected' = connected \ {p}

(* Connecting, a record or a commit raises. *)
Fails(p) ==
  /\ task[p] \in InLoop \cup {"connecting"}
  /\ Disrupt
  /\ Unwinds(p)
  /\ failed' = failed \cup {p}
  /\ UNCHANGED <<lifespan, forwarder, ingesting, admitted>>

(* Mutant: start() connects again instead of ending. *)
StoppedReconnects(p) ==
  /\ task[p] = "stopping"
  /\ task' = [task EXCEPT ![p] = "connecting"]
  /\ UNCHANGED <<lifespan, failed, running, connected, forwarder, ingesting, admitted, disruptions>>

(* The client's stop() returns, raises, or does neither for ever. *)
Stopped(p) ==
  /\ task[p] = "stopping"
  /\ task' = [task EXCEPT ![p] = "ended"]
  /\ UNCHANGED <<lifespan, failed, running, connected, forwarder, ingesting, admitted, disruptions>>

StopRaises(p) ==
  /\ task[p] = "stopping"
  /\ Disrupt
  /\ task' = [task EXCEPT ![p] = "ended"]
  /\ failed' = failed \cup {p}
  /\ UNCHANGED <<lifespan, running, connected, forwarder, ingesting, admitted>>
-----------------------------------------------------------------------------
(* The probes and the requests.                                            *)

(* done() and not cancelled(). *)
Crashed(p) == task[p] = "ended" /\ p \in failed

(* Mutant: only a task that has ended counts. *)
HealthyUnlessCrashed == \A p \in Kafka : ~Crashed(p)

(* GET /health answers 200. *)
Healthy == \A p \in Kafka : p \in running /\ ~Crashed(p)

(* Mutant: one connected consumer suffices. *)
ReadyWithOne == Kafka = {} \/ connected # {}

(* GET /ready answers 200. *)
Ready == \A p \in Kafka : p \in connected

Admit ==
  /\ proc = "serving" /\ ~admitted /\ Ready
  /\ admitted' = TRUE
  /\ UNCHANGED <<lifespan, tasks, forwarder, ingesting, disruptions>>

(* A POST /ingest for p is in forward(), and its forward() has ended. *)
Arrive(p) ==
  /\ proc = "serving" /\ admitted /\ p \notin ingesting
  /\ ingesting' = ingesting \cup {p}
  /\ UNCHANGED <<lifespan, tasks, forwarder, admitted, disruptions>>

Answer(p) ==
  /\ p \in ingesting
  /\ ingesting' = ingesting \ {p}
  /\ UNCHANGED <<lifespan, tasks, forwarder, admitted, disruptions>>

(* SIGTERM. *)
Drain ==
  /\ proc = "serving"
  /\ proc' = "draining"
  /\ UNCHANGED <<at, waiting, tasks, forwarder, ingesting, admitted>>

(* A new revision, or fewer instances. *)
Retire == Drain /\ Disrupt

(* The startup probe has failed as often as it may: a consumer ended, or   *)
(* is slow to connect.                                                     *)
StartupProbeFails ==
  /\ ~admitted /\ ~Ready
  /\ IF \E p \in Kafka : task[p] \in {"stopping", "ended"}
     THEN UNCHANGED disruptions
     ELSE Disrupt
  /\ Drain

LivenessProbeFails ==
  /\ admitted /\ ~Healthy
  /\ Drain
  /\ UNCHANGED disruptions

(* The process dies, or SIGTERM comes before it serves. *)
Kill ==
  /\ proc # "down"
  /\ Disrupt
  /\ Ends
-----------------------------------------------------------------------------
(* The end of the lifespan.                                                *)

(* The requests are answered. *)
Close ==
  /\ proc = "draining" /\ ingesting = {}
  /\ proc' = "closing"
  /\ UNCHANGED <<at, waiting, tasks, forwarder, ingesting, admitted, disruptions>>

ClosingCurrent == proc = "closing" /\ at <= Len(Order)

(* The task is not done: cancel it and wait.  One that stops its client    *)
(* already is thrown out of that.                                          *)
CancelTask ==
  /\ ClosingCurrent /\ ~waiting /\ task[Current] \notin Over
  /\ waiting' = TRUE
  /\ IF task[Current] = "stopping"
     THEN task' = [task EXCEPT ![Current] = "ended"] /\ UNCHANGED <<running, connected>>
     ELSE Unwinds(Current)
  /\ failed' = failed \ {Current}
  /\ UNCHANGED <<proc, at, forwarder, ingesting, admitted, disruptions>>

(* Mutant: the task is awaited without a timeout. *)
WaitForEver == FALSE /\ UNCHANGED vars

(* wait_for cancels the task again, now within stop(), and waits for it.   *)
WaitTimesOut ==
  /\ ClosingCurrent /\ waiting /\ task[Current] = "stopping"
  /\ task' = [task EXCEPT ![Current] = "ended"]
  /\ UNCHANGED <<lifespan, failed, running, connected, forwarder, ingesting, admitted, disruptions>>

(* Mutant: the forwarder is closed before the task is cancelled. *)
CloseForwarderFirst ==
  /\ ClosingCurrent /\ forwarder[Current] = "open"
  /\ forwarder' = [forwarder EXCEPT ![Current] = "closing"]
  /\ UNCHANGED <<lifespan, tasks, ingesting, admitted, disruptions>>

(* There is no task, or it is over, cancelled or timed out: close() runs.  *)
CloseForwarder ==
  /\ ClosingCurrent /\ forwarder[Current] = "open"
  /\ task[Current] \in Over /\ ~(waiting /\ Crashed(Current))
  /\ forwarder' = [forwarder EXCEPT ![Current] = "closing"]
  /\ waiting' = FALSE
  /\ UNCHANGED <<proc, at, tasks, ingesting, admitted, disruptions>>

(* The task ended with an exception while it was awaited, neither of the   *)
(* two that are caught: the lifespan ends here, and the tasks of later     *)
(* pipelines are left.                                                     *)
Abort ==
  /\ ClosingCurrent /\ waiting /\ Crashed(Current)
  /\ CancelsAll
  /\ UNCHANGED disruptions

(* Mutant: a pipeline without a live task is skipped. *)
ClosedSkips ==
  /\ ClosingCurrent
  /\ \/ forwarder[Current] = "closing"
        /\ forwarder' = [forwarder EXCEPT ![Current] = "closed"]
     \/ task[Current] \in Over /\ forwarder[Current] = "open" /\ ~waiting
        /\ UNCHANGED forwarder
  /\ at' = at + 1
  /\ UNCHANGED <<proc, waiting, tasks, ingesting, admitted, disruptions>>

(* close() returns; on to the next pipeline. *)
Closed ==
  /\ ClosingCurrent /\ forwarder[Current] = "closing"
  /\ forwarder' = [forwarder EXCEPT ![Current] = "closed"]
  /\ at' = at + 1
  /\ UNCHANGED <<proc, waiting, tasks, ingesting, admitted, disruptions>>

(* Every task is done by now: there is none to cancel. *)
Finish ==
  /\ proc = "closing" /\ at > Len(Order)
  /\ Ends
  /\ UNCHANGED disruptions

(* The last of the tasks that were left is done: asyncio.run() returns.    *)
Exit ==
  /\ proc = "exiting" /\ \A p \in Pipelines : task[p] \in Over
  /\ Ends
  /\ UNCHANGED disruptions

(* SIGKILL, to a process that one of them keeps from its end.              *)
KillHanging ==
  /\ proc = "exiting" /\ \E p \in Pipelines : task[p] \notin Over
  /\ Ends
  /\ UNCHANGED disruptions

Shutdown == Close \/ CancelTask \/ WaitTimesOut \/ CloseForwarder \/ Abort \/ Closed \/ Finish \/ Exit

Next ==
  \/ Boot \/ StartPipeline \/ StartupFails \/ Serve
  \/ \E p \in Kafka :
       \/ Connected(p) \/ TakeRecord(p) \/ RecordDone(p)
       \/ Fails(p) \/ Stopped(p) \/ StopRaises(p)
  \/ Admit \/ \E p \in Pipelines : Arrive(p) \/ Answer(p)
  \/ Retire \/ StartupProbeFails \/ LivenessProbeFails \/ Kill
  \/ Shutdown \/ KillHanging

Spec == Init /\ [][Next]_vars

(* The platform starts a container that is down, probes it and acts on it; *)
(* brokers can be connected to, a forward() ends (CallsEnd of module       *)
(* Forwarder), the wait has a timeout, close() returns.  Nothing makes the *)
(* client's stop() return, and that the platform kills what hangs in it is *)
(* an assumption of its own: only some of the properties need it.          *)
FairSpec ==
  /\ Spec
  /\ WF_vars(Boot) /\ WF_vars(StartPipeline) /\ WF_vars(Serve)
  /\ \A p \in Kafka : WF_vars(Connected(p))
  /\ \A p \in Pipelines : WF_vars(Answer(p))
  /\ WF_vars(Admit)
  /\ WF_vars(StartupProbeFails /\ UNCHANGED disruptions)
  /\ WF_vars(LivenessProbeFails)
  /\ WF_vars(Shutdown)

HangingIsKilled == WF_vars(KillHanging)
-----------------------------------------------------------------------------
TypeOK ==
  /\ proc \in {"down", "starting", "serving", "draining", "closing", "exiting"}
  /\ at \in 1 .. Len(Order) + 1
  /\ waiting \in BOOLEAN /\ admitted \in BOOLEAN
  /\ task \in [Pipelines -> InLoop \cup Over \cup {"connecting", "stopping"}]
  /\ \A p \in Pipelines \ Kafka : task[p] = "none"
  /\ failed \subseteq Kafka /\ running \subseteq Kafka /\ connected \subseteq Kafka
  /\ forwarder \in [Pipelines -> {"new", "open", "closing", "closed"}]
  /\ ingesting \subseteq Pipelines
  /\ disruptions \in 0 .. MaxDisruptions

(* Nobody who may still call forward() is left with a closed session or    *)
(* dead letter producer, in any order of tasks ending, requests and the    *)
(* steps of the start and the shutdown: forward() would raise, or drop the *)
(* event for want of a dead letter topic.                                  *)
NoUseAfterClose ==
  \A p \in Pipelines :
    task[p] \in InLoop \cup {"connecting"} \/ p \in ingesting => forwarder[p] = "open"

(* The probes tell the truth: /health answers 200 exactly when every Kafka *)
(* consumer is in its loop, not while one connects, hangs in stop() or has *)
(* ended; so does /ready, so that what is admitted is alive.               *)
ProbesTellTheTruth ==
  LET allConsume == \A p \in Kafka : task[p] \in InLoop
  IN  (Healthy <=> allConsume) /\ (Ready <=> allConsume)

(* No pipeline, not even one without Kafka, gets events of a container one *)
(* of whose consumers has yet to connect.                                  *)
AdmittedOnceAllConnected ==
  admitted => \A p \in Kafka : task[p] \in InLoop \cup {"stopping", "ended"}

(* A shutdown that gets to its end has closed the forwarder of every       *)
(* pipeline: also of those that never had a task, or whose task had        *)
(* crashed before its turn.  One that an exception aborts has closed those *)
(* of all pipelines before the one it happened at.                         *)
ShutdownClosesAll ==
  [][proc = "closing" /\ proc' # "closing" /\ UNCHANGED disruptions
       => \A n \in DOMAIN Order :
            forwarder[Order[n]] = "closed" \/ (proc' = "exiting" /\ n >= at)]_vars

(* A shutdown ends by itself although a client's stop() may hang, one that *)
(* an exception aborted as well: nothing but a stop() that hangs while     *)
(* asyncio.run() waits for it keeps a process from its end.                *)
ShutdownCompletes ==
  proc \in {"draining", "closing", "exiting"}
    ~> \/ proc = "down"
       \/ proc = "exiting" /\ \E p \in Kafka : task[p] = "stopping"

(* Once the disruptions are over all consumers run: none stays dead or     *)
(* half stopped in a container that looks alive.                           *)
EventuallyAllRun ==
  HangingIsKilled => <>[](admitted /\ \A p \in Kafka : task[p] \in InLoop)
-----------------------------------------------------------------------------
(* Each consumer's task as module Consumer sees it. *)
Life(p) ==
  CASE task[p] = "none" -> "off"
    [] task[p] = "connecting" -> "connect"
    [] task[p] \in InLoop -> "loop"
    [] task[p] \in {"stopping", "ended"} -> "ended"

T(p) == INSTANCE TaskLife WITH task <- Life(p)

(* The tasks of all pipelines come and go as module Consumer assumes,      *)
(* however the others that share the process interfere: none connects      *)
(* again or is started again but by a new process, none ends unseen.       *)
TasksLive ==
  /\ \A p \in Kafka : T(p)!Init
  /\ [][\A p \in Kafka : [T(p)!Next]_(Life(p))]_vars

(* The lifespan, the probes and the platform supervise them, as it assumes *)
(* as well: what has ended is noticed, ended with its process and started  *)
(* again.  With TasksLive this is TaskLife's FairSpec.                     *)
SupervisesTasks == HangingIsKilled => \A p \in Kafka : T(p)!Fairness
=============================================================================
