------------------------------- MODULE TaskLife -------------------------------
(***************************************************************************)
(* What module Consumer takes for granted of the task of one consumer: it  *)
(* is started, connects, ends for whatever reason, and once it has ended   *)
(* somebody notices, ends the process and starts it again.  Module         *)
(* Lifecycle shows that the lifespan, the probes and the platform          *)
(* provide this for each of the pipelines that share a process.            *)
(***************************************************************************)
VARIABLE task  \* "off", "connect", "loop" or "ended", as in Consumer's pc

Init == task = "off"

Boot == task = "off" /\ task' = "connect"

Connect == task = "connect" /\ task' = "loop"

(* It raised or was cancelled; it need not have come to rest yet. *)
End == task \in {"connect", "loop"} /\ task' = "ended"

(* The process ends, in whatever state the task is. *)
Exit == task # "off" /\ task' = "off"

Next == Boot \/ Connect \/ End \/ Exit

Fairness == WF_task(Boot) /\ WF_task(task = "ended" /\ Exit)

FairSpec == Init /\ [][Next]_task /\ Fairness
=============================================================================
