------------------------------ MODULE Consumer ------------------------------
(***************************************************************************)
(* app/consumer.py: one KafkaConsumerService per running instance of the   *)
(* service, all in one consumer group, from the creation of its task in    *)
(* the lifespan of app/main.py to its end.  A record that matches the      *)
(* filters is forwarded (module Delivery, which module Forwarder           *)
(* implements), any other one is passed over, and after each record the    *)
(* positions of all the partitions the instance holds are committed.       *)
(*                                                                         *)
(* The group coordinator, the broker's offset store and the aiokafka       *)
(* client are external: a rebalance resets every member's positions to     *)
(* the committed ones and fences the commits sent before it, and an        *)
(* instance that is evicted goes on with what it holds until it notices.   *)
(***************************************************************************)
EXTENDS Integers, Sequences, FiniteSets

CONSTANTS
  Instances,      \* instances of the service that may run
  Partitions,     \* partitions of the pipeline's topics
  Log,            \* Log[p]: the kinds of the records of p, in offset order
  MaxDisruptions  \* bound on failures, evictions, shutdowns and kills

(* What the loop does with a record: forward it, pass over it (not a JSON  *)
(* object, invalid, filtered out), or raise while reading or judging it (a *)
(* null value, a pattern that does not compile).                           *)
Kinds == {"match", "skip", "raises"}

ASSUME ConsumerAssumption ==
  /\ Log \in [Partitions -> Seq(Kinds)]
  /\ MaxDisruptions \in Nat

VARIABLES
  committed,    \* committed[p]: records of p the group has committed
  members,      \* instances in the current generation of the group
  pc,           \* where each instance's consumer task is
  position,     \* position[i][p]: records of p consumed by i, or Unassigned
  offer,        \* offer[i]: the commit of i the coordinator has to decide on
  disruptions,  \* disruptions so far
  fwd, begun, accepted, dlq, lost  \* module Delivery

delivery == <<fwd, begun, accepted, dlq, lost>>
vars == <<committed, members, pc, position, offer, disruptions, delivery>>

Unassigned == -1
Nowhere == [p \in Partitions |-> Unassigned]
NoRecord == <<>>
Records == UNION {{p} \X (1 .. Len(Log[p])) : p \in Partitions}
Kind(r) == Log[r[1]][r[2]]

D == INSTANCE Delivery WITH
       Callers <- Instances, Events <- Records, NoEvent <- NoRecord

InLoop == {"poll", "forward", "commit"}
Joined == {i \in Instances : pc[i] \in InLoop}

Init ==
  /\ committed = [p \in Partitions |-> 0]
  /\ members = {}
  /\ pc = [i \in Instances |-> "off"]
  /\ position = [i \in Instances |-> Nowhere]
  /\ offer = [i \in Instances |-> Nowhere]
  /\ disruptions = 0
  /\ D!Init

Goto(i, l) == pc' = [pc EXCEPT ![i] = l]

Disrupt ==
  /\ disruptions < MaxDisruptions
  /\ disruptions' = disruptions + 1

(* The task is over: the finally clause of start() stops the client.  A    *)
(* commit already sent may still reach the coordinator.                    *)
Leave(i, l) ==
  /\ Goto(i, l)
  /\ position' = [position EXCEPT ![i] = Nowhere]
  /\ UNCHANGED <<committed, members, offer>>

(* Mutant: the offset of the record is committed, not the one after it. *)
CommitLastOffset(i, positions) ==
  /\ Goto(i, "commit")
  /\ offer' = [offer EXCEPT ![i] = [p \in Partitions |-> positions[p] - 1]]

(* commit() with no argument: every position of the current assignment; it *)
(* returns at once when nothing is assigned.                               *)
CommitPositions(i, positions) ==
  /\ Goto(i, IF positions = Nowhere THEN "poll" ELSE "commit")
  /\ offer' = [offer EXCEPT ![i] = positions]
-----------------------------------------------------------------------------
(* The lifespan builds the pipeline and creates the consumer task. *)
Boot(i) ==
  /\ pc[i] = "off"
  /\ Goto(i, "connect")
  /\ UNCHANGED <<committed, members, position, offer, disruptions, delivery>>

(* AIOKafkaConsumer.start() returns: a new member, with nothing assigned.  *)
Connect(i) ==
  /\ pc[i] = "connect"
  /\ Goto(i, "poll")
  /\ members' = members \ {i}
  /\ offer' = [offer EXCEPT ![i] = Nowhere]
  /\ UNCHANGED <<committed, position, disruptions, delivery>>

ConnectFails(i) ==
  /\ pc[i] = "connect"
  /\ Disrupt
  /\ Leave(i, "crashed")
  /\ UNCHANGED delivery

(* Mutant: every assignment starts at the beginning. *)
StartOfLog(p) == 0

(* Where a partition is read from when it is assigned.  With no committed  *)
(* offset, kafka_auto_offset_reset = "earliest" starts at the first record. *)
StartOf(p) == committed[p]

(* Somebody came or went since the last generation, so that members are    *)
(* missing in it, gone from it, or a partition of it has lost its owner.   *)
Unsettled ==
  \/ members # Joined
  \/ \E p \in Partitions : \A i \in members : position[i][p] = Unassigned

(* A new generation of the group with the members M.  It follows when      *)
(* somebody came or went; at any other time it is a disruption, as is one  *)
(* that leaves out instances that still believe they are members.  Commits *)
(* sent under the old generation are rejected from now on.                 *)
Rebalance(M) ==
  /\ M # {} /\ M \subseteq Joined
  /\ IF M = Joined /\ Unsettled THEN UNCHANGED disruptions ELSE Disrupt
  /\ members' = M
  /\ \E owner \in [Partitions -> M] :
       position' = [i \in Instances |->
         IF i \in M
         THEN [p \in Partitions |-> IF owner[p] = i THEN StartOf(p) ELSE Unassigned]
         ELSE position[i]]
  /\ offer' = [i \in Instances |-> Nowhere]
  /\ UNCHANGED <<committed, pc, delivery>>

HasNext(i, p) == position[i][p] \in 0 .. Len(Log[p]) - 1
NextRecord(i, p) == <<p, position[i][p] + 1>>
Advance(i, p) == [position EXCEPT ![i][p] = @ + 1]

(* The next record matches: forward() is called and awaited. *)
FetchMatch(i, p) ==
  /\ pc[i] = "poll" /\ HasNext(i, p) /\ Kind(NextRecord(i, p)) = "match"
  /\ position' = Advance(i, p)
  /\ D!Begin(i, NextRecord(i, p))
  /\ Goto(i, "forward")
  /\ UNCHANGED <<committed, members, offer, disruptions>>

(* The next record is no object, invalid or filtered out: commit, go on.   *)
FetchSkip(i, p) ==
  /\ pc[i] = "poll" /\ HasNext(i, p) /\ Kind(NextRecord(i, p)) = "skip"
  /\ position' = Advance(i, p)
  /\ CommitPositions(i, position'[i])
  /\ UNCHANGED <<committed, members, disruptions, delivery>>

(* Deserializing, validating or filtering the record raises: no handler on *)
(* the way out of the task.                                                *)
FetchRaises(i, p) ==
  /\ pc[i] = "poll" /\ HasNext(i, p) /\ Kind(NextRecord(i, p)) = "raises"
  /\ Leave(i, "crashed")
  /\ UNCHANGED <<disruptions, delivery>>

(* Mutant: nothing is committed after forward() returned FALSE. *)
ForwardReturnsCommitsTrue(i) ==
  /\ pc[i] = "forward"
  /\ \/ D!Succeed(i) /\ CommitPositions(i, position[i])
     \/ D!GiveUp(i) /\ Goto(i, "poll") /\ UNCHANGED offer
  /\ UNCHANGED <<committed, members, position, disruptions>>

(* forward() returns TRUE or FALSE: the loop ignores which, and commits.   *)
ForwardReturns(i) ==
  /\ pc[i] = "forward"
  /\ D!Succeed(i) \/ D!GiveUp(i)
  /\ CommitPositions(i, position[i])
  /\ UNCHANGED <<committed, members, position, disruptions>>

(* Mutants: the exception is swallowed, with the commit or without it. *)
ForwardRaisesCommits(i) ==
  /\ pc[i] = "forward"
  /\ Disrupt
  /\ D!Raise(i)
  /\ CommitPositions(i, position[i])
  /\ UNCHANGED <<committed, members, position>>

ForwardRaisesContinues(i) ==
  /\ pc[i] = "forward"
  /\ Disrupt
  /\ D!Raise(i)
  /\ Goto(i, "poll")
  /\ UNCHANGED <<committed, members, position, offer>>

(* forward() raises what it does not catch, a timeout of the POST.         *)
ForwardRaises(i) ==
  /\ pc[i] = "forward"
  /\ Disrupt
  /\ D!Raise(i)
  /\ Leave(i, "crashed")

(* n8n accepts a record that was posted to it, awaited or not. *)
Accept(r) ==
  /\ D!Accept(r)
  /\ UNCHANGED <<committed, members, pc, position, offer, disruptions>>

(* The coordinator applies a commit, also one of a task that was cancelled *)
(* or killed after it was sent.                                            *)
CommitLands(i) ==
  /\ offer[i] # Nowhere /\ i \in members
  /\ committed' = [p \in Partitions |->
       IF offer[i][p] = Unassigned THEN committed[p] ELSE offer[i][p]]
  /\ offer' = [offer EXCEPT ![i] = Nowhere]
  /\ pc' = [pc EXCEPT ![i] = IF @ = "commit" THEN "poll" ELSE @]
  /\ UNCHANGED <<members, position, disruptions, delivery>>

Fenced(i) == i \notin members \/ offer[i] = Nowhere

(* commit() raises: always when it is fenced, and otherwise when the       *)
(* coordinator fails, which may still apply it (CommitLands).              *)
CommitFails(i) ==
  /\ pc[i] = "commit"
  /\ IF Fenced(i) THEN UNCHANGED disruptions ELSE Disrupt
  /\ Leave(i, "crashed")
  /\ UNCHANGED delivery

Interrupted(i) == IF pc[i] = "forward" THEN D!Raise(i) ELSE UNCHANGED delivery

(* The lifespan ends: the task is cancelled at the await it is at. *)
Cancel(i) ==
  /\ pc[i] \in InLoop \cup {"connect"}
  /\ Disrupt
  /\ Interrupted(i)
  /\ Leave(i, "stopped")

(* Mutant: a dead task is no reason for /health to report anything. *)
ExitStopped(i) ==
  /\ pc[i] = "stopped"
  /\ Goto(i, "off")
  /\ UNCHANGED <<committed, members, position, offer, disruptions, delivery>>

(* The process ends: after the shutdown, or because /health reports the    *)
(* dead task and the liveness probe restarts the container.                *)
Exit(i) ==
  /\ pc[i] \in {"stopped", "crashed"}
  /\ Goto(i, "off")
  /\ UNCHANGED <<committed, members, position, offer, disruptions, delivery>>

(* The process dies with no chance to stop anything. *)
Kill(i) ==
  /\ pc[i] # "off"
  /\ Disrupt
  /\ Interrupted(i)
  /\ Leave(i, "off")

Fetch(i) == \E p \in Partitions : FetchMatch(i, p) \/ FetchSkip(i, p) \/ FetchRaises(i, p)

Next ==
  \/ \E i \in Instances :
       \/ Boot(i) \/ Connect(i) \/ ConnectFails(i)
       \/ Fetch(i) \/ ForwardReturns(i) \/ ForwardRaises(i)
       \/ CommitLands(i) \/ CommitFails(i)
       \/ Cancel(i) \/ Exit(i) \/ Kill(i)
  \/ \E M \in SUBSET Instances : Rebalance(M)
  \/ \E r \in Records : Accept(r)

Spec == Init /\ [][Next]_vars

(* The platform ends instances that are dead and starts one when none      *)
(* runs, the broker and the coordinator answer, a forward() ends (CallsEnd *)
(* of module Forwarder).  Nobody owes a second instance, n8n nothing.      *)
FairSpec ==
  /\ Spec
  /\ WF_vars((\A i \in Instances : pc[i] = "off") /\ \E i \in Instances : Boot(i))
  /\ WF_vars(Unsettled /\ Rebalance(Joined))
  /\ \A i \in Instances :
       /\ WF_vars(Connect(i)) /\ WF_vars(Exit(i))
       /\ WF_vars(Fetch(i)) /\ WF_vars(ForwardReturns(i))
       /\ WF_vars(Fenced(i) /\ CommitFails(i)) /\ WF_vars(CommitLands(i))
-----------------------------------------------------------------------------
TypeOK ==
  /\ committed \in [Partitions -> Nat]
  /\ members \subseteq Instances
  /\ pc \in [Instances -> InLoop \cup {"off", "connect", "crashed", "stopped"}]
  /\ position \in [Instances -> [Partitions -> Nat \cup {Unassigned}]]
  /\ offer \in [Instances -> [Partitions -> Nat \cup {Unassigned}]]
  /\ disruptions \in 0 .. MaxDisruptions
  /\ D!DeliveryTypeOK

(* A record is dealt with when it was passed over, accepted by n8n, parked *)
(* in the dead letter topic or reported in the log as lost.                *)
Settled(r) ==
  \/ Kind(r) = "skip"
  \/ Kind(r) = "match" /\ r \in accepted \cup dlq \cup lost

SettledTo(p, n) == \A o \in 1 .. n : Settled(<<p, o>>)

Positions(p) == 0 .. Len(Log[p])

(* A committed offset is never past a record that was not dealt with,      *)
(* whatever crashes, rebalances, zombies and late commits did: no record   *)
(* that matches is silently skipped, none that raises is.                  *)
AtLeastOnce ==
  \A p \in Partitions : committed[p] \in Positions(p) /\ SettledTo(p, committed[p])

(* No record is forwarded before all the earlier ones of its partition are *)
(* dealt with: by this instance, by one before it, or by one beside it.    *)
InOrder == \A r \in begun : SettledTo(r[1], r[2] - 1)

(* The group's offsets never move back: a late or a zombie's commit does   *)
(* not undo the one of the instance that took the partition over.          *)
CommittedNeverRegresses ==
  [][\A p \in Partitions : committed'[p] >= committed[p]]_vars

AllCommitted == \A p \in Partitions : committed[p] = Len(Log[p])

(* An instance that is the only one from some point on commits every       *)
(* record once the disruptions are over: no crash, lost commit, stale      *)
(* position or member that is gone leaves it waiting for ever.             *)
EventuallyCommitted ==
  (\E i \in Instances : <>[](\A j \in Instances \ {i} : pc[j] = "off"))
    => <>[]AllCommitted

(* Of several instances that is true when the group settles: a rebalance   *)
(* stops the instance whose commit it fences, whose restart is the next    *)
(* rebalance, and nothing in the code bounds how often that repeats.       *)
CommittedOnceGroupSettles ==
  (\E M \in SUBSET Instances : <>[](members = M)) => <>[]AllCommitted
=============================================================================
