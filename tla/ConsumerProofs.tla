--------------------------- MODULE ConsumerProofs ---------------------------
(***************************************************************************)
(* Proofs about module Consumer, for every number of instances, every log  *)
(* and every number of disruptions.                                        *)
(***************************************************************************)
EXTENDS Consumer, TLAPS

(* The invariants the proofs rest on: why the properties hold.             *)

(* The record whose forward() is awaited is one that matches. *)
ForwardsMatch ==
  \A i \in Instances : pc[i] = "forward" =>
    fwd[i].st = "busy" /\ Kind(fwd[i].ev) = "match"

(* Below a position everything is dealt with, but for the record that this *)
(* very instance is forwarding.                                            *)
PositionsSettled ==
  \A i \in Instances, p \in Partitions : position[i][p] # Unassigned =>
    /\ position[i][p] \in Positions(p)
    /\ \A o \in 1 .. position[i][p] :
         Settled(<<p, o>>) \/ (pc[i] = "forward" /\ fwd[i].ev = <<p, o>>)

(* A commit on its way promises nothing that is not so. *)
OffersSettled ==
  \A i \in Instances, p \in Partitions : offer[i][p] # Unassigned =>
    offer[i][p] \in Positions(p) /\ SettledTo(p, offer[i][p])

IInv ==
  /\ TypeOK /\ AtLeastOnce /\ InOrder
  /\ ForwardsMatch /\ PositionsSettled /\ OffersSettled

(* Within a generation a partition is held, by a position or by a commit   *)
(* on its way, by one member at most, which is not behind the offsets.     *)
Holds(i, p) == position[i][p] # Unassigned \/ offer[i][p] # Unassigned

HeldByOne ==
  \A i, j \in members, p \in Partitions : Holds(i, p) /\ Holds(j, p) => i = j

NeverBehind ==
  \A i \in members, p \in Partitions :
    /\ position[i][p] # Unassigned =>
         committed[p] <= position[i][p] /\ offer[i][p] <= position[i][p]
    /\ offer[i][p] # Unassigned => committed[p] <= offer[i][p]

GroupInv == TypeOK /\ HeldByOne /\ NeverBehind
-----------------------------------------------------------------------------
LEMMA RecordsDef ==
  ASSUME NEW p \in Partitions, NEW o \in 1 .. Len(Log[p])
  PROVE  <<p, o>> \in Records
BY DEF Records

LEMMA LenLog == \A p \in Partitions : Log[p] \in Seq(Kinds) /\ Len(Log[p]) \in Nat
BY ConsumerAssumption

LEMMA NextRecordExists ==
  ASSUME NEW i \in Instances, NEW p \in Partitions, TypeOK, HasNext(i, p)
  PROVE  /\ NextRecord(i, p) \in Records
         /\ position[i][p] \in Nat /\ position[i][p] + 1 \in 1 .. Len(Log[p])
BY LenLog, RecordsDef DEF TypeOK, HasNext, NextRecord, Unassigned

-----------------------------------------------------------------------------
(* The loop drives forward() only as module Delivery allows. *)
LEMMA StepIsDeliveryStep == [Next]_vars => D!Next \/ UNCHANGED delivery
<1> SUFFICES ASSUME [Next]_vars
             PROVE  D!Next \/ UNCHANGED delivery
  OBVIOUS
<1>1. ASSUME NEW i \in Instances, NEW p \in Partitions, FetchMatch(i, p)
      PROVE  D!Next
  <2>1. NextRecord(i, p) \in Records
    BY <1>1, RecordsDef DEF FetchMatch, HasNext, NextRecord
  <2> QED  BY <1>1, <2>1 DEF FetchMatch, D!Next
<1>2. ASSUME NEW i \in Instances, Cancel(i) \/ Kill(i)
      PROVE  D!Next \/ UNCHANGED delivery
  BY <1>2 DEF Cancel, Kill, Interrupted, D!Next
<1>3. ASSUME NEW i \in Instances, ForwardReturns(i) \/ ForwardRaises(i)
      PROVE  D!Next
  BY <1>3 DEF ForwardReturns, ForwardRaises, D!Next
<1>4. ASSUME NEW r \in Records, Accept(r)
      PROVE  D!Next
  BY <1>4 DEF Accept, D!Next
<1> QED
  BY <1>1, <1>2, <1>3, <1>4
  DEF Next, vars, Boot, Connect, ConnectFails, Fetch, FetchSkip, FetchRaises,
      CommitLands, CommitFails, Exit, Rebalance

(* Whatever becomes of forward(), the delivery stays well typed, and what  *)
(* n8n, the topic and the log have been given stays with them.             *)
LEMMA DeliveryKeeps ==
  ASSUME D!DeliveryTypeOK, D!Next \/ UNCHANGED delivery
  PROVE  /\ D!DeliveryTypeOK'
         /\ accepted \subseteq accepted' /\ dlq \subseteq dlq' /\ lost \subseteq lost'
<1> DEFINE Kept == /\ D!DeliveryTypeOK'
                   /\ accepted \subseteq accepted' /\ dlq \subseteq dlq' /\ lost \subseteq lost'
<1> USE DEF D!DeliveryTypeOK
<1>1. ASSUME NEW i \in Instances, NEW r \in Records, D!Begin(i, r)
      PROVE  Kept
  BY <1>1 DEF D!Begin
<1>2. ASSUME NEW r \in Records, D!Accept(r)
      PROVE  Kept
  BY <1>2 DEF D!Accept
<1>3. ASSUME NEW i \in Instances, D!Succeed(i)
      PROVE  Kept
  BY <1>3 DEF D!Succeed, D!Return
<1>4. ASSUME NEW i \in Instances, D!GiveUp(i)
      PROVE  Kept
  BY <1>4 DEF D!GiveUp, D!Return
<1>5. ASSUME NEW i \in Instances, D!Raise(i)
      PROVE  Kept
  BY <1>5 DEF D!Raise, D!Return
<1>6. CASE UNCHANGED delivery
  BY <1>6 DEF delivery
<1> QED  BY <1>1, <1>2, <1>3, <1>4, <1>5, <1>6 DEF D!Next
-----------------------------------------------------------------------------
Assigned == Nat \cup {Unassigned}

LEMMA NowhereType == Nowhere \in [Partitions -> Assigned]
BY DEF Nowhere, Assigned

LEMMA InitTypeOK == Init => TypeOK
<1> SUFFICES ASSUME Init PROVE TypeOK
  OBVIOUS
<1>1. D!DeliveryTypeOK
  BY DEF Init, D!Init, D!DeliveryTypeOK, D!Idle
<1>2. disruptions \in 0 .. MaxDisruptions
  BY ConsumerAssumption DEF Init
<1> QED  BY <1>1, <1>2, NowhereType DEF Init, TypeOK, InLoop, Assigned

LEMMA TypeOKStep == TypeOK /\ [Next]_vars => TypeOK'
<1> SUFFICES ASSUME TypeOK, [Next]_vars
             PROVE  TypeOK'
  OBVIOUS
<1> USE DEF TypeOK
<1>1. D!DeliveryTypeOK'
  BY StepIsDeliveryStep, DeliveryKeeps
<1>2. disruptions' \in 0 .. MaxDisruptions
  <2>1. disruptions' = disruptions \/ Disrupt
    BY DEF Next, vars, Boot, Connect, ConnectFails, Fetch, FetchMatch, FetchSkip,
           FetchRaises, ForwardReturns, ForwardRaises, CommitLands, CommitFails,
           Cancel, Exit, Kill, Rebalance, Accept
  <2> QED  BY <2>1, ConsumerAssumption DEF Disrupt
<1> DEFINE GroupTypes == /\ committed' \in [Partitions -> Nat]
                         /\ members' \subseteq Instances
                         /\ pc' \in [Instances -> InLoop \cup {"off", "connect", "crashed", "stopped"}]
                         /\ position' \in [Instances -> [Partitions -> Nat \cup {Unassigned}]]
                         /\ offer' \in [Instances -> [Partitions -> Nat \cup {Unassigned}]]
<1>3. ASSUME NEW i \in Instances, NEW l \in {"off", "crashed", "stopped"}, Leave(i, l)
      PROVE  GroupTypes
  BY <1>3, NowhereType DEF Leave, Goto, Assigned
<1>4. ASSUME NEW i \in Instances, Boot(i) \/ Connect(i) \/ Exit(i)
      PROVE  GroupTypes
  BY <1>4, NowhereType DEF Boot, Connect, Exit, Goto, InLoop, Assigned
<1>5. ASSUME NEW i \in Instances, NEW positions \in [Partitions -> Assigned],
             position' \in [Instances -> [Partitions -> Assigned]],
             CommitPositions(i, positions), UNCHANGED <<committed, members>>
      PROVE  GroupTypes
  BY <1>5 DEF CommitPositions, Goto, InLoop, Assigned
<1>6. ASSUME NEW i \in Instances, NEW p \in Partitions, HasNext(i, p)
      PROVE  Advance(i, p) \in [Instances -> [Partitions -> Assigned]]
  BY <1>6, LenLog DEF HasNext, Advance, Assigned, Unassigned
<1>7. ASSUME NEW i \in Instances, Fetch(i) \/ ForwardReturns(i)
      PROVE  GroupTypes
  <2>1. ASSUME NEW p \in Partitions, FetchMatch(i, p)
        PROVE  GroupTypes
    BY <1>6, <2>1 DEF FetchMatch, Goto, InLoop, Assigned
  <2>2. ASSUME NEW p \in Partitions, FetchSkip(i, p)
        PROVE  GroupTypes
    <3>1. position' \in [Instances -> [Partitions -> Assigned]]
      BY <1>6, <2>2 DEF FetchSkip
    <3> QED  BY <1>5, <2>2, <3>1 DEF FetchSkip
  <2>3. ASSUME NEW p \in Partitions, FetchRaises(i, p)
        PROVE  GroupTypes
    BY <1>3, <2>3 DEF FetchRaises
  <2>4. CASE ForwardReturns(i)
    BY <1>5, <2>4 DEF ForwardReturns, Assigned
  <2> QED  BY <1>7, <2>1, <2>2, <2>3, <2>4 DEF Fetch
<1>8. ASSUME NEW i \in Instances, CommitLands(i)
      PROVE  GroupTypes
  BY <1>8, NowhereType DEF CommitLands, InLoop, Assigned, Unassigned
<1>9. ASSUME NEW M \in SUBSET Instances, Rebalance(M)
      PROVE  GroupTypes
  BY <1>9, NowhereType DEF Rebalance, StartOf, Assigned
<1>10. ASSUME UNCHANGED <<committed, members, pc, position, offer>>
       PROVE  GroupTypes
  BY <1>10
<1>11. GroupTypes
  BY <1>3, <1>4, <1>7, <1>8, <1>9, <1>10
  DEF Next, vars, ConnectFails, ForwardRaises, CommitFails, Cancel, Kill, Accept
<1> QED  BY <1>1, <1>2, <1>11

(* Every variable keeps its type. *)
THEOREM TypeCorrect == Spec => []TypeOK
BY InitTypeOK, TypeOKStep, PTL DEF Spec
-----------------------------------------------------------------------------
(* What was dealt with stays so. *)
LEMMA SettledStays ==
  ASSUME TypeOK, [Next]_vars, NEW r, Settled(r)
  PROVE  Settled(r)'
BY StepIsDeliveryStep, DeliveryKeeps DEF TypeOK, Settled, Kind

LEMMA InitIInv == Init => IInv
<1> SUFFICES ASSUME Init PROVE IInv
  OBVIOUS
<1>1. TypeOK
  BY InitTypeOK
<1>2. AtLeastOnce
  BY LenLog DEF Init, AtLeastOnce, Positions, SettledTo
<1>3. InOrder /\ ForwardsMatch
  BY DEF Init, D!Init, InOrder, ForwardsMatch
<1>4. PositionsSettled /\ OffersSettled
  BY DEF Init, Nowhere, PositionsSettled, OffersSettled
<1> QED  BY <1>1, <1>2, <1>3, <1>4 DEF IInv

(* The call of another instance is untouched by what this one does. *)
LEMMA OthersCalls ==
  ASSUME TypeOK, NEW i \in Instances, NEW j \in Instances, i # j,
         \/ \E r \in Records : D!Begin(j, r)
         \/ D!Succeed(j) \/ D!GiveUp(j) \/ D!Raise(j) \/ UNCHANGED delivery
  PROVE  fwd'[i] = fwd[i]
BY DEF TypeOK, D!DeliveryTypeOK, D!Begin, D!Succeed, D!GiveUp, D!Raise,
       D!Return, delivery

(* What a step of instance j leaves to instance i. *)
LEMMA Frame ==
  ASSUME TypeOK, NEW i \in Instances, NEW j \in Instances, i # j,
         \/ Boot(j) \/ Connect(j) \/ ConnectFails(j) \/ Fetch(j)
         \/ ForwardReturns(j) \/ ForwardRaises(j) \/ CommitLands(j)
         \/ CommitFails(j) \/ Cancel(j) \/ Exit(j) \/ Kill(j)
  PROVE  /\ pc'[i] = pc[i] /\ fwd'[i] = fwd[i]
         /\ position'[i] = position[i] /\ offer'[i] = offer[i]
<1>1. fwd'[i] = fwd[i]
  <2>1. ASSUME NEW p \in Partitions, FetchMatch(j, p)
        PROVE  fwd'[i] = fwd[i]
    BY <2>1, RecordsDef, OthersCalls DEF FetchMatch, HasNext, NextRecord
  <2>2. CASE ForwardReturns(j) \/ ForwardRaises(j)
    BY <2>2, OthersCalls DEF ForwardReturns, ForwardRaises
  <2>3. CASE Cancel(j) \/ Kill(j)
    BY <2>3, OthersCalls DEF Cancel, Kill, Interrupted
  <2> QED
    BY <2>1, <2>2, <2>3
    DEF Boot, Connect, ConnectFails, Fetch, FetchSkip, FetchRaises, CommitLands,
        CommitFails, Exit, delivery
<1>2. pc'[i] = pc[i] /\ position'[i] = position[i] /\ offer'[i] = offer[i]
  BY DEF TypeOK, Boot, Connect, ConnectFails, Fetch, FetchMatch, FetchSkip,
         FetchRaises, ForwardReturns, ForwardRaises, CommitLands, CommitFails,
         Cancel, Exit, Kill, Leave, CommitPositions, Advance, Goto
<1> QED  BY <1>1, <1>2
-----------------------------------------------------------------------------
OwnStep(i) ==
  \/ Boot(i) \/ Connect(i) \/ ConnectFails(i)
  \/ Fetch(i) \/ ForwardReturns(i) \/ ForwardRaises(i)
  \/ CommitLands(i) \/ CommitFails(i) \/ Cancel(i) \/ Exit(i) \/ Kill(i)

(* Seen from instance i, a step is its own, a rebalance, or leaves it as   *)
(* it was.                                                                 *)
LEMMA StepsSeenBy ==
  ASSUME TypeOK, [Next]_vars, NEW i \in Instances
  PROVE  \/ OwnStep(i)
         \/ \E M \in SUBSET Instances : Rebalance(M)
         \/ /\ pc'[i] = pc[i] /\ fwd'[i] = fwd[i]
            /\ position'[i] = position[i] /\ offer'[i] = offer[i]
BY Frame DEF Next, vars, delivery, OwnStep, Accept, D!Accept

LEMMA ForwardsMatchStep ==
  ASSUME TypeOK, ForwardsMatch, [Next]_vars
  PROVE  ForwardsMatch'
<1> SUFFICES ASSUME NEW i \in Instances, pc'[i] = "forward"
             PROVE  fwd'[i].st = "busy" /\ Kind(fwd'[i].ev) = "match"
  BY DEF ForwardsMatch, Kind
<1> DEFINE Same == pc[i] = "forward" /\ fwd'[i] = fwd[i]
<1>1. ASSUME NEW p \in Partitions, FetchMatch(i, p)
      PROVE  fwd'[i].st = "busy" /\ Kind(fwd'[i].ev) = "match"
  BY <1>1 DEF TypeOK, FetchMatch, D!DeliveryTypeOK, D!Begin
<1>2. ASSUME NEW l \in {"off", "crashed", "stopped"}, Leave(i, l)
      PROVE  FALSE
  BY <1>2 DEF TypeOK, Leave, Goto
<1>3. CASE CommitLands(i)
  BY <1>3 DEF ForwardsMatch, TypeOK, CommitLands, delivery
<1>4. ASSUME NEW M \in SUBSET Instances, Rebalance(M)
      PROVE  Same
  BY <1>4 DEF Rebalance, delivery
<1>5. ASSUME NEW positions, CommitPositions(i, positions)
      PROVE  FALSE
  BY <1>5 DEF TypeOK, CommitPositions, Goto
<1>6. ~Boot(i) /\ ~Connect(i) /\ ~Exit(i)
  BY DEF TypeOK, Boot, Connect, Exit, Goto
<1> QED
  BY <1>1, <1>2, <1>3, <1>4, <1>5, <1>6, StepsSeenBy
  DEF ForwardsMatch, OwnStep, Fetch, FetchSkip, FetchRaises, ForwardReturns,
      ForwardRaises, ConnectFails, CommitFails, Cancel, Kill

(* Nothing below the position of an instance that forwards nothing is open. *)
LEMMA PositionClosed ==
  ASSUME TypeOK, PositionsSettled, NEW i \in Instances, NEW p \in Partitions,
         pc[i] # "forward", position[i][p] # Unassigned
  PROVE  position[i][p] \in Positions(p) /\ SettledTo(p, position[i][p])
BY DEF PositionsSettled, SettledTo

(* When forward() has returned, the record is dealt with. *)
LEMMA ReturnSettles ==
  ASSUME ForwardsMatch, NEW i \in Instances, ForwardReturns(i),
         NEW r, r = fwd[i].ev
  PROVE  Settled(r)'
BY DEF ForwardReturns, ForwardsMatch, D!Succeed, D!GiveUp, Settled, Kind
(* The positions an instance offers to commit are settled ones. *)
LEMMA OfferedPositions ==
  ASSUME TypeOK, PositionsSettled, ForwardsMatch, [Next]_vars,
         NEW i \in Instances, NEW p \in Partitions, position'[i][p] # Unassigned,
         ForwardReturns(i) \/ \E q \in Partitions : FetchSkip(i, q)
  PROVE  position'[i][p] \in Positions(p) /\ SettledTo(p, position[i][p])'
<1> SUFFICES /\ position'[i][p] \in Positions(p)
             /\ \A o \in 1 .. position'[i][p] : Settled(<<p, o>>)'
  BY DEF SettledTo
<1>1. CASE ForwardReturns(i)
  <2>1. position'[i][p] = position[i][p]
    BY <1>1 DEF ForwardReturns
  <2> QED  BY <1>1, <2>1, ReturnSettles, SettledStays DEF PositionsSettled
<1>2. ASSUME NEW q \in Partitions, FetchSkip(i, q)
      PROVE  /\ position'[i][p] \in Positions(p)
             /\ \A o \in 1 .. position'[i][p] : Settled(<<p, o>>)'
  <2>1. pc[i] # "forward" /\ position[i][p] # Unassigned
    BY <1>2, LenLog DEF TypeOK, FetchSkip, Advance, HasNext, Unassigned
  <2>2. position[i][p] \in Positions(p) /\ SettledTo(p, position[i][p])
    BY <2>1, PositionClosed
  <2>3. CASE p # q
    <3>1. position'[i][p] = position[i][p]
      BY <1>2, <2>3 DEF TypeOK, FetchSkip, Advance
    <3> QED  BY <2>2, <3>1, SettledStays DEF SettledTo
  <2>4. CASE p = q
    <3>1. /\ position'[i][p] = position[i][p] + 1
          /\ position[i][p] \in 0 .. Len(Log[p]) - 1
      BY <1>2, <2>4 DEF TypeOK, FetchSkip, Advance, HasNext
    <3>2. Settled(<<p, position[i][p] + 1>>)
      BY <1>2, <2>4 DEF FetchSkip, NextRecord, Settled
    <3>3. position'[i][p] \in Positions(p)
      BY <3>1, LenLog DEF Positions
    <3>4. ASSUME NEW o \in 1 .. position'[i][p]
          PROVE  Settled(<<p, o>>)'
      <4>1. o \in 1 .. position[i][p] \/ o = position[i][p] + 1
        BY <3>1, LenLog
      <4> QED  BY <2>2, <3>2, <4>1, SettledStays DEF SettledTo
    <3> QED  BY <3>3, <3>4
  <2> QED  BY <2>3, <2>4
<1> QED  BY <1>1, <1>2
-----------------------------------------------------------------------------
(* Only CommitLands moves the committed offsets. *)
LEMMA CommittedMoves ==
  ASSUME [Next]_vars, committed' # committed
  PROVE  \E i \in Instances : CommitLands(i)
BY DEF Next, vars, Boot, Connect, ConnectFails, Fetch, FetchMatch, FetchSkip,
       FetchRaises, ForwardReturns, ForwardRaises, CommitFails, Cancel, Exit,
       Kill, Leave, Rebalance, Accept

LEMMA AtLeastOnceStep ==
  ASSUME TypeOK, AtLeastOnce, OffersSettled, [Next]_vars
  PROVE  AtLeastOnce'
<1> SUFFICES ASSUME NEW p \in Partitions
             PROVE  committed'[p] \in Positions(p) /\ SettledTo(p, committed[p])'
  BY DEF AtLeastOnce, Positions
<1>1. CASE committed'[p] = committed[p]
  BY <1>1, SettledStays DEF AtLeastOnce, SettledTo
<1>2. ASSUME NEW i \in Instances, CommitLands(i), committed'[p] # committed[p]
      PROVE  committed'[p] \in Positions(p) /\ SettledTo(p, committed[p])'
  <2>1. offer[i][p] # Unassigned /\ committed'[p] = offer[i][p]
    BY <1>2 DEF CommitLands
  <2> QED  BY <2>1, SettledStays DEF OffersSettled, SettledTo
<1> QED  BY <1>1, <1>2, CommittedMoves

LEMMA OffersSettledStep ==
  ASSUME TypeOK, PositionsSettled, ForwardsMatch, OffersSettled, [Next]_vars
  PROVE  OffersSettled'
<1> SUFFICES ASSUME NEW i \in Instances, NEW p \in Partitions,
                    offer'[i][p] # Unassigned
             PROVE  offer'[i][p] \in Positions(p) /\ SettledTo(p, offer[i][p])'
  BY DEF OffersSettled, Positions
<1>1. CASE offer'[i] = offer[i]
  BY <1>1, SettledStays DEF OffersSettled, SettledTo
<1>2. CASE ForwardReturns(i) \/ \E q \in Partitions : FetchSkip(i, q)
  <2>1. offer'[i] = position'[i]
    BY <1>2 DEF TypeOK, ForwardReturns, FetchSkip, CommitPositions
  <2> QED  BY <1>2, <2>1, OfferedPositions DEF SettledTo
<1>3. CASE offer'[i] = Nowhere
  BY <1>3 DEF Nowhere
<1>4. \/ offer'[i] = offer[i] \/ offer'[i] = Nowhere
      \/ ForwardReturns(i) \/ \E q \in Partitions : FetchSkip(i, q)
  BY StepsSeenBy
  DEF TypeOK, OwnStep, Boot, Connect, ConnectFails, Fetch, FetchMatch, FetchRaises,
      ForwardRaises, CommitLands, CommitFails, Cancel, Exit, Kill, Leave, Rebalance
<1> QED  BY <1>1, <1>2, <1>3, <1>4

LEMMA PositionsSettledStep ==
  ASSUME TypeOK, AtLeastOnce, PositionsSettled, ForwardsMatch, [Next]_vars
  PROVE  PositionsSettled'
<1> SUFFICES ASSUME NEW i \in Instances, NEW p \in Partitions,
                    position'[i][p] # Unassigned
             PROVE  /\ position'[i][p] \in Positions(p)
                    /\ \A o \in 1 .. position'[i][p] :
                         \/ Settled(<<p, o>>)'
                         \/ pc'[i] = "forward" /\ fwd'[i].ev = <<p, o>>
  BY DEF PositionsSettled, Positions
<1>1. CASE position'[i] = position[i] /\ pc'[i] = pc[i] /\ fwd'[i] = fwd[i]
  BY <1>1, SettledStays DEF PositionsSettled
<1>2. CASE position'[i] = position[i] /\ pc[i] # "forward"
  BY <1>2, PositionClosed, SettledStays DEF SettledTo
<1>3. CASE ForwardReturns(i) \/ \E q \in Partitions : FetchSkip(i, q)
  BY <1>3, OfferedPositions DEF SettledTo
<1>4. ASSUME NEW q \in Partitions, FetchMatch(i, q)
      PROVE  /\ position'[i][p] \in Positions(p)
             /\ \A o \in 1 .. position'[i][p] :
                  \/ Settled(<<p, o>>)'
                  \/ pc'[i] = "forward" /\ fwd'[i].ev = <<p, o>>
  <2>1. pc[i] # "forward" /\ position[i][p] # Unassigned
    BY <1>4, LenLog DEF TypeOK, FetchMatch, Advance, HasNext, Unassigned
  <2>2. position[i][p] \in Positions(p) /\ SettledTo(p, position[i][p])
    BY <2>1, PositionClosed
  <2>3. CASE p # q
    <3>1. position'[i][p] = position[i][p]
      BY <1>4, <2>3 DEF TypeOK, FetchMatch, Advance
    <3> QED  BY <2>2, <3>1, SettledStays DEF SettledTo
  <2>4. CASE p = q
    <3>1. /\ position'[i][p] = position[i][p] + 1
          /\ position[i][p] \in 0 .. Len(Log[p]) - 1
      BY <1>4, <2>4 DEF TypeOK, FetchMatch, Advance, HasNext
    <3>2. pc'[i] = "forward" /\ fwd'[i].ev = <<p, position[i][p] + 1>>
      BY <1>4, <2>4
      DEF TypeOK, FetchMatch, Goto, NextRecord, D!DeliveryTypeOK, D!Begin
    <3>3. position'[i][p] \in Positions(p)
      BY <3>1, LenLog DEF Positions
    <3>4. ASSUME NEW o \in 1 .. position'[i][p]
          PROVE  Settled(<<p, o>>)' \/ fwd'[i].ev = <<p, o>>
      <4>1. o \in 1 .. position[i][p] \/ o = position[i][p] + 1
        BY <3>1, LenLog
      <4> QED  BY <2>2, <3>2, <4>1, SettledStays DEF SettledTo
    <3> QED  BY <3>2, <3>3, <3>4
  <2> QED  BY <2>3, <2>4
<1>5. CASE position'[i][p] = committed[p]
  BY <1>5, SettledStays DEF AtLeastOnce, SettledTo
<1>6. CASE position'[i] = Nowhere
  BY <1>6 DEF Nowhere
<1>7. ASSUME NEW M \in SUBSET Instances, Rebalance(M)
      PROVE  \/ position'[i][p] = committed[p]
             \/ position'[i] = position[i] /\ pc'[i] = pc[i] /\ fwd'[i] = fwd[i]
  BY <1>7 DEF Rebalance, StartOf, delivery
<1>8. ASSUME Boot(i) \/ Connect(i) \/ Exit(i) \/ CommitLands(i)
      PROVE  \/ position'[i] = position[i] /\ pc'[i] = pc[i] /\ fwd'[i] = fwd[i]
             \/ position'[i] = position[i] /\ pc[i] # "forward"
  BY <1>8 DEF TypeOK, Boot, Connect, Exit, CommitLands, delivery
<1>9. ASSUME ConnectFails(i) \/ ForwardRaises(i) \/ CommitFails(i)
             \/ Cancel(i) \/ Kill(i) \/ \E q \in Partitions : FetchRaises(i, q)
      PROVE  position'[i] = Nowhere
  BY <1>9 DEF TypeOK, ConnectFails, ForwardRaises, CommitFails, Cancel, Kill,
              FetchRaises, Leave
<1> QED
  BY <1>1, <1>2, <1>3, <1>4, <1>5, <1>6, <1>7, <1>8, <1>9, StepsSeenBy
  DEF OwnStep, Fetch

LEMMA InOrderStep ==
  ASSUME TypeOK, PositionsSettled, InOrder, [Next]_vars
  PROVE  InOrder'
<1> SUFFICES ASSUME NEW r \in begun', NEW o \in 1 .. r[2] - 1
             PROVE  Settled(<<r[1], o>>)'
  BY DEF InOrder, SettledTo
<1>1. CASE r \in begun
  BY <1>1, SettledStays DEF InOrder, SettledTo
<1>2. ASSUME NEW i \in Instances, NEW p \in Partitions, FetchMatch(i, p), r \notin begun
      PROVE  Settled(<<r[1], o>>)'
  <2>1. r = <<p, position[i][p] + 1>>
    BY <1>2 DEF FetchMatch, NextRecord, D!Begin
  <2>2. pc[i] # "forward" /\ position[i][p] # Unassigned /\ position[i][p] \in Nat
    BY <1>2, LenLog DEF TypeOK, FetchMatch, HasNext, Unassigned
  <2>3. r[1] = p /\ o \in 1 .. position[i][p]
    BY <2>1, <2>2
  <2> QED  BY <2>2, <2>3, PositionClosed, SettledStays DEF SettledTo
<1>3. begun' # begun => \E i \in Instances, p \in Partitions : FetchMatch(i, p)
  BY DEF Next, vars, delivery, Boot, Connect, ConnectFails, Fetch, FetchSkip,
         FetchRaises, ForwardReturns, ForwardRaises, CommitLands, CommitFails,
         Cancel, Exit, Kill, Interrupted, Rebalance, Accept, D!Accept,
         D!Succeed, D!GiveUp, D!Raise
<1> QED  BY <1>1, <1>2, <1>3

(* IInv is inductive. *)
LEMMA IInvStep == IInv /\ [Next]_vars => IInv'
BY TypeOKStep, AtLeastOnceStep, InOrderStep, ForwardsMatchStep,
   PositionsSettledStep, OffersSettledStep
DEF IInv

(* The committed offset of a partition, which decides what is never read   *)
(* again, is never past a record that was not dealt with.                  *)
THEOREM ConsumerAtLeastOnce == Spec => []AtLeastOnce
<1>1. IInv => AtLeastOnce
  BY DEF IInv
<1> QED  BY InitIInv, IInvStep, <1>1, PTL DEF Spec

(* A record is handed to forward() only when all the earlier ones of its   *)
(* partition are dealt with.                                               *)
THEOREM ConsumerInOrder == Spec => []InOrder
<1>1. IInv => InOrder
  BY DEF IInv
<1> QED  BY InitIInv, IInvStep, <1>1, PTL DEF Spec
-----------------------------------------------------------------------------
(* A step that is no rebalance, connects nobody and lands no commit: what  *)
(* an instance holds it held before, positions only grow, and a new offer  *)
(* is the position itself.                                                 *)
Quiet ==
  /\ members' = members /\ committed' = committed
  /\ \A i \in Instances, p \in Partitions :
       /\ Holds(i, p)' => Holds(i, p)
       /\ position'[i][p] # Unassigned =>
            position[i][p] # Unassigned /\ position[i][p] <= position'[i][p]
       /\ \/ offer'[i][p] = offer[i][p]
          \/ offer'[i][p] = position'[i][p]

LEMMA QuietStep ==
  ASSUME TypeOK, NEW i \in Instances,
         \/ Boot(i) \/ ConnectFails(i) \/ Fetch(i) \/ ForwardReturns(i)
         \/ ForwardRaises(i) \/ CommitFails(i) \/ Cancel(i) \/ Exit(i) \/ Kill(i)
  PROVE  Quiet
<1>1. members' = members /\ committed' = committed
  BY DEF Boot, ConnectFails, Fetch, FetchMatch, FetchSkip, FetchRaises,
         ForwardReturns, ForwardRaises, CommitFails, Cancel, Exit, Kill, Leave
<1> SUFFICES ASSUME NEW j \in Instances, NEW p \in Partitions
             PROVE  /\ Holds(j, p)' => Holds(j, p)
                    /\ position'[j][p] # Unassigned =>
                         position[j][p] # Unassigned /\ position[j][p] <= position'[j][p]
                    /\ offer'[j][p] = offer[j][p] \/ offer'[j][p] = position'[j][p]
  BY <1>1 DEF Quiet
<1>2. CASE j # i
  BY <1>2, Frame DEF TypeOK, Holds, Unassigned
<1>3. CASE j = i /\ position' = position /\ offer' = offer
  BY <1>3 DEF TypeOK, Holds, Unassigned
<1>4. ASSUME j = i, NEW l, Leave(i, l)
      PROVE  position'[j][p] = Unassigned /\ offer'[j][p] = offer[j][p]
  BY <1>4 DEF TypeOK, Leave, Nowhere
<1>5. ASSUME j = i, ForwardReturns(i)
      PROVE  offer'[j][p] = position'[j][p] /\ position'[j][p] = position[j][p]
  BY <1>5 DEF TypeOK, ForwardReturns, CommitPositions
<1>6. ASSUME j = i, NEW q \in Partitions, FetchMatch(i, q) \/ FetchSkip(i, q)
      PROVE  /\ offer'[j][p] = offer[j][p] \/ offer'[j][p] = position'[j][p]
             /\ \/ position'[j][p] = position[j][p]
                \/ /\ position[j][p] \in Nat
                   /\ position'[j][p] = position[j][p] + 1
  BY <1>6, LenLog
  DEF TypeOK, FetchMatch, FetchSkip, CommitPositions, Advance, HasNext, Unassigned
<1> QED
  BY <1>2, <1>3, <1>4, <1>5, <1>6
  DEF TypeOK, Holds, Unassigned, Boot, Exit, ConnectFails, Fetch, FetchRaises,
      ForwardRaises, CommitFails, Cancel, Kill

LEMMA GroupInvStep == GroupInv /\ [Next]_vars => GroupInv'
<1> SUFFICES ASSUME GroupInv, [Next]_vars
             PROVE  HeldByOne' /\ NeverBehind'
  BY TypeOKStep DEF GroupInv
<1>1. TypeOK
  BY DEF GroupInv
<1>2. ASSUME Quiet
      PROVE  HeldByOne' /\ NeverBehind'
  <2>1. HeldByOne'
    BY <1>1, <1>2 DEF TypeOK, Quiet, GroupInv, HeldByOne
  <2>2. NeverBehind'
    <3> SUFFICES ASSUME NEW i \in members', NEW p \in Partitions
                 PROVE  /\ position'[i][p] # Unassigned =>
                             /\ committed'[p] <= position'[i][p]
                             /\ offer'[i][p] <= position'[i][p]
                        /\ offer'[i][p] # Unassigned => committed'[p] <= offer'[i][p]
      BY DEF NeverBehind
    <3>1. i \in members /\ i \in Instances /\ committed' = committed
      BY <1>1, <1>2 DEF TypeOK, Quiet
    <3>2. /\ position'[i][p] \in Nat \cup {Unassigned}
          /\ offer'[i][p] \in Nat \cup {Unassigned}
          /\ position[i][p] \in Nat \cup {Unassigned}
          /\ offer[i][p] \in Nat \cup {Unassigned}
          /\ committed[p] \in Nat
      BY <1>1, <3>1, TypeOKStep DEF TypeOK
    <3>3. /\ position[i][p] # Unassigned =>
               committed[p] <= position[i][p] /\ offer[i][p] <= position[i][p]
          /\ offer[i][p] # Unassigned => committed[p] <= offer[i][p]
      BY <3>1 DEF GroupInv, NeverBehind
    <3>4. /\ position'[i][p] # Unassigned =>
               position[i][p] # Unassigned /\ position[i][p] <= position'[i][p]
          /\ offer'[i][p] = offer[i][p] \/ offer'[i][p] = position'[i][p]
      BY <1>2, <3>1 DEF Quiet
    <3> QED  BY <3>1, <3>2, <3>3, <3>4 DEF Unassigned
  <2> QED  BY <2>1, <2>2
<1>3. ASSUME NEW i \in Instances, Connect(i)
      PROVE  HeldByOne' /\ NeverBehind'
  BY <1>1, <1>3
  DEF TypeOK, Connect, GroupInv, HeldByOne, NeverBehind, Holds, Nowhere
<1>4. ASSUME NEW i \in Instances, CommitLands(i)
      PROVE  HeldByOne' /\ NeverBehind'
  <2>1. HeldByOne'
    BY <1>1, <1>4
    DEF TypeOK, CommitLands, GroupInv, HeldByOne, Holds, Nowhere
  <2>2. NeverBehind'
    <3> SUFFICES ASSUME NEW j \in members, NEW p \in Partitions
                 PROVE  /\ position[j][p] # Unassigned =>
                             /\ committed'[p] <= position[j][p]
                             /\ offer'[j][p] <= position[j][p]
                        /\ offer'[j][p] # Unassigned => committed'[p] <= offer'[j][p]
      BY <1>4 DEF CommitLands, NeverBehind
    <3>1. /\ position[j][p] # Unassigned =>
               committed[p] <= position[j][p] /\ offer[j][p] <= position[j][p]
          /\ offer[j][p] # Unassigned => committed[p] <= offer[j][p]
      BY DEF GroupInv, NeverBehind
    <3>2. CASE j = i
      <4>1. /\ offer'[j][p] = Unassigned
            /\ committed'[p] = IF offer[j][p] = Unassigned THEN committed[p] ELSE offer[j][p]
        BY <1>1, <1>4, <3>2 DEF TypeOK, CommitLands, Nowhere
      <4> QED  BY <1>1, <3>1, <4>1 DEF TypeOK, Unassigned
    <3>3. CASE j # i
      <4>1. offer'[j][p] = offer[j][p]
        BY <1>1, <1>4, <3>3 DEF TypeOK, CommitLands
      <4>2. Holds(j, p) => committed'[p] = committed[p]
        BY <1>4, <3>3 DEF CommitLands, GroupInv, HeldByOne, Holds
      <4> QED  BY <3>1, <4>1, <4>2 DEF Holds
    <3> QED  BY <3>2, <3>3
  <2> QED  BY <2>1, <2>2
<1>5. ASSUME NEW M \in SUBSET Instances, Rebalance(M)
      PROVE  HeldByOne' /\ NeverBehind'
  <2>1. PICK owner \in [Partitions -> M] :
          \A i \in M, p \in Partitions :
            position'[i][p] = IF owner[p] = i THEN committed[p] ELSE Unassigned
    BY <1>5 DEF Rebalance, StartOf
  <2>2. \A i \in Instances, p \in Partitions : offer'[i][p] = Unassigned
    BY <1>5 DEF Rebalance, Nowhere
  <2>3. members' = M /\ committed' = committed
    BY <1>5 DEF Rebalance
  <2>4. HeldByOne'
    BY <2>1, <2>2, <2>3 DEF HeldByOne, Holds
  <2>5. NeverBehind'
    BY <1>1, <2>1, <2>2, <2>3 DEF TypeOK, NeverBehind, Unassigned
  <2> QED  BY <2>4, <2>5
<1>6. CASE UNCHANGED <<committed, members, position, offer>>
  BY <1>6 DEF GroupInv, HeldByOne, NeverBehind, Holds
<1> QED
  BY <1>1, <1>2, <1>3, <1>4, <1>5, <1>6, QuietStep DEF Next, vars, Accept

(* A commit that lands is that of the holder, which is not behind. *)
LEMMA CommitAdvances ==
  GroupInv /\ [Next]_vars => [\A p \in Partitions : committed'[p] >= committed[p]]_vars
<1> SUFFICES ASSUME GroupInv, [Next]_vars, NEW p \in Partitions
             PROVE  committed'[p] >= committed[p]
  OBVIOUS
<1>1. committed[p] \in Nat
  BY DEF GroupInv, TypeOK
<1>2. ASSUME NEW i \in Instances, CommitLands(i)
      PROVE  committed'[p] >= committed[p]
  <2>1. offer[i][p] # Unassigned => committed[p] <= offer[i][p]
    BY <1>2 DEF CommitLands, GroupInv, NeverBehind
  <2>2. committed'[p] = IF offer[i][p] = Unassigned THEN committed[p] ELSE offer[i][p]
    BY <1>2 DEF CommitLands
  <2>3. offer[i][p] \in Nat \cup {Unassigned}
    BY DEF GroupInv, TypeOK
  <2> QED  BY <1>1, <2>1, <2>2, <2>3 DEF Unassigned
<1> QED  BY <1>1, <1>2, CommittedMoves

(* Neither a late commit nor that of an evicted instance undoes the work   *)
(* of the instance that took a partition over.                             *)
THEOREM ConsumerNeverRegresses == Spec => CommittedNeverRegresses
<1>1. Init => GroupInv
  BY InitTypeOK DEF Init, GroupInv, HeldByOne, NeverBehind
<1> QED  BY <1>1, GroupInvStep, CommitAdvances, PTL DEF Spec, CommittedNeverRegresses

(* The loop uses forward() as its abstract specification allows. *)
THEOREM ConsumerUsesDelivery == Spec => D!Spec
<1>1. Init => D!Init
  BY DEF Init
<1>2. [Next]_vars => [D!Next]_(D!deliveryVars)
  BY StepIsDeliveryStep DEF delivery, D!deliveryVars
<1> QED  BY <1>1, <1>2, PTL DEF Spec, D!Spec
-----------------------------------------------------------------------------
(* An instance's task as module TaskLife sees it. *)
Life(i) ==
  CASE pc[i] = "off" -> "off"
    [] pc[i] = "connect" -> "connect"
    [] pc[i] \in InLoop -> "loop"
    [] pc[i] \in {"crashed", "stopped"} -> "ended"

T(i) == INSTANCE TaskLife WITH task <- Life(i)

(* The moves of one task, in terms of the loop's own states.               *)
LEMMA PcFollows ==
  ASSUME TypeOK, NEW i \in Instances,
         \/ pc'[i] = pc[i]
         \/ pc[i] = "off" /\ pc'[i] = "connect"
         \/ pc[i] = "connect" /\ pc'[i] = "poll"
         \/ pc[i] \in InLoop /\ pc'[i] \in InLoop
         \/ pc[i] \in InLoop \cup {"connect"} /\ pc'[i] \in {"crashed", "stopped"}
         \/ pc[i] # "off" /\ pc'[i] = "off"
  PROVE  [T(i)!Next]_(Life(i))
<1>1. pc[i] \in InLoop \cup {"off", "connect", "crashed", "stopped"}
  BY DEF TypeOK
<1> QED  BY <1>1 DEF Life, InLoop, T!Next, T!Boot, T!Connect, T!End, T!Exit

LEMMA EveryTaskFollows ==
  ASSUME TypeOK, [Next]_vars, NEW i \in Instances
  PROVE  [T(i)!Next]_(Life(i))
<1>1. pc \in [Instances -> InLoop \cup {"off", "connect", "crashed", "stopped"}]
  BY DEF TypeOK
<1>2. CASE UNCHANGED pc
  BY <1>2, PcFollows
<1>3. ASSUME NEW j \in Instances,
             \/ Boot(j) \/ Connect(j) \/ ConnectFails(j)
             \/ Fetch(j) \/ ForwardReturns(j) \/ ForwardRaises(j)
             \/ CommitLands(j) \/ CommitFails(j)
             \/ Cancel(j) \/ Exit(j) \/ Kill(j)
      PROVE  [T(i)!Next]_(Life(i))
  <2>1. PICK l : pc' = [pc EXCEPT ![j] = l] /\
           \/ l = pc[j]
           \/ pc[j] = "off" /\ l = "connect"
           \/ pc[j] = "connect" /\ l = "poll"
           \/ pc[j] \in InLoop /\ l \in InLoop
           \/ pc[j] \in InLoop \cup {"connect"} /\ l \in {"crashed", "stopped"}
           \/ pc[j] # "off" /\ l = "off"
    <3>1. CASE Boot(j) \/ Connect(j) \/ ConnectFails(j)
      BY <3>1 DEF Boot, Connect, ConnectFails, Leave, Goto
    <3>2. CASE Fetch(j)
      BY <3>2
      DEF Fetch, FetchMatch, FetchSkip, FetchRaises, CommitPositions, Leave, Goto, InLoop
    <3>3. CASE ForwardReturns(j) \/ ForwardRaises(j)
      BY <3>3 DEF ForwardReturns, ForwardRaises, CommitPositions, Leave, Goto, InLoop
    <3>4. CASE CommitLands(j) \/ CommitFails(j)
      BY <3>4 DEF CommitLands, CommitFails, Leave, Goto, InLoop
    <3>5. CASE Cancel(j) \/ Exit(j) \/ Kill(j)
      BY <3>5 DEF Cancel, Exit, Kill, Leave, Goto
    <3> QED  BY <1>3, <3>1, <3>2, <3>3, <3>4, <3>5
  <2>2. CASE i = j
    <3>1. pc'[i] = l
      BY <1>1, <2>1, <2>2
    <3> QED  BY <2>1, <2>2, <3>1, PcFollows
  <2>3. CASE i # j
    <3>1. pc'[i] = pc[i]
      BY <1>1, <2>1, <2>3
    <3> QED  BY <3>1, PcFollows
  <2> QED  BY <2>2, <2>3
<1> QED  BY <1>2, <1>3 DEF Next, Rebalance, Accept, vars

(* The other half of the contract about tasks: this model lets the task of *)
(* an instance do nothing that TaskLife does not, as the container does    *)
(* (TasksLive of module Lifecycle).                                        *)
THEOREM ConsumerLivesAsTaskLife ==
  Spec => /\ \A i \in Instances : T(i)!Init
          /\ [][\A i \in Instances : [T(i)!Next]_(Life(i))]_vars
<1>1. Init => \A i \in Instances : T(i)!Init
  BY DEF Init, T!Init, Life, InLoop
<1>2. TypeOK /\ [Next]_vars => \A i \in Instances : [T(i)!Next]_(Life(i))
  BY EveryTaskFollows
<1> QED  BY <1>1, <1>2, TypeCorrect, PTL DEF Spec
=============================================================================
