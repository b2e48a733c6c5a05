------------------------- MODULE FilterConfigProofs -------------------------
(***************************************************************************)
(* Proofs about module FilterConfig, for any number of instances,          *)
(* pipelines and bodies.                                                   *)
(***************************************************************************)
EXTENDS FilterConfig, TLAPS

(* The invariants the proofs rest on: why the properties hold.             *)

UpdatesOf(m) == {i \in Instances : put[i] # NoPut /\ StoreOf(i) = m}

(* What a request has read is, with one writer, what it will find again.   *)
ReadIsCurrent ==
  OneWriter => \A m \in Stores : \A i \in UpdatesOf(m), p \in Pipelines :
    put[i].data[p] \in {latest[m][p]} \cup (IF forgetful THEN {Absent} ELSE {})

StoreInv == TypeOK /\ ReadIsCurrent /\ NeverAnOlderOne /\ StoreIsLatest

(* The engine of an accepted update is that of the last body written, a    *)
(* good one.                                                               *)
AcceptedIsLatest ==
  OneWriter => \A i \in up, p \in Pipelines :
    answered[i][p] = "ok" =>
      LET body == latest[StoreOf(i)][p]
      IN  /\ body # Absent /\ Quality[body] = "good"
          /\ engine[i][p] = Whole(body) /\ config[i][p] = engine[i][p]
-----------------------------------------------------------------------------
LEMMA Origin == \A b \in Bodies : b # Environment /\ b # Absent
BY OriginAssumption

LEMMA StoreOfType == \A i \in Instances : StoreOf(i) \in Stores
BY DEF StoreOf, Stores

LEMMA EmptyIsContent == Empty \in Content
BY DEF Empty, Content

(* What the handler makes of a setting. *)
LEMMA ReconfiguredType ==
  ASSUME NEW s \in Settings, NEW b \in Bodies
  PROVE  Reconfigured(s, b) \in Settings
<1>1. [s EXCEPT !.field = b] \in Settings /\ Whole(b) \in Settings
  BY DEF Settings, Origins, Whole
<1> QED  BY <1>1 DEF Reconfigured

LEMMA ReconfiguredByGood ==
  ASSUME NEW s, NEW b, Quality[b] = "good"
  PROVE  Reconfigured(s, b) = Whole(b)
BY DEF Reconfigured

LEMMA InitTypeOK == Init => TypeOK
<1> SUFFICES ASSUME Init PROVE TypeOK
  OBVIOUS
<1>1. Whole(Environment) \in Settings /\ Empty \in Content
  BY EmptyIsContent DEF Settings, Origins, Whole
<1>2. shared \in BOOLEAN /\ forgetful \in BOOLEAN
  BY DEF Init
<1> QED  BY <1>1, <1>2, FilterConfigAssumption DEF Init, TypeOK

(* A request under way has its three parts. *)
LEMMA PutType ==
  ASSUME TypeOK, NEW i \in Instances, put[i] # NoPut
  PROVE  put[i].env \in Pipelines /\ put[i].body \in Bodies /\ put[i].data \in Content
BY DEF TypeOK

LEMMA TypeOKStep ==
  ASSUME TypeOK, [Next]_vars
  PROVE  TypeOK'
<1> USE FilterConfigAssumption DEF TypeOK
<1>1. ASSUME NEW i \in Instances, Start(i)
      PROVE  TypeOK'
  BY <1>1 DEF Start, Settings, Origins, Whole
<1>2. ASSUME NEW i \in Instances, Stop(i)
      PROVE  TypeOK'
  <2>1. store' \in [Stores -> Content]
    <3>1. CASE UNCHANGED <<store, forgetful>>
      BY <3>1
    <3>2. CASE FileLost(i)
      BY <3>2, EmptyIsContent DEF FileLost
    <3> QED  BY <1>2, <3>1, <3>2 DEF Stop
  <2>2. forgetful' \in BOOLEAN
    BY <1>2 DEF Stop, FileLost
  <2> QED  BY <1>2, <2>1, <2>2 DEF Stop, Disrupt, pipelineState
<1>3. ASSUME NEW i \in Instances, NEW p \in Pipelines, NEW b \in Bodies, Load(i, p, b)
      PROVE  TypeOK'
  <2>1. PICK content \in Content :
          /\ put' = [put EXCEPT ![i] = [env |-> p, body |-> b, data |-> content]]
          /\ Loads(StoreOf(i), content)
    <3>1. store[StoreOf(i)] \in Content
      BY StoreOfType
    <3> QED  BY <1>3, <3>1, EmptyIsContent DEF Load
  <2>2. disruptions' \in 0 .. MaxDisruptions
    BY <2>1 DEF Loads, Disrupt
  <2>3. forgetful' \in BOOLEAN
    BY <2>1, Zenon DEF Loads
  <2> QED  BY <1>3, <2>1, <2>2, <2>3 DEF Load, pipelineState
<1>4. ASSUME NEW i \in Instances, put[i] # NoPut, Saved(i)
      PROVE  store' \in [Stores -> Content] /\ latest' \in [Stores -> Content]
  BY <1>4, PutType, StoreOfType DEF Saved, ToSave, Content
<1>5. ASSUME NEW i \in Instances, Update(i)
      PROVE  TypeOK'
  <2>1. put[i].env \in Pipelines /\ put[i].body \in Bodies
    BY <1>5, PutType DEF Update
  <2>2. config' \in [Instances -> [Pipelines -> Settings]]
    <3>0. config[i][put[i].env] \in Settings
      BY <2>1
    <3>1. Reconfigured(config[i][put[i].env], put[i].body) \in Settings
      BY <2>1, <3>0, ReconfiguredType
    <3> QED  BY <1>5, <2>1, <3>1 DEF Update, Apply
  <2>3. engine' \in [Instances -> [Pipelines -> Settings]]
    BY <1>5, <2>1, <2>2 DEF Update, Apply
  <2>4. /\ answered' \in [Instances -> [Pipelines -> {"none", "ok", "error"}]]
        /\ put' = [put EXCEPT ![i] = NoPut]
    BY <1>5, <2>1 DEF Update, Apply, Respond
  <2> QED  BY <1>4, <1>5, <2>2, <2>3, <2>4 DEF Update
<1>6. ASSUME NEW i \in Instances, SaveFails(i)
      PROVE  TypeOK'
  <2>1. store' \in [Stores -> Content] /\ latest' \in [Stores -> Content]
    <3>1. CASE UNCHANGED <<store, latest, forgetful>>
      BY <3>1
    <3>2. CASE Saved(i)
      BY <1>4, <1>6, <3>2 DEF SaveFails
    <3>3. CASE FileLost(i) /\ UNCHANGED latest
      BY <3>3, EmptyIsContent DEF FileLost
    <3> QED  BY <1>6, <3>1, <3>2, <3>3 DEF SaveFails
  <2>2. /\ answered' \in [Instances -> [Pipelines -> {"none", "ok", "error"}]]
        /\ put' = [put EXCEPT ![i] = NoPut]
    BY <1>6, PutType DEF SaveFails, Respond
  <2>3. forgetful' \in BOOLEAN
    BY <1>6 DEF SaveFails, FileLost
  <2> QED  BY <1>6, <2>1, <2>2, <2>3 DEF SaveFails, Disrupt
<1>7. CASE UNCHANGED vars
  BY <1>7 DEF vars, pipelineState
<1> QED  BY <1>1, <1>2, <1>3, <1>5, <1>6, <1>7 DEF Next
-----------------------------------------------------------------------------
LEMMA InitEngineWhole == Init => EngineWhole
BY DEF Init, EngineWhole

LEMMA EngineWholeStep ==
  ASSUME TypeOK, EngineWhole, [Next]_vars
  PROVE  EngineWhole'
<1> USE DEF TypeOK, EngineWhole
<1>1. ASSUME NEW i \in Instances, Start(i)
      PROVE  EngineWhole'
  BY <1>1 DEF Start
<1>2. ASSUME NEW i \in Instances, Update(i)
      PROVE  EngineWhole'
  <2>1. put[i].env \in Pipelines /\ put[i].body \in Bodies
    BY <1>2, PutType DEF Update
  <2>2. CASE Quality[put[i].body] = "good"
    BY <1>2, <2>1, <2>2, ReconfiguredByGood DEF Update, Apply, Respond
  <2>3. CASE Quality[put[i].body] # "good"
    BY <1>2, <2>1, <2>3 DEF Update, Apply, Respond
  <2> QED  BY <2>2, <2>3
<1>3. ASSUME NEW i \in Instances, SaveFails(i)
      PROVE  EngineWhole'
  <2>1. put[i].env \in Pipelines
    BY <1>3, PutType DEF SaveFails
  <2> QED  BY <1>3, <2>1 DEF SaveFails, Respond
<1>4. CASE UNCHANGED <<config, engine, answered>>
  BY <1>4
<1> QED
  BY <1>1, <1>2, <1>3, <1>4 DEF Next, Stop, Load, vars, pipelineState

(* Instances, configs, requests and stores have their types. *)
THEOREM FilterConfigTypeCorrect == Spec => []TypeOK
<1> QED  BY InitTypeOK, TypeOKStep, PTL DEF Spec

(* No rejected update, failed store or restart ever leaves an instance     *)
(* with an engine made of two updates or of one that does not parse.       *)
THEOREM FilterConfigEngineWhole == Spec => []EngineWhole
<1>1. TypeOK /\ EngineWhole /\ [Next]_vars => EngineWhole'
  BY EngineWholeStep
<1> QED  BY <1>1, InitEngineWhole, FilterConfigTypeCorrect, PTL DEF Spec
-----------------------------------------------------------------------------
(* A step of one instance leaves the store of another alone when no two    *)
(* write to the same one.                                                  *)
LEMMA OwnStore ==
  ASSUME OneWriter, NEW i \in Instances, NEW j \in Instances, StoreOf(i) = StoreOf(j)
  PROVE  i = j
BY DEF OneWriter, StoreOf

LEMMA InitStoreInv == Init => StoreInv
<1> SUFFICES ASSUME Init PROVE StoreInv
  OBVIOUS
<1>1. TypeOK
  BY InitTypeOK
<1>2. ReadIsCurrent /\ NeverAnOlderOne /\ StoreIsLatest
  BY DEF Init, ReadIsCurrent, UpdatesOf, NeverAnOlderOne, StoreIsLatest
<1> QED  BY <1>1, <1>2 DEF StoreInv

(* The setting that tells the stores apart never changes, and what a read  *)
(* or a file has forgotten stays forgotten.                                *)
LEMMA SharedFixed ==
  ASSUME TypeOK, [Next]_vars
  PROVE  shared' = shared /\ (forgetful => forgetful')
<1>1. ASSUME NEW i \in Instances, Stop(i) \/ SaveFails(i)
      PROVE  shared' = shared /\ (forgetful => forgetful')
  BY <1>1 DEF Stop, SaveFails, FileLost
<1>2. ASSUME NEW i \in Instances, NEW p \in Pipelines, NEW b \in Bodies, Load(i, p, b)
      PROVE  shared' = shared /\ (forgetful => forgetful')
  BY <1>2 DEF Load, Loads
<1> QED  BY <1>1, <1>2 DEF Next, Start, Update, vars

LEMMA StoreOfFixed ==
  ASSUME shared' = shared
  PROVE  \A i \in Instances : StoreOf(i)' = StoreOf(i)
BY DEF StoreOf

(* What save() writes when it comes through. *)
LEMMA SavedKeeps ==
  ASSUME StoreInv, NEW i \in Instances, put[i] # NoPut, Saved(i), OneWriter,
         forgetful' = forgetful
  PROVE  NeverAnOlderOne' /\ StoreIsLatest'
<1> DEFINE m == StoreOf(i)
<1> USE DEF StoreInv, TypeOK
<1>1. m \in Stores /\ put[i].env \in Pipelines /\ put[i].data \in Content
  BY StoreOfType, PutType
<1>2. /\ store' = [store EXCEPT ![m] = ToSave(i)]
      /\ latest' = [latest EXCEPT ![m][put[i].env] = put[i].body]
  BY DEF Saved
<1>3. \A p \in Pipelines :
        put[i].data[p] \in {latest[m][p]} \cup (IF forgetful THEN {Absent} ELSE {})
  BY <1>1 DEF ReadIsCurrent, UpdatesOf
<1>4. \A p \in Pipelines :
        ToSave(i)[p] \in {latest'[m][p]} \cup (IF forgetful THEN {Absent} ELSE {})
  BY <1>1, <1>2, <1>3 DEF ToSave, Content
<1>5. NeverAnOlderOne'
  BY <1>1, <1>2, <1>4 DEF NeverAnOlderOne
<1>6. ASSUME ~forgetful PROVE store' = latest'
  <2>1. ToSave(i) = latest'[m]
    BY <1>1, <1>2, <1>4, <1>6 DEF ToSave, Content
  <2>2. \A n \in Stores : store'[n] = latest'[n]
    BY <1>1, <1>2, <1>6, <2>1 DEF StoreIsLatest
  <2> QED  BY <1>1, <1>2, <2>1, <1>6 DEF StoreIsLatest
<1> QED  BY <1>5, <1>6 DEF StoreIsLatest

(* While a request is under way nobody else writes to its store. *)
LEMMA OtherReads ==
  ASSUME OneWriter, TypeOK, ReadIsCurrent, NEW i \in Instances,
         put' = [put EXCEPT ![i] = NoPut],
         shared' = shared, forgetful => forgetful',
         \A m \in Stores : m # StoreOf(i) => latest'[m] = latest[m]
  PROVE  ReadIsCurrent'
<1> SUFFICES ASSUME NEW m \in Stores, NEW j \in UpdatesOf(m)', NEW p \in Pipelines
             PROVE  put'[j].data[p] \in
                      {latest'[m][p]} \cup (IF forgetful' THEN {Absent} ELSE {})
  BY DEF ReadIsCurrent
<1>1. j \in Instances /\ j # i /\ put'[j] = put[j] /\ j \in UpdatesOf(m)
  BY StoreOfFixed DEF UpdatesOf, TypeOK
<1>2. m # StoreOf(i)
  BY <1>1, OwnStore DEF UpdatesOf
<1> QED  BY <1>1, <1>2 DEF ReadIsCurrent

LEMMA StoreInvStep ==
  ASSUME StoreInv, [Next]_vars
  PROVE  StoreInv'
<1> USE DEF StoreInv
<1>1. TypeOK'
  BY TypeOKStep
<1>2. shared' = shared /\ (forgetful => forgetful')
  BY SharedFixed
<1> DEFINE Kept == ReadIsCurrent' /\ NeverAnOlderOne' /\ StoreIsLatest'
<1>3. CASE ~OneWriter
  BY <1>1, <1>2, <1>3 DEF OneWriter, ReadIsCurrent, NeverAnOlderOne, StoreIsLatest
<1>4. CASE OneWriter
  <2>1. ASSUME NEW i \in Instances, FileLost(i), UNCHANGED latest
        PROVE  NeverAnOlderOne' /\ StoreIsLatest'
    BY <1>4, <2>1 DEF FileLost, Empty, NeverAnOlderOne, StoreIsLatest, TypeOK, Stores
  <2>2. ASSUME UNCHANGED <<put, store, latest, forgetful>>
        PROVE  Kept
    BY <1>2, <1>4, <2>2, StoreOfFixed
    DEF ReadIsCurrent, UpdatesOf, NeverAnOlderOne, StoreIsLatest
  <2>3. ASSUME NEW i \in Instances, Stop(i)
        PROVE  Kept
    <3>1. ReadIsCurrent'
      BY <1>2, <1>4, <2>3, OtherReads DEF Stop
    <3>2. NeverAnOlderOne' /\ StoreIsLatest'
      BY <1>4, <2>1, <2>3 DEF Stop, NeverAnOlderOne, StoreIsLatest
    <3> QED  BY <3>1, <3>2
  <2>4. ASSUME NEW i \in Instances, NEW p \in Pipelines, NEW b \in Bodies, Load(i, p, b)
        PROVE  Kept
    <3>1. PICK content \in {store[StoreOf(i)], Empty} :
            /\ put' = [put EXCEPT ![i] = [env |-> p, body |-> b, data |-> content]]
            /\ Loads(StoreOf(i), content)
      BY <2>4 DEF Load
    <3>2. UNCHANGED <<store, latest>>
      BY <2>4 DEF Load
    <3>3. \A q \in Pipelines :
            content[q] \in {latest[StoreOf(i)][q]} \cup (IF forgetful' THEN {Absent} ELSE {})
      <4>1. CASE content = store[StoreOf(i)] /\ UNCHANGED forgetful
        BY <1>4, <4>1, StoreOfType DEF NeverAnOlderOne, StoreIsLatest
      <4>2. CASE content = Empty /\ forgetful'
        BY <4>2 DEF Empty
      <4> QED  BY <3>1, <4>1, <4>2 DEF Loads
    <3>4. ReadIsCurrent'
      <4> SUFFICES ASSUME NEW m \in Stores, NEW j \in UpdatesOf(m)', NEW q \in Pipelines
                   PROVE  put'[j].data[q] \in
                            {latest[m][q]} \cup (IF forgetful' THEN {Absent} ELSE {})
        BY <3>2 DEF ReadIsCurrent
      <4>1. j \in Instances /\ StoreOf(j) = m
        BY <1>2, StoreOfFixed DEF UpdatesOf
      <4>2. CASE j = i
        BY <3>1, <3>3, <4>1, <4>2 DEF TypeOK
      <4>3. CASE j # i
        <5>1. put'[j] = put[j] /\ j \in UpdatesOf(m)
          BY <3>1, <4>1, <4>3 DEF UpdatesOf, TypeOK
        <5> QED  BY <1>2, <1>4, <5>1 DEF ReadIsCurrent
      <4> QED  BY <4>2, <4>3
    <3> QED  BY <1>2, <1>4, <3>2, <3>4 DEF NeverAnOlderOne, StoreIsLatest
  <2>5. ASSUME NEW i \in Instances, put[i] # NoPut, Saved(i), put' = [put EXCEPT ![i] = NoPut],
               forgetful' = forgetful
        PROVE  Kept
    <3>1. \A m \in Stores : m # StoreOf(i) => latest'[m] = latest[m]
      BY <2>5 DEF Saved, TypeOK
    <3> QED  BY <1>2, <1>4, <2>5, <3>1, OtherReads, SavedKeeps
  <2>6. ASSUME NEW i \in Instances, Update(i)
        PROVE  Kept
    BY <2>5, <2>6 DEF Update, Apply, Respond
  <2>7. ASSUME NEW i \in Instances, SaveFails(i)
        PROVE  Kept
    <3>1. put[i] # NoPut /\ put' = [put EXCEPT ![i] = NoPut]
      BY <2>7 DEF SaveFails, Respond
    <3>2. CASE Saved(i) /\ UNCHANGED forgetful
      BY <2>5, <3>1, <3>2
    <3>3. CASE UNCHANGED latest
      <4>1. ReadIsCurrent'
        BY <1>2, <1>4, <3>1, <3>3, OtherReads
      <4>2. CASE UNCHANGED <<store, latest, forgetful>>
        BY <1>4, <4>1, <4>2 DEF NeverAnOlderOne, StoreIsLatest
      <4>3. CASE FileLost(i)
        BY <2>1, <3>3, <4>1, <4>3
      <4>4. CASE Saved(i) /\ UNCHANGED forgetful
        BY <3>2, <4>4
      <4> QED  BY <2>7, <4>2, <4>3, <4>4 DEF SaveFails
    <3> QED  BY <2>7, <3>2, <3>3 DEF SaveFails
  <2>8. Kept
    BY <2>2, <2>3, <2>4, <2>6, <2>7 DEF Next, Start, vars
  <2> QED  BY <1>1, <2>8
<1> QED  BY <1>3, <1>4

LEMMA StoreInvHolds == Spec => []StoreInv
<1>1. StoreInv /\ [Next]_vars => StoreInv'
  BY StoreInvStep
<1> QED  BY <1>1, InitStoreInv, PTL DEF Spec

(* With one writer, until a read fails or a file is lost, set_pipeline()   *)
(* keeps what was last written for every pipeline, across requests,        *)
(* restarts and failed writes.                                             *)
THEOREM FilterConfigStoreIsLatest == Spec => []StoreIsLatest
<1>1. StoreInv => StoreIsLatest
  BY DEF StoreInv
<1> QED  BY <1>1, StoreInvHolds, PTL

(* With one writer and a store that may fail, tear or vanish at any time,  *)
(* an entry may be forgotten, but no older one comes back.                 *)
THEOREM FilterConfigNeverAnOlderOne == Spec => []NeverAnOlderOne
<1>1. StoreInv => NeverAnOlderOne
  BY DEF StoreInv
<1> QED  BY <1>1, StoreInvHolds, PTL
-----------------------------------------------------------------------------
LEMMA AcceptedIsLatestStep ==
  ASSUME TypeOK, AcceptedIsLatest, [Next]_vars
  PROVE  AcceptedIsLatest'
<1> SUFFICES ASSUME OneWriter', NEW i \in up', NEW p \in Pipelines, answered'[i][p] = "ok"
             PROVE  /\ latest'[StoreOf(i)'][p] # Absent /\ Quality[latest'[StoreOf(i)'][p]] = "good"
                    /\ engine'[i][p] = Whole(latest'[StoreOf(i)'][p])
                    /\ config'[i][p] = engine'[i][p]
  BY DEF AcceptedIsLatest
<1>1. OneWriter /\ StoreOf(i)' = StoreOf(i) /\ i \in Instances
  BY SharedFixed, TypeOKStep DEF OneWriter, StoreOf, TypeOK
<1>2. ASSUME i \in up, answered[i][p] = "ok", config'[i][p] = config[i][p],
             engine'[i][p] = engine[i][p], latest'[StoreOf(i)][p] = latest[StoreOf(i)][p]
      PROVE  /\ latest'[StoreOf(i)'][p] # Absent /\ Quality[latest'[StoreOf(i)'][p]] = "good"
             /\ engine'[i][p] = Whole(latest'[StoreOf(i)'][p])
             /\ config'[i][p] = engine'[i][p]
  BY <1>1, <1>2 DEF AcceptedIsLatest
<1>3. ASSUME NEW j \in Instances, Start(j)
      PROVE  /\ i # j /\ i \in up /\ answered[i][p] = "ok"
             /\ UNCHANGED <<config[i][p], engine[i][p], latest>>
  BY <1>1, <1>3 DEF Start, TypeOK
<1>4. ASSUME NEW j \in Instances, Stop(j)
      PROVE  i \in up /\ UNCHANGED <<config, engine, latest, answered>>
  BY <1>4 DEF Stop, pipelineState
<1>5. ASSUME NEW j \in Instances, NEW q \in Pipelines, NEW b \in Bodies, Load(j, q, b)
      PROVE  i \in up /\ UNCHANGED <<config, engine, latest, answered>>
  BY <1>5 DEF Load, pipelineState
<1>6. ASSUME NEW j \in Instances, Update(j)
      PROVE  /\ latest'[StoreOf(i)'][p] # Absent /\ Quality[latest'[StoreOf(i)'][p]] = "good"
             /\ engine'[i][p] = Whole(latest'[StoreOf(i)'][p])
             /\ config'[i][p] = engine'[i][p]
  <2>1. /\ put[j].env \in Pipelines /\ put[j].body \in Bodies /\ i \in up
        /\ StoreOf(j) \in Stores
    BY <1>6, PutType, StoreOfType DEF Update
  <2>2. CASE i = j /\ p = put[j].env
    <3>1. Quality[put[j].body] = "good"
      BY <1>1, <1>6, <2>1, <2>2 DEF Update, Apply, Respond, TypeOK
    <3>2. config'[i][p] = Whole(put[j].body) /\ engine'[i][p] = Whole(put[j].body)
      BY <1>1, <1>6, <2>1, <2>2, <3>1, ReconfiguredByGood DEF Update, Apply, TypeOK
    <3>3. latest'[StoreOf(i)][p] = put[j].body
      BY <1>6, <2>1, <2>2 DEF Update, Saved, TypeOK, Content
    <3> QED  BY <1>1, <2>1, <3>1, <3>2, <3>3, Origin
  <2>3. CASE ~(i = j /\ p = put[j].env)
    <3>1. answered[i][p] = "ok" /\ UNCHANGED <<config[i][p], engine[i][p]>>
      BY <1>1, <1>6, <2>1, <2>3 DEF Update, Apply, Respond, TypeOK
    <3>2. latest'[StoreOf(i)][p] = latest[StoreOf(i)][p]
      BY <1>1, <1>6, <2>1, <2>3, OwnStore, StoreOfType DEF Update, Saved, TypeOK, Content
    <3> QED  BY <1>2, <2>1, <3>1, <3>2
  <2> QED  BY <2>2, <2>3
<1>7. ASSUME NEW j \in Instances, SaveFails(j)
      PROVE  /\ i \in up /\ answered[i][p] = "ok" /\ UNCHANGED <<config, engine>>
             /\ latest'[StoreOf(i)][p] = latest[StoreOf(i)][p]
  <2>1. /\ put[j].env \in Pipelines /\ put[j].body \in Bodies /\ StoreOf(j) \in Stores
    BY <1>7, PutType, StoreOfType DEF SaveFails
  <2>2. ~(i = j /\ p = put[j].env) /\ answered[i][p] = "ok"
    BY <1>1, <1>7, <2>1 DEF SaveFails, Respond, TypeOK
  <2>3. CASE UNCHANGED latest
    BY <1>7, <2>2, <2>3 DEF SaveFails
  <2>4. CASE Saved(j)
    <3>1. latest'[StoreOf(i)][p] = latest[StoreOf(i)][p]
      BY <1>1, <2>1, <2>2, <2>4, OwnStore, StoreOfType DEF Saved, TypeOK, Content
    <3> QED  BY <1>7, <2>2, <3>1 DEF SaveFails
  <2> QED  BY <1>7, <2>3, <2>4 DEF SaveFails
<1>8. CASE UNCHANGED vars
  BY <1>2, <1>8 DEF vars, pipelineState
<1> QED
  BY <1>2, <1>3, <1>4, <1>5, <1>6, <1>7, <1>8 DEF Next

(* After an accepted update of a pipeline, and until the instance          *)
(* restarts, its entry does not make GET fail, which shows the filters by  *)
(* which POST /ingest is decided, although later updates of other          *)
(* pipelines write the whole store again and it may fail.                  *)
THEOREM FilterConfigShownIsInForce == Spec => []ShownIsInForce
<1>1. Init => AcceptedIsLatest
  BY DEF Init, AcceptedIsLatest
<1>2. StoreInv /\ AcceptedIsLatest /\ [Next]_vars => AcceptedIsLatest'
  BY AcceptedIsLatestStep DEF StoreInv
<1>3. StoreInv /\ AcceptedIsLatest => ShownIsInForce
  <2> SUFFICES ASSUME StoreInv, AcceptedIsLatest, OneWriter, NEW i \in up, NEW p \in Pipelines,
                      answered[i][p] = "ok"
               PROVE  Showable(i, p) /\ Shown(i, p) = engine[i][p]
    BY DEF ShownIsInForce
  <2>1. store[StoreOf(i)][p] \in {latest[StoreOf(i)][p], Absent}
    BY StoreOfType DEF StoreInv, TypeOK, NeverAnOlderOne
  <2> QED  BY <2>1 DEF AcceptedIsLatest, Showable, Shown
<1> QED  BY <1>1, <1>2, <1>3, StoreInvHolds, PTL DEF Spec
=============================================================================
