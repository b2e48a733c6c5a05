---------------------------- MODULE EditorsProofs ----------------------------
(***************************************************************************)
(* Proofs about module Editors, for any number of pages, saves, pipelines  *)
(* and entries.  What the API and its store promise is taken from the      *)
(* lemmas of FilterConfigProofs: seen from there, a step of the editors is *)
(* a step of the API or none.                                              *)
(***************************************************************************)
EXTENDS Editors, FilterConfigProofs

(* The invariants the proofs rest on: why the properties hold.             *)

(* A save carries the edit it was made for, also while it is served.       *)
Carries(s) == s.adds \subseteq EntriesOf[s.body] /\ s.drops \cap EntriesOf[s.body] = {}

SavesInv ==
  /\ \A s \in saves : Carries(s)
  /\ \A i \in Instances : serving[i] # NoSave =>
       /\ Carries(serving[i])
       /\ put[i] # NoPut /\ put[i].env = serving[i].env /\ put[i].body = serving[i].body

(* Without a stored entry a pipeline has the filters of the environment.   *)
ConfigInv ==
  \A i \in Instances, p \in Pipelines :
    latest[StoreOf(i)][p] = Absent => config[i][p].filters = Environment

(* Careful saves are under way one at a time. *)
CarefulInv ==
  \A p \in careful :
    /\ \A s, t \in saves : s.env = p /\ t.env = p => s = t
    /\ \A i \in Instances : serving[i] # NoSave /\ serving[i].env = p => \A s \in saves : s.env # p

(* What is under way for a pipeline comes from a page it is fresh on. *)
UnderWayFrom(e, p) ==
  /\ page[e] \in [Pipelines -> SUBSET Entries]
  /\ \A s \in saves : s.env = p => s.by = e /\ EntriesOf[s.body] = page[e][p]
  /\ \A i \in Instances : put[i] # NoPut /\ put[i].env = p =>
       serving[i] # NoSave /\ serving[i].by = e /\ EntriesOf[put[i].body] = page[e][p]

PageInv ==
  OnlyInstance /\ ~forgetful =>
    \A e \in Browsers : \A p \in fresh[e] : UnderWayFrom(e, p)

(* Entries that undo none of the confirmed edits. *)
Respects(p, entries) ==
  \A x \in Entries :
    (kept[p][x] = "present" => x \in entries) /\ (kept[p][x] = "absent" => x \notin entries)

UnderWayRespects(p) ==
  /\ \A s \in saves : s.env = p => Respects(p, EntriesOf[s.body])
  /\ \A i \in Instances : put[i] # NoPut /\ put[i].env = p => Respects(p, EntriesOf[put[i].body])

KeptInv == OnlyInstance /\ ~forgetful => \A p \in careful : UnderWayRespects(p)

EditorsInv ==
  /\ EditorsTypeOK /\ StoreInv
  /\ SavesInv /\ ConfigInv /\ CarefulInv
  /\ PageInv /\ PageIsStored /\ KeptInv /\ ConfirmedEditsKept
-----------------------------------------------------------------------------
LEMMA DraftEntries ==
  ASSUME NEW entries \in SUBSET Entries
  PROVE  Draft(entries) \in Bodies /\ EntriesOf[Draft(entries)] = entries
BY EditorsAssumption DEF Draft

LEMMA SaveIsNoNoSave == \A s \in Saves : s # NoSave
<1> SUFFICES ASSUME NEW s \in Saves PROVE s # NoSave
  OBVIOUS
<1>1. s.env \in Pipelines
  BY DEF Saves
<1>2. NoSave.env = Absent
  BY DEF NoSave
<1> QED  BY <1>1, <1>2, OriginAssumption

LEMMA OnlyIsOne == OnlyInstance => OneWriter
BY DEF OnlyInstance, OneWriter

(* The steps of the editors; the two kinds of edits are one. *)
LEMMA Steps ==
  ASSUME EditorsTypeOK, EditorsNext
  PROVE  \/ Vanish
         \/ \E i \in Instances :
              Boot(i) \/ Arrive(i) \/ ForeignPut(i) \/ Answer(i) \/ Abandon(i)
         \/ \E e \in Browsers, i \in Instances : Open(e, i)
         \/ \E e \in Browsers, p \in Pipelines, adds, drops \in SUBSET Entries :
              page[e] # NoPage /\ adds \cap drops = {} /\ Save(e, p, adds, drops)
<1>1. ASSUME NEW e \in Browsers, NEW p \in Pipelines, page[e] # NoPage,
             SaveModal(e, p) \/ DeleteEventType(e, p)
      PROVE  \E adds, drops \in SUBSET Entries :
               adds \cap drops = {} /\ Save(e, p, adds, drops)
  <2>1. page[e][p] \subseteq Entries
    BY <1>1 DEF EditorsTypeOK
  <2>2. CASE SaveModal(e, p)
    <3>1. PICK x \in Offered : \E drops \in {{}} \cup {{y} : y \in page[e][p] \ {x}} :
                                 Save(e, p, {x}, drops)
      BY <2>2 DEF SaveModal
    <3>2. PICK drops \in {{}} \cup {{y} : y \in page[e][p] \ {x}} : Save(e, p, {x}, drops)
      BY <3>1
    <3>3. {x} \in SUBSET Entries /\ drops \in SUBSET Entries /\ {x} \cap drops = {}
      BY <2>1, EditorsAssumption
    <3> QED  BY <3>2, <3>3
  <2>3. CASE DeleteEventType(e, p)
    <3>1. PICK y \in page[e][p] : Save(e, p, {}, {y})
      BY <2>3 DEF DeleteEventType
    <3>2. {} \in SUBSET Entries /\ {y} \in SUBSET Entries /\ {} \cap {y} = {}
      BY <2>1
    <3> QED  BY <3>1, <3>2
  <2> QED  BY <1>1, <2>2, <2>3
<1> QED  BY <1>1, Zenon DEF EditorsNext

(* Pages and lost saves leave the service alone; the rest are its steps.   *)
LEMMA StepOfService ==
  ASSUME EditorsTypeOK, [EditorsNext]_editorVars
  PROVE  [Next]_vars
<1>1. ASSUME NEW i \in Instances, Arrive(i)
      PROVE  Next
  <2>1. PICK s \in saves : Load(i, s.env, s.body)
    BY <1>1 DEF Arrive
  <2>2. s.env \in Pipelines /\ s.body \in Bodies
    BY DEF EditorsTypeOK, Saves
  <2> QED  BY <2>1, <2>2 DEF Next
<1>2. ASSUME NEW i \in Instances, ForeignPut(i)
      PROVE  Next
  <2>1. PICK p \in Pipelines, b \in Foreign : Load(i, p, b)
    BY <1>2 DEF ForeignPut
  <2> QED  BY <2>1, EditorsAssumption DEF Next
<1>3. ASSUME NEW i \in Instances, Boot(i) \/ Answer(i) \/ Abandon(i)
      PROVE  Next
  BY <1>3, Zenon DEF Boot, Answer, Abandon, Next
<1>4. ASSUME Vanish \/ \E e \in Browsers, i \in Instances : Open(e, i)
      PROVE  UNCHANGED vars
  BY <1>4, Zenon DEF Vanish, Open
<1>5. ASSUME NEW e, NEW p, NEW adds, NEW drops, Save(e, p, adds, drops)
      PROVE  UNCHANGED vars
  BY <1>5, Zenon DEF Save
<1>6. CASE UNCHANGED editorVars
  BY <1>6 DEF editorVars
<1> QED  BY <1>1, <1>2, <1>3, <1>4, <1>5, <1>6, Steps, Zenon
-----------------------------------------------------------------------------
(* What an edit sends, and what it does to the pages. *)
LEMMA SavePayload ==
  ASSUME EditorsTypeOK, NEW e \in Browsers, NEW p \in Pipelines,
         NEW adds \in SUBSET Entries, NEW drops \in SUBSET Entries,
         page[e] # NoPage
  PROVE  /\ Payload(e, p, adds, drops) \in Bodies
         /\ EntriesOf[Payload(e, p, adds, drops)] = Edited(page[e][p], adds, drops)
<1>1. page[e] \in [Pipelines -> SUBSET Entries]
  BY DEF EditorsTypeOK
<1>2. Edited(page[e][p], adds, drops) \in SUBSET Entries
  BY <1>1 DEF Edited
<1> QED  BY <1>2, DraftEntries DEF Payload

LEMMA SavePage ==
  ASSUME EditorsTypeOK, NEW e \in Browsers, NEW p \in Pipelines,
         NEW adds \in SUBSET Entries, NEW drops \in SUBSET Entries,
         page[e] # NoPage, Save(e, p, adds, drops)
  PROVE  /\ page' \in [Browsers -> {NoPage} \cup [Pipelines -> SUBSET Entries]]
         /\ page'[e] \in [Pipelines -> SUBSET Entries]
         /\ page'[e][p] = Edited(page[e][p], adds, drops)
         /\ \A q \in Pipelines : q # p => page'[e][q] = page[e][q]
         /\ \A f \in Browsers : f # e => page'[f] = page[f]
<1> DEFINE edited == Edited(page[e][p], adds, drops)
<1>1. page[e] \in [Pipelines -> SUBSET Entries]
  BY DEF EditorsTypeOK
<1>2. edited \in SUBSET Entries
  BY <1>1 DEF Edited
<1>3. page' = [page EXCEPT ![e][p] = edited]
  BY DEF Save
<1> HIDE DEF edited
<1>4. page'[e] = [page[e] EXCEPT ![p] = edited] /\ \A f \in Browsers : f # e => page'[f] = page[f]
  BY <1>3 DEF EditorsTypeOK
<1>5. /\ page'[e] \in [Pipelines -> SUBSET Entries] /\ page'[e][p] = edited
      /\ \A q \in Pipelines : q # p => page'[e][q] = page[e][q]
  BY <1>1, <1>2, <1>4
<1>6. page' \in [Browsers -> {NoPage} \cup [Pipelines -> SUBSET Entries]]
  BY <1>1, <1>2, <1>3 DEF EditorsTypeOK
<1> QED  BY <1>4, <1>5, <1>6 DEF edited

(* A page that is loaded; what it is fresh on is as the service shows it.  *)
LEMMA OpenPage ==
  ASSUME EditorsTypeOK, NEW e \in Browsers, NEW i \in Instances, Open(e, i)
  PROVE  /\ page' \in [Browsers -> {NoPage} \cup [Pipelines -> SUBSET Entries]]
         /\ page'[e] \in [Pipelines -> SUBSET Entries]
         /\ \A p \in fresh'[e] : page'[e][p] = EntriesOf[Shown(i, p).filters]
<1> DEFINE shown == [p \in Pipelines |-> EntriesOf[Shown(i, p).filters]]
           used == [p \in Pipelines |-> EntriesOf[config[i][p].filters]]
           unpending == {p \in Pipelines : ~Pending(p)}
<1>1. ASSUME NEW p \in Pipelines
      PROVE  config[i][p].filters \in Origins /\ Shown(i, p).filters \in Origins
  <2>1. config[i][p].filters \in Origins
    BY DEF EditorsTypeOK, TypeOK, Settings
  <2>2. store[StoreOf(i)][p] \in Bodies \cup {Absent}
    BY StoreOfType DEF EditorsTypeOK, TypeOK, Content
  <2> QED  BY <2>1, <2>2 DEF Shown, Whole, Origins
<1>2. shown \in [Pipelines -> SUBSET Entries] /\ used \in [Pipelines -> SUBSET Entries]
  BY <1>1, EditorsAssumption
<1>3. \/ page' = [page EXCEPT ![e] = shown] /\ fresh' = [fresh EXCEPT ![e] = unpending]
      \/ page' = [page EXCEPT ![e] = used] /\ fresh' = [fresh EXCEPT ![e] = {}]
  BY Zenon DEF Open
<1>4. page' \in [Browsers -> {NoPage} \cup [Pipelines -> SUBSET Entries]]
  BY <1>2, <1>3 DEF EditorsTypeOK
<1>5. CASE page' = [page EXCEPT ![e] = shown] /\ fresh' = [fresh EXCEPT ![e] = unpending]
  <2>1. page'[e] = shown /\ fresh'[e] = unpending
    BY <1>5 DEF EditorsTypeOK
  <2>2. page'[e] \in [Pipelines -> SUBSET Entries]
    BY <1>2, <2>1
  <2>3. ASSUME NEW p \in fresh'[e]
        PROVE  page'[e][p] = EntriesOf[Shown(i, p).filters]
    BY <2>1
  <2> QED  BY <1>4, <2>2, <2>3
<1>6. CASE page' = [page EXCEPT ![e] = used] /\ fresh' = [fresh EXCEPT ![e] = {}]
  <2>1. page'[e] = used /\ fresh'[e] = {}
    BY <1>6 DEF EditorsTypeOK
  <2>2. page'[e] \in [Pipelines -> SUBSET Entries]
    BY <1>2, <2>1
  <2> QED  BY <1>4, <2>1, <2>2
<1> QED  BY <1>3, <1>5, <1>6

LEMMA EditorsTypeOKStep ==
  ASSUME EditorsTypeOK, [EditorsNext]_editorVars
  PROVE  EditorsTypeOK'
<1>1. TypeOK'
  BY StepOfService, TypeOKStep DEF EditorsTypeOK
<1>2. ASSUME NEW e \in Browsers, NEW i \in Instances, Open(e, i)
      PROVE  EditorsTypeOK'
  <2>1. page' \in [Browsers -> {NoPage} \cup [Pipelines -> SUBSET Entries]]
    BY <1>2, OpenPage
  <2>2. fresh' \in [Browsers -> SUBSET Pipelines]
    BY <1>2 DEF Open, EditorsTypeOK
  <2> QED  BY <1>1, <1>2, <2>1, <2>2 DEF Open, EditorsTypeOK
<1>3. ASSUME NEW e \in Browsers, NEW p \in Pipelines, NEW adds \in SUBSET Entries,
             NEW drops \in SUBSET Entries, page[e] # NoPage, Save(e, p, adds, drops)
      PROVE  EditorsTypeOK'
  <2> DEFINE s == [by |-> e, env |-> p, body |-> Payload(e, p, adds, drops),
                   adds |-> adds, drops |-> drops, number |-> sent]
  <2>1. sent \in 0 .. MaxSaves - 1 /\ sent' \in 0 .. MaxSaves
    BY <1>3, EditorsAssumption DEF Save, EditorsTypeOK
  <2>2. s \in Saves
    BY <1>3, <2>1, SavePayload DEF Saves
  <2>3. saves' \subseteq Saves
    BY <1>3, <2>2 DEF Save, EditorsTypeOK
  <2>4. careful' \subseteq Pipelines /\ fresh' \in [Browsers -> SUBSET Pipelines]
    BY <1>3 DEF Save, EditorsTypeOK
  <2>5. kept' \in [Pipelines -> [Entries -> {"unknown", "present", "absent"}]]
    BY <1>3 DEF Save, EditorsTypeOK
  <2>6. page' \in [Browsers -> {NoPage} \cup [Pipelines -> SUBSET Entries]]
    BY <1>3, SavePage
  <2> HIDE DEF s
  <2> QED  BY <1>1, <1>3, <2>1, <2>3, <2>4, <2>5, <2>6 DEF Save, EditorsTypeOK
<1>4. ASSUME NEW i \in Instances, Arrive(i)
      PROVE  EditorsTypeOK'
  BY <1>1, <1>4 DEF Arrive, history, EditorsTypeOK
<1>5. ASSUME NEW i \in Instances, ForeignPut(i)
      PROVE  EditorsTypeOK'
  BY <1>1, <1>5 DEF ForeignPut, EditorsTypeOK
<1>6. ASSUME NEW i \in Instances, Answer(i)
      PROVE  EditorsTypeOK'
  <2>1. kept' \in [Pipelines -> [Entries -> {"unknown", "present", "absent"}]]
    <3>1. CASE serving[i] # NoSave /\ Badge(serving[i])
      BY <3>1 DEF Badge, EditorsTypeOK
    <3>2. CASE UNCHANGED kept
      BY <3>2 DEF EditorsTypeOK
    <3> QED  BY <1>6, <3>1, <3>2 DEF Answer
  <2> QED  BY <1>1, <1>6, <2>1 DEF Answer, EditorsTypeOK
<1>7. ASSUME NEW i \in Instances, Abandon(i)
      PROVE  EditorsTypeOK'
  <2>1. fresh' \in [Browsers -> SUBSET Pipelines]
    BY <1>7 DEF Abandon, Stale, EditorsTypeOK
  <2> QED  BY <1>1, <1>7, <2>1 DEF Abandon, EditorsTypeOK
<1>8. ASSUME NEW i \in Instances, Boot(i)
      PROVE  EditorsTypeOK'
  BY <1>1, <1>8 DEF Boot, history, EditorsTypeOK
<1>9. CASE Vanish
  <2>1. PICK s \in saves : saves' = saves \ {s} /\ Stale(s)
    BY <1>9 DEF Vanish
  <2>2. UNCHANGED <<page, serving, sent, careful, kept>>
    BY <1>9 DEF Vanish
  <2>3. fresh' \in [Browsers -> SUBSET Pipelines]
    BY <2>1 DEF Stale, EditorsTypeOK
  <2> QED  BY <1>1, <2>1, <2>2, <2>3 DEF EditorsTypeOK
<1>10. CASE UNCHANGED editorVars
  BY <1>1, <1>10 DEF editorVars, EditorsTypeOK
<1> QED  BY <1>2, <1>3, <1>4, <1>5, <1>6, <1>7, <1>8, <1>9, <1>10, Steps, Zenon

LEMMA InitEditorsTypeOK == EditorsInit => EditorsTypeOK
BY InitTypeOK, EditorsAssumption DEF EditorsInit, EditorsTypeOK

(* Whatever pages do, their state has its type; so has the service's.      *)
THEOREM EditorsTypeCorrect == EditorsSpec => []EditorsTypeOK
BY InitEditorsTypeOK, EditorsTypeOKStep, PTL DEF EditorsSpec

(* With its pages the API still does nothing that module FilterConfig does *)
(* not allow: what is proved there holds here.                             *)
THEOREM EditorsImplementFilterConfig == EditorsSpec => Spec
<1>1. EditorsInit => Init
  BY DEF EditorsInit
<1>2. EditorsTypeOK /\ [EditorsNext]_editorVars => [Next]_vars
  BY StepOfService
<1> QED  BY <1>1, <1>2, EditorsTypeCorrect, PTL DEF EditorsSpec, Spec
-----------------------------------------------------------------------------
(* What is under way, at the service and on the way there.                 *)

(* The save that an edit sends. *)
LEMMA NewSave ==
  ASSUME EditorsTypeOK, NEW e \in Browsers, NEW p \in Pipelines,
         NEW adds \in SUBSET Entries, NEW drops \in SUBSET Entries,
         page[e] # NoPage, Save(e, p, adds, drops)
  PROVE  \E s : /\ saves' = saves \cup {s} /\ s.by = e /\ s.env = p
                /\ EntriesOf[s.body] = Edited(page[e][p], adds, drops)
<1> DEFINE s == [by |-> e, env |-> p, body |-> Payload(e, p, adds, drops),
                 adds |-> adds, drops |-> drops, number |-> sent]
<1>1. saves' = saves \cup {s}
  BY Zenon DEF Save
<1>2. s.by = e /\ s.env = p /\ s.body = Payload(e, p, adds, drops)
  OBVIOUS
<1> HIDE DEF s
<1>3. EntriesOf[s.body] = Edited(page[e][p], adds, drops)
  BY <1>2, SavePayload
<1> QED  BY <1>1, <1>2, <1>3, Zenon

LEMMA SavesInvStep ==
  ASSUME EditorsTypeOK, SavesInv, [EditorsNext]_editorVars
  PROVE  SavesInv'
<1> USE DEF SavesInv
<1>1. ASSUME NEW i \in Instances, put' = [put EXCEPT ![i] = NoPut],
             serving' = [serving EXCEPT ![i] = NoSave], saves' = saves
      PROVE  SavesInv'
  BY <1>1 DEF EditorsTypeOK, TypeOK, Carries
<1>2. ASSUME NEW i \in Instances, Answer(i) \/ Abandon(i)
      PROVE  SavesInv'
  <2>1. put' = [put EXCEPT ![i] = NoPut]
    BY <1>2, Zenon DEF Answer, Abandon, Update, Apply, Stop, SaveFails, Respond
  <2> QED  BY <1>1, <1>2, <2>1, Zenon DEF Answer, Abandon
<1>3. ASSUME NEW i \in Instances, Arrive(i)
      PROVE  SavesInv'
  <2>1. PICK s \in saves : Load(i, s.env, s.body) /\ saves' = saves \ {s}
                           /\ serving' = [serving EXCEPT ![i] = s]
    BY <1>3 DEF Arrive
  <2>2. PICK content : put' = [put EXCEPT ![i] = [env |-> s.env, body |-> s.body, data |-> content]]
    BY <2>1 DEF Load
  <2>3. put'[i].env = s.env /\ put'[i].body = s.body
    BY <2>2 DEF EditorsTypeOK, TypeOK
  <2>4. put'[i] # NoPut
    BY <2>3, OriginAssumption DEF NoPut, EditorsTypeOK, Saves
  <2>5. ASSUME NEW j \in Instances, j # i
        PROVE  put'[j] = put[j] /\ serving'[j] = serving[j]
    BY <2>1, <2>2, <2>5 DEF EditorsTypeOK, TypeOK
  <2>6. serving'[i] = s
    BY <2>1 DEF EditorsTypeOK
  <2> QED  BY <2>1, <2>3, <2>4, <2>5, <2>6 DEF Carries
<1>4. ASSUME NEW i \in Instances, ForeignPut(i)
      PROVE  SavesInv'
  <2>1. put[i] = NoPut /\ \E r : put' = [put EXCEPT ![i] = r]
    BY <1>4 DEF ForeignPut, Load
  <2>2. ASSUME NEW j \in Instances, serving[j] # NoSave
        PROVE  put'[j] = put[j]
    BY <2>1, <2>2 DEF EditorsTypeOK, TypeOK
  <2> QED  BY <1>4, <2>2 DEF ForeignPut, Carries
<1>5. ASSUME NEW e \in Browsers, NEW p \in Pipelines, NEW adds \in SUBSET Entries,
             NEW drops \in SUBSET Entries, page[e] # NoPage, adds \cap drops = {},
             Save(e, p, adds, drops)
      PROVE  SavesInv'
  <2>1. EntriesOf[Payload(e, p, adds, drops)] = Edited(page[e][p], adds, drops)
    BY <1>5, SavePayload
  <2>2. UNCHANGED <<put, serving>>
    BY <1>5, Zenon DEF Save, vars
  <2>3. \A s \in saves' : s \in saves \/ Carries(s)
    BY <1>5, <2>1 DEF Save, Carries, Edited
  <2> QED  BY <2>2, <2>3 DEF Carries
<1>6. ASSUME UNCHANGED <<put, serving>>, saves' \subseteq saves
      PROVE  SavesInv'
  BY <1>6 DEF Carries
<1>7. ASSUME Vanish \/ UNCHANGED editorVars \/ (\E i \in Instances : Boot(i))
             \/ (\E e \in Browsers, i \in Instances : Open(e, i))
      PROVE  UNCHANGED <<put, serving>> /\ saves' \subseteq saves
  BY <1>7, Zenon DEF Vanish, editorVars, vars, Boot, Start, Open
<1> QED  BY <1>2, <1>3, <1>4, <1>5, <1>6, <1>7, Steps, Zenon

LEMMA ConfigInvStep ==
  ASSUME TypeOK, ConfigInv, [Next]_vars
  PROVE  ConfigInv'
<1> USE DEF ConfigInv, TypeOK
<1>1. ASSUME NEW i \in Instances, Start(i)
      PROVE  ConfigInv'
  BY <1>1 DEF Start, StoreOf, Whole
<1>2. ASSUME UNCHANGED <<shared, config, latest>>
      PROVE  ConfigInv'
  BY <1>2 DEF StoreOf
<1>3. ASSUME NEW i \in Instances, put[i] # NoPut, Saved(i), shared' = shared
      PROVE  \A j \in Instances, p \in Pipelines : latest'[StoreOf(j)'][p] = Absent =>
               latest[StoreOf(j)][p] = Absent /\ ~(j = i /\ p = put[i].env)
  BY <1>3, PutType, Origin, StoreOfType DEF Saved, StoreOf, Content
<1>4. ASSUME NEW i \in Instances, Update(i)
      PROVE  ConfigInv'
  <2>1. ASSUME NEW j \in Instances, NEW p \in Pipelines, ~(j = i /\ p = put[i].env)
        PROVE  config'[j][p] = config[j][p]
    BY <1>4, <2>1, PutType DEF Update, Apply
  <2> QED  BY <1>3, <1>4, <2>1 DEF Update
<1>5. ASSUME NEW i \in Instances, SaveFails(i)
      PROVE  ConfigInv'
  <2>1. shared' = shared /\ config' = config /\ put[i] # NoPut
    BY <1>5 DEF SaveFails
  <2>2. UNCHANGED latest \/ Saved(i)
    BY <1>5 DEF SaveFails
  <2> QED  BY <1>2, <1>3, <2>1, <2>2
<1>6. ASSUME NEW i \in Instances, Stop(i) \/ \E p \in Pipelines, b \in Bodies : Load(i, p, b)
      PROVE  UNCHANGED <<shared, config, latest>>
  BY <1>6, Zenon DEF Stop, Load, pipelineState
<1>7. ASSUME UNCHANGED vars
      PROVE  UNCHANGED <<shared, config, latest>>
  BY <1>7 DEF vars, pipelineState
<1> QED  BY <1>1, <1>2, <1>4, <1>5, <1>6, <1>7, Zenon DEF Next

(* Where nothing is pending for a pipeline nothing is on its way or served. *)
LEMMA NothingPending ==
  ASSUME SavesInv, NEW p, ~Pending(p)
  PROVE  /\ \A s \in saves : s.env # p
         /\ \A i \in Instances : serving[i] # NoSave => serving[i].env # p
         /\ \A i \in Instances : put[i].env # p
BY DEF SavesInv, Pending

LEMMA CarefulInvStep ==
  ASSUME EditorsTypeOK, SavesInv, CarefulInv, [EditorsNext]_editorVars
  PROVE  CarefulInv'
<1> USE DEF CarefulInv
<1>1. ASSUME saves' \subseteq saves, careful' = careful,
             \A i \in Instances : serving'[i] \in {NoSave, serving[i]}
      PROVE  CarefulInv'
  BY <1>1
<1>2. ASSUME NEW i \in Instances, Answer(i) \/ Abandon(i) \/ Boot(i) \/ ForeignPut(i)
      PROVE  CarefulInv'
  <2>1. saves' = saves /\ careful' = careful
    BY <1>2, Zenon DEF Answer, Abandon, Boot, ForeignPut, history
  <2>2. serving' = [serving EXCEPT ![i] = NoSave] \/ serving' = serving
    BY <1>2, Zenon DEF Answer, Abandon, Boot, ForeignPut
  <2> QED  BY <1>1, <2>1, <2>2 DEF EditorsTypeOK
<1>3. ASSUME NEW i \in Instances, Arrive(i)
      PROVE  CarefulInv'
  <2>1. PICK s \in saves : saves' = saves \ {s} /\ serving' = [serving EXCEPT ![i] = s]
    BY <1>3 DEF Arrive
  <2>2. careful' = careful
    BY <1>3 DEF Arrive, history
  <2>3. serving'[i] = s /\ \A j \in Instances : j # i => serving'[j] = serving[j]
    BY <2>1 DEF EditorsTypeOK
  <2> QED  BY <2>1, <2>2, <2>3
<1>4. ASSUME NEW e \in Browsers, NEW p \in Pipelines, NEW adds \in SUBSET Entries,
             NEW drops \in SUBSET Entries, page[e] # NoPage, Save(e, p, adds, drops)
      PROVE  CarefulInv'
  <2>0. serving' = serving
        /\ careful' = IF p \in fresh[e] /\ ~Pending(p) THEN careful ELSE careful \ {p}
    BY <1>4, Zenon DEF Save
  <2>1. serving' = serving /\ careful' \subseteq careful /\ (p \in careful' => ~Pending(p))
    BY <2>0
  <2>2. PICK new : saves' = saves \cup {new} /\ new.env = p
    BY <1>4, NewSave
  <2>3. CASE p \in careful'
    BY <2>1, <2>2, <2>3, NothingPending
  <2>4. CASE p \notin careful'
    BY <2>1, <2>2, <2>4
  <2> QED  BY <2>3, <2>4
<1>5. ASSUME Vanish \/ UNCHANGED editorVars \/ (\E e \in Browsers, i \in Instances : Open(e, i))
      PROVE  saves' \subseteq saves /\ careful' = careful /\ serving' = serving
  BY <1>5, Zenon DEF Vanish, editorVars, Open
<1> QED  BY <1>1, <1>2, <1>3, <1>4, <1>5, Steps, Zenon
-----------------------------------------------------------------------------
(* Pages and the requests that come from them.                             *)

LEMMA ForgetfulGrows ==
  ASSUME EditorsTypeOK, [EditorsNext]_editorVars, ~forgetful'
  PROVE  ~forgetful
BY StepOfService, SharedFixed DEF EditorsTypeOK

(* A request that is done or given up. *)
LEMMA Done ==
  ASSUME EditorsTypeOK, NEW i \in Instances, Answer(i) \/ Abandon(i), OnlyInstance
  PROVE  /\ \A j \in Instances : put'[j] = NoPut
         /\ saves' = saves /\ page' = page /\ careful' = careful
         /\ \A e \in Browsers : fresh'[e] \subseteq fresh[e]
<1>1. put' = [put EXCEPT ![i] = NoPut]
  BY Zenon DEF Answer, Abandon, Update, Apply, Stop, SaveFails, Respond
<1>2. saves' = saves /\ page' = page /\ careful' = careful
  BY Zenon DEF Answer, Abandon
<1>3. fresh' = fresh \/ fresh' = [fresh EXCEPT ![serving[i].by] = @ \ {serving[i].env}]
  BY Zenon DEF Answer, Abandon, Stale
<1> QED  BY <1>1, <1>2, <1>3 DEF OnlyInstance, EditorsTypeOK, TypeOK

(* A request that arrives. *)
LEMMA Loaded ==
  ASSUME EditorsTypeOK, NEW i \in Instances, NEW p \in Pipelines, NEW b, Load(i, p, b)
  PROVE  /\ put[i] = NoPut /\ put'[i] # NoPut
         /\ put'[i].env = p /\ put'[i].body = b
         /\ UNCHANGED <<shared, config, store, latest>>
<1>1. PICK content : put' = [put EXCEPT ![i] = [env |-> p, body |-> b, data |-> content]]
  BY DEF Load
<1>2. put'[i].env = p /\ put'[i].body = b
  BY <1>1 DEF EditorsTypeOK, TypeOK
<1>3. put'[i] # NoPut
  BY <1>2, OriginAssumption DEF NoPut
<1>4. UNCHANGED <<shared, config, store, latest>>
  BY Zenon DEF Load, pipelineState
<1> QED  BY <1>2, <1>3, <1>4 DEF Load

LEMMA PageInvStep ==
  ASSUME EditorsTypeOK, SavesInv, PageInv, [EditorsNext]_editorVars
  PROVE  PageInv'
<1> SUFFICES ASSUME OnlyInstance, ~forgetful', NEW e \in Browsers, NEW p \in fresh'[e]
             PROVE  UnderWayFrom(e, p)'
  BY DEF PageInv, OnlyInstance
<1>1. \A f \in Browsers : \A q \in fresh[f] : UnderWayFrom(f, q)
  BY ForgetfulGrows DEF PageInv
<1>2. p \in Pipelines
  BY EditorsTypeOKStep DEF EditorsTypeOK
<1>3. ASSUME p \in fresh[e], page' = page, saves' \subseteq saves,
             (put' = put /\ serving' = serving) \/ \A i \in Instances : put'[i] = NoPut
      PROVE  UnderWayFrom(e, p)'
  <2>1. UnderWayFrom(e, p)
    BY <1>1, <1>3
  <2> QED  BY <1>3, <2>1 DEF UnderWayFrom
<1>4. ASSUME NEW f \in Browsers, NEW i \in Instances, Open(f, i)
      PROVE  UnderWayFrom(e, p)'
  <2>1. UNCHANGED <<saves, put, serving>> /\ put[i] = NoPut
    BY <1>4, Zenon DEF Open, vars
  <2>2. CASE e = f
    <3>1. ~Pending(p)
      BY <1>4, <2>2 DEF Open, EditorsTypeOK
    <3>2. page'[e] \in [Pipelines -> SUBSET Entries]
      BY <1>4, <2>2, OpenPage
    <3> QED  BY <2>1, <3>1, <3>2, NothingPending DEF UnderWayFrom
  <2>3. CASE e # f
    <3>1. p \in fresh[e] /\ page'[e] = page[e]
      BY <1>4, <2>3 DEF Open, EditorsTypeOK
    <3> QED  BY <1>1, <2>1, <3>1 DEF UnderWayFrom
  <2> QED  BY <2>2, <2>3
<1>5. ASSUME NEW f \in Browsers, NEW q \in Pipelines, NEW adds \in SUBSET Entries,
             NEW drops \in SUBSET Entries, page[f] # NoPage, Save(f, q, adds, drops)
      PROVE  UnderWayFrom(e, p)'
  <2>1. UNCHANGED <<put, serving>>
    BY <1>5, Zenon DEF Save, vars
  <2>2. PICK s : /\ saves' = saves \cup {s} /\ s.by = f /\ s.env = q
                 /\ EntriesOf[s.body] = Edited(page[f][q], adds, drops)
    BY <1>5, NewSave
  <2>3. p \in fresh[e] /\ (p = q => e = f /\ ~Pending(q))
    BY <1>5 DEF Save, EditorsTypeOK
  <2>4. UnderWayFrom(e, p)
    BY <1>1, <2>3
  <2>5. CASE p = q
    <3>1. EntriesOf[s.body] = Edited(page[f][q], adds, drops)
      BY <2>2
    <3>2. page'[f][q] = Edited(page[f][q], adds, drops) /\ page'[f] \in [Pipelines -> SUBSET Entries]
      BY <1>5, SavePage
    <3>3. EntriesOf[s.body] = page'[e][p] /\ page'[e] \in [Pipelines -> SUBSET Entries]
      BY <2>3, <2>5, <3>1, <3>2
    <3>4. /\ \A t \in saves : t.env # p
          /\ \A i \in Instances : put[i].env # p
      BY <2>3, <2>5, NothingPending
    <3> QED  BY <2>1, <2>2, <2>3, <2>5, <3>3, <3>4 DEF UnderWayFrom
  <2>6. CASE p # q
    <3>1. page'[e] \in [Pipelines -> SUBSET Entries] /\ page'[e][p] = page[e][p]
      <4>1. CASE e = f
        BY <1>2, <1>5, <2>6, <4>1, SavePage
      <4>2. CASE e # f
        BY <1>5, <2>4, <4>2, SavePage DEF UnderWayFrom
      <4> QED  BY <4>1, <4>2
    <3> QED  BY <2>1, <2>2, <2>4, <2>6, <3>1 DEF UnderWayFrom
  <2> QED  BY <2>5, <2>6
<1>6. ASSUME NEW i \in Instances, Arrive(i)
      PROVE  UnderWayFrom(e, p)'
  <2>1. PICK s \in saves : Load(i, s.env, s.body) /\ saves' = saves \ {s}
                           /\ serving' = [serving EXCEPT ![i] = s]
    BY <1>6 DEF Arrive
  <2>2. s \in Saves /\ s.env \in Pipelines
    BY DEF EditorsTypeOK, Saves
  <2>3. put'[i].env = s.env /\ put'[i].body = s.body /\ serving'[i] = s /\ s # NoSave
    BY <2>1, <2>2, Loaded, SaveIsNoNoSave DEF EditorsTypeOK
  <2>4. page' = page /\ fresh' = fresh
    BY <1>6 DEF Arrive, history
  <2>5. UnderWayFrom(e, p)
    BY <1>1, <2>4
  <2> QED  BY <2>1, <2>3, <2>4, <2>5 DEF UnderWayFrom, OnlyInstance
<1>7. ASSUME NEW i \in Instances, ForeignPut(i)
      PROVE  UnderWayFrom(e, p)'
  <2>1. PICK q \in Pipelines, b \in Foreign :
          Load(i, q, b) /\ fresh' = [f \in Browsers |-> fresh[f] \ {q}]
    BY <1>7 DEF ForeignPut
  <2>2. page' = page /\ saves' = saves /\ p \in fresh[e] /\ p # q
    BY <1>7, <2>1 DEF ForeignPut
  <2>3. put'[i].env = q
    BY <2>1, Loaded
  <2>4. UnderWayFrom(e, p)
    BY <1>1, <2>2
  <2> QED  BY <2>2, <2>3, <2>4 DEF UnderWayFrom, OnlyInstance
<1>8. ASSUME NEW i \in Instances, Answer(i) \/ Abandon(i)
      PROVE  UnderWayFrom(e, p)'
  BY <1>3, <1>8, Done
<1>9. ASSUME NEW i \in Instances, Boot(i)
      PROVE  UnderWayFrom(e, p)'
  BY <1>3, <1>9, Zenon DEF Boot, Start, history
<1>10. CASE Vanish
  <2>1. PICK s \in saves : saves' = saves \ {s} /\ Stale(s)
    BY <1>10 DEF Vanish
  <2>2. UNCHANGED <<page, put, serving>>
    BY <1>10, Zenon DEF Vanish, vars
  <2>3. p \in fresh[e]
    BY <2>1 DEF Stale, EditorsTypeOK
  <2> QED  BY <1>3, <2>1, <2>2, <2>3
<1>11. CASE UNCHANGED editorVars
  BY <1>3, <1>11 DEF editorVars, vars
<1> QED  BY <1>4, <1>5, <1>6, <1>7, <1>8, <1>9, <1>10, <1>11, Steps, Zenon
-----------------------------------------------------------------------------
(* What the service does to what it shows.                                 *)

LEMMA OneOnly ==
  ASSUME OnlyInstance, NEW i \in Instances, NEW j \in Instances
  PROVE  i = j
BY DEF OnlyInstance

LEMMA PutHasNoEnv == NoPut.env = Absent /\ \A p \in Pipelines : NoPut.env # p
BY OriginAssumption DEF NoPut

(* A body that got into the store is what is shown. *)
LEMMA SavedShown ==
  ASSUME TypeOK, NEW i \in Instances, put[i] # NoPut, Saved(i), shared' = shared,
         NEW p \in Pipelines, put[i].env = p
  PROVE  /\ store'[StoreOf(i)'][p] = put[i].body
         /\ Shown(i, p)'.filters = put[i].body
<1>1. /\ StoreOf(i) \in Stores /\ StoreOf(i)' = StoreOf(i)
      /\ put[i].body \in Bodies /\ put[i].data \in Content
  BY StoreOfType, StoreOfFixed, PutType
<1>2. store'[StoreOf(i)] = ToSave(i)
  BY <1>1 DEF Saved, TypeOK
<1>3. ToSave(i)[p] = put[i].body
  BY <1>1 DEF ToSave, Content
<1>4. store'[StoreOf(i)'][p] = put[i].body
  BY <1>1, <1>2, <1>3
<1> QED  BY <1>1, <1>4, Origin DEF Shown, Whole

(* Of all other pipelines the service shows what it has shown.             *)
LEMMA ShownKept ==
  ASSUME StoreInv, ConfigInv, [Next]_vars, OnlyInstance, ~forgetful, ~forgetful',
         NEW i \in Instances, NEW p \in Pipelines, put[i].env # p
  PROVE  /\ store'[StoreOf(i)'][p] = store[StoreOf(i)][p]
         /\ Shown(i, p)'.filters = Shown(i, p).filters
<1>1. TypeOK /\ store = latest /\ store' = latest' /\ shared' = shared /\ StoreOf(i)' = StoreOf(i)
      /\ StoreOf(i) \in Stores
  <2>1. OneWriter' /\ OneWriter /\ shared' = shared
    BY OnlyIsOne, SharedFixed DEF StoreInv, OneWriter, OnlyInstance
  <2> QED  BY <2>1, StoreInvStep, StoreOfFixed, StoreOfType DEF StoreInv, StoreIsLatest
<1>2. ASSUME latest' = latest \/ (put[i] # NoPut /\ Saved(i))
      PROVE  store'[StoreOf(i)'][p] = store[StoreOf(i)][p]
  <2>1. CASE latest' = latest
    BY <1>1, <2>1
  <2>2. CASE put[i] # NoPut /\ Saved(i)
    <3>1. put[i].env \in Pipelines /\ put[i].body \in Bodies
      BY <1>1, <2>2, PutType
    <3>2. latest' = [latest EXCEPT ![StoreOf(i)][put[i].env] = put[i].body]
      BY <2>2 DEF Saved
    <3>3. latest'[StoreOf(i)][p] = latest[StoreOf(i)][p]
      BY <1>1, <3>1, <3>2 DEF TypeOK, Content
    <3> QED  BY <1>1, <3>3
  <2> QED  BY <1>2, <2>1, <2>2
<1> DEFINE Written == latest' = latest \/ (put[i] # NoPut /\ Saved(i))
           Configured == \/ config'[i][p] = config[i][p]
                         \/ latest' = latest /\ config'[i][p].filters = Environment
<1>3. ASSUME Written, Configured
      PROVE  /\ store'[StoreOf(i)'][p] = store[StoreOf(i)][p]
             /\ Shown(i, p)'.filters = Shown(i, p).filters
  <2>1. store'[StoreOf(i)'][p] = store[StoreOf(i)][p]
    BY <1>2, <1>3
  <2>2. store[StoreOf(i)][p] = Absent /\ config'[i][p] # config[i][p] =>
          config'[i][p].filters = config[i][p].filters
    BY <1>1, <1>3 DEF ConfigInv
  <2> QED  BY <2>1, <2>2 DEF Shown
<1> SUFFICES Written /\ Configured
  BY <1>3
<1>4. ASSUME NEW j \in Instances, Start(j)
      PROVE  latest' = latest /\ config'[i][p].filters = Environment
  <2>1. i = j
    BY OneOnly
  <2> QED  BY <1>1, <1>4, <2>1 DEF Start, TypeOK, Whole
<1>5. ASSUME NEW j \in Instances, Stop(j) \/ \E q \in Pipelines, b \in Bodies : Load(j, q, b)
      PROVE  latest' = latest /\ config' = config
  BY <1>5, Zenon DEF Stop, Load, pipelineState
<1>6. ASSUME NEW j \in Instances, Update(j)
      PROVE  Written /\ config'[i][p] = config[i][p]
  <2>1. i = j
    BY OneOnly
  <2> QED  BY <1>1, <1>6, <2>1 DEF Update, Apply, TypeOK
<1>7. ASSUME NEW j \in Instances, SaveFails(j)
      PROVE  config' = config /\ Written
  <2>1. i = j
    BY OneOnly
  <2>2. SaveFails(i)
    BY <1>7, <2>1
  <2>3. config' = config
    BY <2>2 DEF SaveFails
  <2>4. Written
    BY <2>2, Zenon DEF SaveFails
  <2> QED  BY <2>3, <2>4
<1>8. CASE UNCHANGED vars
  BY <1>8 DEF vars, pipelineState
<1>9. CASE Next
  BY <1>4, <1>5, <1>6, <1>7, <1>9, Zenon DEF Next
<1> QED  BY <1>8, <1>9
-----------------------------------------------------------------------------
(* What pages show.                                                        *)

(* Once an update has been answered its pipeline shows its body.           *)
LEMMA AnswerShown ==
  ASSUME StoreInv, NEW i \in Instances, Answer(i), put[i].env \in Pipelines
  PROVE  /\ put[i] # NoPut
         /\ store'[StoreOf(i)'][put[i].env] = put[i].body
         /\ \A p \in Pipelines : put[i].env = p => Shown(i, p)'.filters = put[i].body
<1>1. put[i] # NoPut /\ Saved(i) /\ shared' = shared
  BY Zenon DEF Answer, Update
<1> QED  BY <1>1, SavedShown DEF StoreInv

LEMMA PageIsStoredStep ==
  ASSUME EditorsInv, [EditorsNext]_editorVars
  PROVE  PageIsStored'
<1> USE DEF EditorsInv
<1> SUFFICES ASSUME OnlyInstance, ~forgetful', NEW e \in Browsers, NEW i \in Instances,
                    NEW p \in fresh'[e], ~Pending(p)'
             PROVE  page'[e][p] = EntriesOf[Shown(i, p)'.filters]
  BY DEF PageIsStored, OnlyInstance
<1>1. /\ ~forgetful /\ p \in Pipelines
      /\ \A q \in fresh[e] : UnderWayFrom(e, q)
  BY ForgetfulGrows, EditorsTypeOKStep DEF EditorsTypeOK, PageInv
<1>2. \A q \in fresh[e] : ~Pending(q) => page[e][q] = EntriesOf[Shown(i, q).filters]
  BY <1>1 DEF PageIsStored
<1>3. put[i].env # p => Shown(i, p)'.filters = Shown(i, p).filters
  BY <1>1, StepOfService, ShownKept
<1>4. (\A s \in saves' : s.env # p) /\ \A j \in Instances : put'[j].env # p
  BY DEF Pending
<1>5. ASSUME p \in fresh[e], \A s \in saves : s.env # p, put[i].env # p, page'[e][p] = page[e][p]
      PROVE  page'[e][p] = EntriesOf[Shown(i, p)'.filters]
  <2>1. ~Pending(p)
    BY <1>5, OneOnly DEF Pending
  <2> QED  BY <1>2, <1>3, <1>5, <2>1
<1>6. ASSUME NEW f \in Browsers, NEW j \in Instances, Open(f, j)
      PROVE  page'[e][p] = EntriesOf[Shown(i, p)'.filters]
  <2>1. UNCHANGED <<saves, put>>
    BY <1>6, Zenon DEF Open, vars
  <2>2. CASE e = f
    <3>1. page'[e][p] = EntriesOf[Shown(i, p).filters]
      BY <1>6, <2>2, OneOnly, OpenPage
    <3> QED  BY <1>3, <1>4, <2>1, <3>1
  <2>3. CASE e # f
    <3>1. p \in fresh[e] /\ page'[e] = page[e]
      BY <1>6, <2>3 DEF Open, EditorsTypeOK
    <3> QED  BY <1>4, <1>5, <2>1, <3>1
  <2> QED  BY <2>2, <2>3
<1>7. ASSUME NEW f \in Browsers, NEW q \in Pipelines, NEW adds \in SUBSET Entries,
             NEW drops \in SUBSET Entries, page[f] # NoPage, Save(f, q, adds, drops)
      PROVE  page'[e][p] = EntriesOf[Shown(i, p)'.filters]
  <2>1. put' = put
    BY <1>7, Zenon DEF Save, vars
  <2>2. PICK s : saves' = saves \cup {s} /\ s.env = q
    BY <1>7, NewSave
  <2>3. p \in fresh[e]
    BY <1>7 DEF Save, EditorsTypeOK
  <2>4. p # q /\ \A t \in saves : t.env # p
    BY <1>4, <2>2
  <2>5. page'[e][p] = page[e][p]
    <3>1. CASE e = f
      BY <1>1, <1>7, <2>4, <3>1, SavePage
    <3>2. CASE e # f
      BY <1>7, <3>2, SavePage
    <3> QED  BY <3>1, <3>2
  <2> QED  BY <1>4, <1>5, <2>1, <2>3, <2>4, <2>5
<1>8. ASSUME NEW j \in Instances, Arrive(j)
      PROVE  page'[e][p] = EntriesOf[Shown(i, p)'.filters]
  <2>1. PICK s \in saves : Load(j, s.env, s.body) /\ saves' = saves \ {s}
    BY <1>8 DEF Arrive
  <2>2. s.env \in Pipelines
    BY DEF EditorsTypeOK, Saves
  <2>3. put[j] = NoPut /\ put'[j].env = s.env
    BY <2>1, <2>2, Loaded DEF EditorsTypeOK
  <2>4. page' = page /\ fresh' = fresh
    BY <1>8 DEF Arrive, history
  <2>5. i = j
    BY OneOnly
  <2> QED  BY <1>1, <1>4, <1>5, <2>1, <2>3, <2>4, <2>5, PutHasNoEnv
<1>9. ASSUME NEW j \in Instances, ForeignPut(j)
      PROVE  page'[e][p] = EntriesOf[Shown(i, p)'.filters]
  <2>1. PICK q \in Pipelines, b \in Foreign :
          Load(j, q, b) /\ fresh' = [f \in Browsers |-> fresh[f] \ {q}]
    BY <1>9 DEF ForeignPut
  <2>2. page' = page /\ saves' = saves /\ p \in fresh[e]
    BY <1>9, <2>1 DEF ForeignPut
  <2>3. put[i] = NoPut
    BY <2>1, OneOnly DEF Load
  <2> QED  BY <1>1, <1>4, <1>5, <2>2, <2>3, PutHasNoEnv
<1>10. ASSUME NEW j \in Instances, Answer(j)
      PROVE  page'[e][p] = EntriesOf[Shown(i, p)'.filters]
  <2>1. saves' = saves /\ page' = page /\ fresh' = fresh
    BY <1>10, Zenon DEF Answer
  <2>2. CASE put[i].env # p
    BY <1>4, <1>5, <2>1, <2>2
  <2>3. CASE put[i].env = p
    <3>1. put[i] # NoPut /\ Shown(i, p)'.filters = put[i].body
      BY <1>1, <1>10, <2>3, OneOnly, AnswerShown
    <3>2. EntriesOf[put[i].body] = page[e][p]
      BY <1>1, <2>1, <2>3, <3>1 DEF UnderWayFrom
    <3> QED  BY <2>1, <3>1, <3>2
  <2> QED  BY <2>2, <2>3
<1>11. ASSUME NEW j \in Instances, Abandon(j)
      PROVE  page'[e][p] = EntriesOf[Shown(i, p)'.filters]
  <2>1. saves' = saves /\ page' = page /\ p \in fresh[e]
    BY <1>11, Done
  <2>2. put[i].env # p
    <3> SUFFICES ASSUME put[i].env = p PROVE FALSE
      OBVIOUS
    <3>1. i = j /\ put[i] # NoPut
      BY <1>1, OneOnly, PutHasNoEnv
    <3>2. serving[i] # NoSave /\ serving[i].by = e /\ serving[i].env = p
      BY <1>1, <2>1, <3>1 DEF UnderWayFrom, SavesInv
    <3>3. fresh' = [fresh EXCEPT ![e] = @ \ {p}]
      BY <1>11, <3>1, <3>2 DEF Abandon, Stale
    <3> QED  BY <3>3 DEF EditorsTypeOK
  <2> QED  BY <1>4, <1>5, <2>1, <2>2
<1>12. ASSUME NEW j \in Instances, Boot(j)
      PROVE  page'[e][p] = EntriesOf[Shown(i, p)'.filters]
  <2>1. UNCHANGED <<page, saves, put, fresh>>
    BY <1>12, Zenon DEF Boot, Start, history
  <2> QED  BY <1>4, <1>5, <2>1
<1>13. CASE Vanish
  <2>1. PICK s \in saves : saves' = saves \ {s} /\ Stale(s)
    BY <1>13 DEF Vanish
  <2>2. UNCHANGED <<page, put>>
    BY <1>13, Zenon DEF Vanish, vars
  <2>3. p \in fresh[e] /\ fresh' = [fresh EXCEPT ![s.by] = @ \ {s.env}]
    BY <2>1 DEF Stale, EditorsTypeOK
  <2>4. s.env # p
    <3> SUFFICES ASSUME s.env = p PROVE FALSE
      OBVIOUS
    <3>1. s.by = e
      BY <1>1, <2>3 DEF UnderWayFrom
    <3> QED  BY <2>3, <3>1 DEF EditorsTypeOK
  <2> QED  BY <1>4, <1>5, <2>1, <2>2, <2>3, <2>4
<1>14. CASE UNCHANGED editorVars
  BY <1>4, <1>5, <1>14 DEF editorVars, vars
<1> QED  BY <1>6, <1>7, <1>8, <1>9, <1>10, <1>11, <1>12, <1>13, <1>14, Steps, Zenon
-----------------------------------------------------------------------------
(* Confirmed edits.                                                        *)

LEMMA CarefulShrinks ==
  ASSUME [EditorsNext]_editorVars, EditorsTypeOK
  PROVE  careful' \subseteq careful
<1>1. ASSUME NEW e, NEW p, NEW adds, NEW drops, Save(e, p, adds, drops)
      PROVE  careful' \subseteq careful
  <2>1. careful' = IF p \in fresh[e] /\ ~Pending(p) THEN careful ELSE careful \ {p}
    BY <1>1, Zenon DEF Save
  <2> QED  BY <2>1
<1>2. ASSUME Vanish \/ UNCHANGED editorVars
             \/ (\E i \in Instances : Boot(i) \/ Arrive(i) \/ ForeignPut(i) \/ Answer(i) \/ Abandon(i))
             \/ (\E e \in Browsers, i \in Instances : Open(e, i))
      PROVE  careful' = careful
  BY <1>2, Zenon DEF Vanish, editorVars, Boot, Arrive, ForeignPut, Answer, Abandon, Open, history
<1> QED  BY <1>1, <1>2, Steps, Zenon

(* Entries that respect the confirmed edits do so when fewer are confirmed. *)
LEMMA RespectsFewer ==
  ASSUME NEW p, NEW entries, Respects(p, entries),
         \A x \in Entries : kept'[p][x] \in {"unknown", kept[p][x]}
  PROVE  Respects(p, entries)'
BY DEF Respects

(* What a careful page shows undoes none of them.                          *)
LEMMA PageRespects ==
  ASSUME EditorsInv, OnlyInstance, ~forgetful, NEW e \in Browsers, NEW p \in fresh[e],
         ~Pending(p), p \in careful
  PROVE  Respects(p, page[e][p])
<1>1. PICK i \in Instances : TRUE
  BY EditorsAssumption
<1>2. page[e][p] = EntriesOf[Shown(i, p).filters] /\ Kept(i, p)
  BY DEF EditorsInv, PageIsStored, ConfirmedEditsKept
<1> QED  BY <1>2 DEF Respects, Kept, Shown, Whole

LEMMA KeptInvStep ==
  ASSUME EditorsInv, [EditorsNext]_editorVars
  PROVE  KeptInv'
<1> USE DEF EditorsInv
<1> SUFFICES ASSUME OnlyInstance, ~forgetful', NEW p \in careful'
             PROVE  UnderWayRespects(p)'
  BY DEF KeptInv, OnlyInstance
<1>1. ~forgetful /\ p \in Pipelines /\ p \in careful /\ UnderWayRespects(p)
  BY ForgetfulGrows, CarefulShrinks DEF EditorsTypeOK, KeptInv
<1>2. ASSUME \A x \in Entries : kept'[p][x] \in {"unknown", kept[p][x]},
             saves' \subseteq saves,
             put' = put \/ \A i \in Instances : put'[i] = NoPut
      PROVE  UnderWayRespects(p)'
  BY <1>1, <1>2, RespectsFewer DEF UnderWayRespects
<1>3. ASSUME NEW e \in Browsers, NEW i \in Instances, Open(e, i)
      PROVE  UnderWayRespects(p)'
  BY <1>2, <1>3, Zenon DEF Open, vars
<1>4. ASSUME NEW e \in Browsers, NEW q \in Pipelines, NEW adds \in SUBSET Entries,
             NEW drops \in SUBSET Entries, page[e] # NoPage, Save(e, q, adds, drops)
      PROVE  UnderWayRespects(p)'
  <2>1. put' = put
    BY <1>4, Zenon DEF Save, vars
  <2>2. PICK s : saves' = saves \cup {s} /\ s.env = q /\ EntriesOf[s.body] = Edited(page[e][q], adds, drops)
    BY <1>4, NewSave
  <2>3. kept' = [kept EXCEPT ![q] =
                   [x \in Entries |-> IF x \in adds \cup drops THEN "unknown" ELSE @[x]]]
    BY <1>4 DEF Save
  <2>4. \A x \in Entries : kept'[p][x] \in {"unknown", kept[p][x]}
    BY <1>1, <2>3 DEF EditorsTypeOK
  <2>5. CASE p # q
    BY <1>1, <2>1, <2>2, <2>4, <2>5, RespectsFewer DEF UnderWayRespects
  <2>6. CASE p = q
    <3>1. p \in fresh[e] /\ ~Pending(p)
      <4>1. careful' = IF q \in fresh[e] /\ ~Pending(q) THEN careful ELSE careful \ {q}
        BY <1>4, Zenon DEF Save
      <4> QED  BY <2>6, <4>1
    <3>2. EntriesOf[s.body] = Edited(page[e][p], adds, drops)
      BY <2>2, <2>6
    <3>3. \A x \in adds \cup drops : kept'[p][x] = "unknown"
      BY <2>3, <2>6 DEF EditorsTypeOK
    <3>4. Respects(p, page[e][p])
      BY <1>1, <3>1, PageRespects
    <3>5. Respects(p, EntriesOf[s.body])'
      BY <2>4, <3>2, <3>3, <3>4 DEF Respects, Edited
    <3>6. /\ \A t \in saves : t.env # p
          /\ \A i \in Instances : put[i].env # p
      BY <3>1, NothingPending
    <3> QED  BY <2>1, <2>2, <3>5, <3>6 DEF UnderWayRespects
  <2> QED  BY <2>5, <2>6
<1>5. ASSUME NEW i \in Instances, Arrive(i)
      PROVE  UnderWayRespects(p)'
  <2>1. PICK s \in saves : Load(i, s.env, s.body) /\ saves' = saves \ {s}
    BY <1>5 DEF Arrive
  <2>2. s.env \in Pipelines
    BY DEF EditorsTypeOK, Saves
  <2>3. put'[i].env = s.env /\ put'[i].body = s.body
    BY <2>1, <2>2, Loaded DEF EditorsTypeOK
  <2>4. kept' = kept
    BY <1>5 DEF Arrive, history
  <2> QED  BY <1>1, <2>1, <2>3, <2>4, OneOnly DEF UnderWayRespects, Respects
<1>6. ASSUME NEW i \in Instances, ForeignPut(i)
      PROVE  UnderWayRespects(p)'
  <2>1. PICK q \in Pipelines, b \in Foreign :
          Load(i, q, b) /\ kept' = [kept EXCEPT ![q] = [x \in Entries |-> "unknown"]]
    BY <1>6 DEF ForeignPut
  <2>2. put'[i].env = q /\ saves' = saves
    BY <1>6, <2>1, Loaded DEF ForeignPut, EditorsTypeOK
  <2>3. CASE p = q
    <3>1. \A x \in Entries : kept'[p][x] = "unknown"
      BY <1>1, <2>1, <2>3 DEF EditorsTypeOK
    <3> QED  BY <3>1 DEF UnderWayRespects, Respects
  <2>4. CASE p # q
    <3>1. kept'[p] = kept[p]
      BY <1>1, <2>1, <2>4 DEF EditorsTypeOK
    <3> QED  BY <1>1, <2>2, <2>4, <3>1, OneOnly DEF UnderWayRespects, Respects
  <2> QED  BY <2>3, <2>4
<1>7. ASSUME NEW i \in Instances, Answer(i)
      PROVE  UnderWayRespects(p)'
  <2>1. saves' = saves /\ \A j \in Instances : put'[j] = NoPut
    BY <1>7, Done
  <2>2. CASE kept' = kept
    BY <1>2, <2>1, <2>2
  <2>3. CASE serving[i] # NoSave /\ Badge(serving[i])
    <3>1. CASE serving[i].env = p
      BY <1>1, <2>1, <2>3, <3>1 DEF UnderWayRespects, CarefulInv
    <3>2. CASE serving[i].env # p
      <4>1. kept'[p] = kept[p]
        BY <1>1, <2>3, <3>2 DEF Badge, EditorsTypeOK
      <4> QED  BY <1>2, <2>1, <4>1
    <3> QED  BY <3>1, <3>2
  <2> QED  BY <1>7, <2>2, <2>3 DEF Answer
<1>8. ASSUME NEW i \in Instances, Abandon(i)
      PROVE  UnderWayRespects(p)'
  <2>1. kept' = kept
    BY <1>8 DEF Abandon
  <2> QED  BY <1>2, <1>8, <2>1, Done
<1>9. ASSUME NEW i \in Instances, Boot(i)
      PROVE  UnderWayRespects(p)'
  <2>1. UNCHANGED <<kept, saves, put>>
    BY <1>9, Zenon DEF Boot, Start, history
  <2> QED  BY <1>2, <2>1
<1>10. CASE Vanish
  <2>1. UNCHANGED <<kept, put>> /\ saves' \subseteq saves
    BY <1>10, Zenon DEF Vanish, vars
  <2> QED  BY <1>2, <2>1
<1>11. CASE UNCHANGED editorVars
  BY <1>2, <1>11 DEF editorVars, vars
<1> QED  BY <1>3, <1>4, <1>5, <1>6, <1>7, <1>8, <1>9, <1>10, <1>11, Steps, Zenon

(* What the store holds respects the confirmed edits.                      *)
LEMMA KeptSame ==
  ASSUME NEW i, NEW p, Kept(i, p), store'[StoreOf(i)'][p] = store[StoreOf(i)][p],
         \A x \in Entries : kept'[p][x] \in {"unknown", kept[p][x]}
  PROVE  Kept(i, p)'
BY DEF Kept

LEMMA ConfirmedEditsKeptStep ==
  ASSUME EditorsInv, [EditorsNext]_editorVars
  PROVE  ConfirmedEditsKept'
<1> USE DEF EditorsInv
<1> SUFFICES ASSUME OnlyInstance, ~forgetful', NEW i \in Instances, NEW p \in careful'
             PROVE  Kept(i, p)'
  BY DEF ConfirmedEditsKept, OnlyInstance
<1>1. ~forgetful /\ p \in Pipelines /\ p \in careful /\ Kept(i, p) /\ UnderWayRespects(p)
  BY ForgetfulGrows, CarefulShrinks DEF EditorsTypeOK, KeptInv, ConfirmedEditsKept
<1>2. put[i].env # p => store'[StoreOf(i)'][p] = store[StoreOf(i)][p]
  BY <1>1, StepOfService, ShownKept
<1>3. ASSUME \A x \in Entries : kept'[p][x] \in {"unknown", kept[p][x]}, store' = store, shared' = shared
      PROVE  Kept(i, p)'
  BY <1>1, <1>3, StoreOfFixed, KeptSame
<1>4. ASSUME NEW b, store'[StoreOf(i)'][p] = b, b \in Bodies, Respects(p, EntriesOf[b]),
             kept'[p] = kept[p]
      PROVE  Kept(i, p)'
  BY <1>4, Origin DEF Kept, Respects
<1>5. ASSUME NEW j \in Instances, Answer(j)
      PROVE  Kept(i, p)'
  <2>1. i = j /\ put[i] # NoPut /\ put[i].env \in Pipelines /\ put[i].body \in Bodies
    BY <1>5, OneOnly, PutType, Zenon DEF Answer, Update, EditorsTypeOK
  <2>2. CASE put[i].env = p
    <3>1. store'[StoreOf(i)'][p] = put[i].body
      BY <1>5, <2>1, <2>2, AnswerShown
    <3>2. Respects(p, EntriesOf[put[i].body])
      BY <1>1, <2>1, <2>2 DEF UnderWayRespects
    <3>3. CASE kept' = kept
      BY <1>4, <2>1, <3>1, <3>2, <3>3
    <3>4. CASE serving[i] # NoSave /\ Badge(serving[i])
      <4>1. serving[i].env = p /\ serving[i].body = put[i].body /\ Carries(serving[i])
        BY <2>2, <3>4 DEF SavesInv
      <4>2. \A x \in Entries : kept'[p][x] =
              IF x \in serving[i].adds THEN "present"
              ELSE IF x \in serving[i].drops THEN "absent" ELSE kept[p][x]
        BY <1>1, <3>4, <4>1 DEF Badge, EditorsTypeOK
      <4> QED  BY <2>1, <3>1, <3>2, <4>1, <4>2, Origin DEF Kept, Respects, Carries
    <3> QED  BY <1>5, <2>1, <3>3, <3>4 DEF Answer
  <2>3. CASE put[i].env # p
    <3>1. kept'[p] = kept[p]
      <4>1. CASE serving[i] # NoSave /\ Badge(serving[i])
        BY <1>1, <2>3, <4>1 DEF Badge, SavesInv, EditorsTypeOK
      <4> QED  BY <1>5, <2>1, <4>1 DEF Answer
    <3> QED  BY <1>1, <1>2, <2>3, <3>1, KeptSame
  <2> QED  BY <2>2, <2>3
<1>6. ASSUME NEW j \in Instances, Abandon(j)
      PROVE  Kept(i, p)'
  <2>1. i = j /\ kept' = kept
    BY <1>6, OneOnly DEF Abandon
  <2>2. CASE put[i].env # p
    BY <1>1, <1>2, <2>1, <2>2, KeptSame
  <2>3. CASE put[i].env = p
    <3>1. put[i] # NoPut /\ put[i].body \in Bodies /\ Respects(p, EntriesOf[put[i].body])
      BY <1>1, <2>3, PutHasNoEnv, PutType DEF UnderWayRespects, EditorsTypeOK
    <3>2. shared' = shared /\ (store' = store \/ Saved(i))
      BY <1>6, <2>1, Zenon DEF Abandon, Stop, SaveFails, FileLost
    <3>3. CASE store' = store
      BY <1>3, <2>1, <3>2, <3>3
    <3>4. CASE Saved(i)
      <4>1. store'[StoreOf(i)'][p] = put[i].body
        BY <1>1, <2>3, <3>1, <3>2, <3>4, SavedShown DEF EditorsTypeOK
      <4> QED  BY <1>4, <2>1, <3>1, <4>1
    <3> QED  BY <3>2, <3>3, <3>4
  <2> QED  BY <2>2, <2>3
<1>7. ASSUME NEW j \in Instances, Boot(j)
      PROVE  Kept(i, p)'
  <2>1. UNCHANGED <<kept, store, shared>>
    BY <1>7, Zenon DEF Boot, Start, history
  <2> QED  BY <1>3, <2>1
<1>8. ASSUME NEW j \in Instances, Arrive(j)
      PROVE  Kept(i, p)'
  <2>1. PICK s \in saves : Load(j, s.env, s.body)
    BY <1>8 DEF Arrive
  <2>2. UNCHANGED <<kept, store, shared>>
    BY <1>8, <2>1, Zenon DEF Arrive, Load, history
  <2> QED  BY <1>3, <2>2
<1>9. ASSUME NEW j \in Instances, ForeignPut(j)
      PROVE  Kept(i, p)'
  <2>1. PICK q \in Pipelines, b \in Foreign :
          Load(j, q, b) /\ kept' = [kept EXCEPT ![q] = [x \in Entries |-> "unknown"]]
    BY <1>9 DEF ForeignPut
  <2>2. UNCHANGED <<store, shared>>
    BY <2>1, Zenon DEF Load
  <2>3. \A x \in Entries : kept'[p][x] \in {"unknown", kept[p][x]}
    BY <1>1, <2>1 DEF EditorsTypeOK
  <2> QED  BY <1>3, <2>2, <2>3
<1>10. ASSUME NEW e \in Browsers, NEW q \in Pipelines, NEW adds \in SUBSET Entries,
              NEW drops \in SUBSET Entries, Save(e, q, adds, drops)
       PROVE  Kept(i, p)'
  <2>1. UNCHANGED <<store, shared>>
    BY <1>10, Zenon DEF Save, vars
  <2>2. kept' = [kept EXCEPT ![q] =
                   [x \in Entries |-> IF x \in adds \cup drops THEN "unknown" ELSE @[x]]]
    BY <1>10 DEF Save
  <2>3. \A x \in Entries : kept'[p][x] \in {"unknown", kept[p][x]}
    BY <1>1, <2>2 DEF EditorsTypeOK
  <2> QED  BY <1>3, <2>1, <2>3
<1>11. ASSUME Vanish \/ UNCHANGED editorVars \/ \E e \in Browsers, j \in Instances : Open(e, j)
       PROVE  UNCHANGED <<kept, store, shared>>
  BY <1>11, Zenon DEF Vanish, editorVars, vars, Open
<1> QED  BY <1>3, <1>5, <1>6, <1>7, <1>8, <1>9, <1>10, <1>11, Steps, Zenon

LEMMA InitEditorsInv == EditorsInit => EditorsInv
<1> SUFFICES ASSUME EditorsInit PROVE EditorsInv
  OBVIOUS
<1>1. Init /\ StoreInv /\ EditorsTypeOK
  BY InitStoreInv, InitEditorsTypeOK DEF EditorsInit
<1>2. /\ saves = {} /\ \A i \in Instances : put[i] = NoPut /\ serving[i] = NoSave
      /\ \A e \in Browsers : fresh[e] = {}
      /\ \A p \in Pipelines, x \in Entries : kept[p][x] = "unknown"
      /\ \A i \in Instances, p \in Pipelines : config[i][p].filters = Environment
  BY DEF EditorsInit, Init, Whole
<1>3. SavesInv /\ ConfigInv /\ CarefulInv
  BY <1>2 DEF SavesInv, ConfigInv, CarefulInv
<1>4. PageInv /\ PageIsStored
  BY <1>2 DEF PageInv, PageIsStored
<1>5. KeptInv
  BY <1>2 DEF KeptInv, UnderWayRespects
<1>6. ConfirmedEditsKept
  BY <1>1, <1>2 DEF ConfirmedEditsKept, Kept, EditorsTypeOK
<1> QED  BY <1>1, <1>3, <1>4, <1>5, <1>6 DEF EditorsInv

LEMMA EditorsInvStep ==
  ASSUME EditorsInv, [EditorsNext]_editorVars
  PROVE  EditorsInv'
<1>1. /\ EditorsTypeOK /\ TypeOK /\ StoreInv /\ SavesInv /\ ConfigInv
      /\ CarefulInv /\ PageInv /\ [Next]_vars
  BY StepOfService DEF EditorsInv, EditorsTypeOK
<1>2. EditorsTypeOK' /\ StoreInv' /\ SavesInv' /\ ConfigInv' /\ CarefulInv' /\ PageInv'
  BY <1>1, EditorsTypeOKStep, StoreInvStep, SavesInvStep, ConfigInvStep, CarefulInvStep,
     PageInvStep
<1>3. PageIsStored' /\ KeptInv' /\ ConfirmedEditsKept'
  BY PageIsStoredStep, KeptInvStep, ConfirmedEditsKeptStep
<1> QED  BY <1>2, <1>3 DEF EditorsInv

LEMMA EditorsInvHolds == EditorsSpec => []EditorsInv
<1>1. EditorsInv /\ [EditorsNext]_editorVars => EditorsInv'
  BY EditorsInvStep
<1> QED  BY <1>1, InitEditorsInv, PTL DEF EditorsSpec

(* While pages of a pipeline are loaded and used one after the other, no   *)
(* restart, failed save or refused entry costs a confirmed edit: only      *)
(* pages that work at once undo each other's edits.                        *)
THEOREM EditorsConfirmedEditsKept == EditorsSpec => []ConfirmedEditsKept
<1>1. EditorsInv => ConfirmedEditsKept
  BY DEF EditorsInv
<1> QED  BY <1>1, EditorsInvHolds, PTL

(* A page that no other request has overtaken and whose saves all got      *)
(* through shows what a reload would show, after any restart.              *)
THEOREM EditorsPageIsStored == EditorsSpec => []PageIsStored
<1>1. EditorsInv => PageIsStored
  BY DEF EditorsInv
<1> QED  BY <1>1, EditorsInvHolds, PTL
=============================================================================
