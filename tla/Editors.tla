------------------------------- MODULE Editors -------------------------------
(***************************************************************************)
(* Pages of app/static/index.html on the filter configuration API of       *)
(* module FilterConfig.  A page holds a copy of every pipeline's filters,  *)
(* read once; each edit changes the copy and sends all of a pipeline's     *)
(* entries with it.  Nothing orders one page's saves or compares the copy  *)
(* with what is stored by then; a save that fails leaves its edit on the   *)
(* page.  Other clients of the API send what they like.                    *)
(*                                                                         *)
(* An entry is an event type with its rules.  Browsers and network are     *)
(* external.                                                               *)
(***************************************************************************)
EXTENDS FilterConfig

CONSTANTS
  Browsers,   \* open at most one page each
  Entries,    \* entries of event_filters
  Offered,    \* those the modal can make
  EntriesOf,  \* EntriesOf[o]: what the origin o has in event_filters
  Foreign,    \* bodies that come from other clients
  MaxSaves    \* bound on the saves sent by pages

ASSUME EditorsAssumption ==
  /\ Offered \subseteq Entries /\ Foreign \subseteq Bodies
  /\ EntriesOf \in [Origins -> SUBSET Entries]
  /\ \A s \in SUBSET Entries : \E b \in Bodies : EntriesOf[b] = s /\ Quality[b] # "shapeless"
  /\ Instances # {}
  /\ MaxSaves \in Nat

VARIABLES
  page,     \* page[e]: the entries of each pipeline on e's page, or NoPage
  saves,    \* saves on their way to the service
  serving,  \* serving[i]: the save that put[i] is, or NoSave
  sent,     \* number of saves so far
  fresh,    \* history: fresh[e]: pipelines nothing has changed behind e's page
  careful,  \* history: pipelines only ever saved from fresh pages, one at a time
  kept      \* history: kept[p][x]: what the last answered edit made of entry x

editorVars == <<vars, page, saves, serving, sent, fresh, careful, kept>>
history == <<fresh, careful, kept>>

NoPage == [p \in {} |-> {}]
NoSave == [env |-> Absent]

(* The object the page makes of entries. *)
Draft(entries) == CHOOSE b \in Bodies : EntriesOf[b] = entries /\ Quality[b] # "shapeless"

EditorsInit ==
  /\ Init
  /\ page = [e \in Browsers |-> NoPage]
  /\ saves = {} /\ sent = 0
  /\ serving = [i \in Instances |-> NoSave]
  /\ fresh = [e \in Browsers |-> {}]
  /\ careful = Pipelines
  /\ kept = [p \in Pipelines |-> [x \in Entries |-> "unknown"]]

Pending(p) ==
  \/ \E s \in saves : s.env = p
  \/ \E i \in Instances : put[i].env = p
-----------------------------------------------------------------------------
(* load(): GET /api/pipelines, which shows nothing where it raises; where  *)
(* reading the store raises, the config in use is returned.                *)
Open(e, i) ==
  /\ i \in up /\ put[i] = NoPut
  /\ \/ /\ \A p \in Pipelines : Showable(i, p)
        /\ page' = [page EXCEPT ![e] = [p \in Pipelines |-> EntriesOf[Shown(i, p).filters]]]
        /\ fresh' = [fresh EXCEPT ![e] = {p \in Pipelines : ~Pending(p)}]
     \/ /\ page' = [page EXCEPT ![e] = [p \in Pipelines |-> EntriesOf[config[i][p].filters]]]
        /\ fresh' = [fresh EXCEPT ![e] = {}]
  /\ UNCHANGED <<vars, saves, serving, sent, careful, kept>>

(* What an edit makes of a pipeline's entries. *)
Edited(entries, adds, drops) == (entries \ drops) \cup adds

(* Mutants: the payload is made before the edit, or merges what is left.   *)
PayloadBefore(e, p, adds, drops) == Draft(page[e][p])
PayloadMerges(e, p, adds, drops) == Draft(page[e][p] \cup adds)

(* The payload of save(). *)
Payload(e, p, adds, drops) == Draft(Edited(page[e][p], adds, drops))

(* An edit of entries on the page and save() up to its await. *)
Save(e, p, adds, drops) ==
  /\ page[e] # NoPage /\ sent < MaxSaves
  /\ page' = [page EXCEPT ![e][p] = Edited(@, adds, drops)]
  /\ saves' = saves \cup {[by |-> e, env |-> p, body |-> Payload(e, p, adds, drops),
                           adds |-> adds, drops |-> drops, number |-> sent]}
  /\ sent' = sent + 1
  /\ careful' = IF p \in fresh[e] /\ ~Pending(p) THEN careful ELSE careful \ {p}
  /\ fresh' = [f \in Browsers |->
       IF f # e \/ Pending(p) THEN fresh[f] \ {p} ELSE fresh[f]]
  /\ kept' = [kept EXCEPT ![p] =
       [x \in Entries |-> IF x \in adds \cup drops THEN "unknown" ELSE @[x]]]
  /\ UNCHANGED <<vars, serving>>

(* saveModal(): an entry is added or replaced, under another name perhaps. *)
SaveModal(e, p) ==
  \E x \in Offered : \E drops \in {{}} \cup {{y} : y \in page[e][p] \ {x}} :
    Save(e, p, {x}, drops)

(* deleteEventType() *)
DeleteEventType(e, p) == \E y \in page[e][p] : Save(e, p, {}, {y})

(* A save gets through to an instance, in any order, or it does not.       *)
Arrive(i) ==
  \E s \in saves :
    /\ Load(i, s.env, s.body)
    /\ saves' = saves \ {s}
    /\ serving' = [serving EXCEPT ![i] = s]
    /\ UNCHANGED <<page, sent, history>>

Stale(s) == fresh' = [fresh EXCEPT ![s.by] = @ \ {s.env}]

Vanish ==
  \E s \in saves :
    /\ saves' = saves \ {s}
    /\ Stale(s)
    /\ UNCHANGED <<vars, page, serving, sent, careful, kept>>

(* A PUT of another client. *)
ForeignPut(i) ==
  \E p \in Pipelines, b \in Foreign :
    /\ Load(i, p, b)
    /\ fresh' = [e \in Browsers |-> fresh[e] \ {p}]
    /\ kept' = [kept EXCEPT ![p] = [x \in Entries |-> "unknown"]]
    /\ UNCHANGED <<page, saves, serving, sent, careful>>

(* The badge tells the user that the save was answered with 200, unless    *)
(* the answer got lost.                                                    *)
Badge(s) ==
  kept' = [kept EXCEPT ![s.env] =
    [x \in Entries |-> IF x \in s.adds THEN "present" ELSE IF x \in s.drops THEN "absent" ELSE @[x]]]

Answer(i) ==
  /\ Update(i)
  /\ \/ serving[i] # NoSave /\ Quality[put[i].body] = "good" /\ Badge(serving[i])
     \/ UNCHANGED kept
  /\ serving' = [serving EXCEPT ![i] = NoSave]
  /\ UNCHANGED <<page, saves, sent, fresh, careful>>

(* The handler does not get to the end: save() shows nothing of it.        *)
Abandon(i) ==
  /\ Stop(i) \/ SaveFails(i)
  /\ IF serving[i] = NoSave THEN UNCHANGED fresh ELSE Stale(serving[i])
  /\ serving' = [serving EXCEPT ![i] = NoSave]
  /\ UNCHANGED <<page, saves, sent, careful, kept>>

Boot(i) == Start(i) /\ UNCHANGED <<page, saves, serving, sent, history>>

EditorsNext ==
  \/ Vanish
  \/ \E i \in Instances : \/ Boot(i) \/ Arrive(i) \/ ForeignPut(i) \/ Answer(i) \/ Abandon(i)
                          \/ \E e \in Browsers : Open(e, i)
  \/ \E e \in Browsers : page[e] # NoPage /\ \E p \in Pipelines : SaveModal(e, p) \/ DeleteEventType(e, p)

EditorsSpec == EditorsInit /\ [][EditorsNext]_editorVars
-----------------------------------------------------------------------------
Saves ==
  [by : Browsers, env : Pipelines, body : Bodies, adds : SUBSET Entries,
   drops : SUBSET Entries, number : 0 .. MaxSaves - 1]

EditorsTypeOK ==
  /\ TypeOK
  /\ page \in [Browsers -> {NoPage} \cup [Pipelines -> SUBSET Entries]]
  /\ saves \subseteq Saves /\ sent \in 0 .. MaxSaves
  /\ serving \in [Instances -> {NoSave} \cup Saves]
  /\ fresh \in [Browsers -> SUBSET Pipelines]
  /\ careful \subseteq Pipelines
  /\ kept \in [Pipelines -> [Entries -> {"unknown", "present", "absent"}]]

OnlyInstance == \A i, j \in Instances : i = j

(* As long as all saves of a pipeline come from pages that were loaded     *)
(* after everyone else's, one at a time, every edit the badge has          *)
(* confirmed is in the store, across restarts, saves that failed half way  *)
(* and entries of other clients that the service refuses: only the pages   *)
(* themselves undo each other's edits.                                     *)
Kept(i, p) ==
  \A x \in Entries :
    LET saved == store[StoreOf(i)][p]
    IN  /\ kept[p][x] = "present" => saved # Absent /\ x \in EntriesOf[saved]
        /\ kept[p][x] = "absent" => saved # Absent /\ x \notin EntriesOf[saved]

ConfirmedEditsKept ==
  OnlyInstance /\ ~forgetful => \A i \in Instances, p \in careful : Kept(i, p)

(* A page that no other has overtaken and none of whose own saves failed   *)
(* shows what a reload would show.                                         *)
PageIsStored ==
  OnlyInstance /\ ~forgetful =>
    \A e \in Browsers, i \in Instances : \A p \in fresh[e] :
      ~Pending(p) => page[e][p] = EntriesOf[Shown(i, p).filters]
=============================================================================
