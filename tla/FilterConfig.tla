---------------------------- MODULE FilterConfig ----------------------------
(***************************************************************************)
(* PUT /api/pipelines/{env}/filters of app/main.py with app/filter_store.py *)
(* and the PipelineState it changes, for several instances of the service. *)
(* set_pipeline() reads the whole store, replaces one entry and writes the *)
(* whole store back; then the handler changes the pipeline's config and    *)
(* builds a new filter engine from it.  The handler has no await after it  *)
(* read the body: on one instance nothing runs between its steps, on       *)
(* another one or in the bucket everything may.                            *)
(*                                                                         *)
(* The bucket, the file system and the platform are external.              *)
(***************************************************************************)
EXTENDS Naturals, FiniteSets

CONSTANTS
  Instances,       \* instances of the service
  Pipelines,       \* names in PIPELINES_JSON
  Bodies,          \* request bodies: JSON, its objects with both of their keys
  Quality,         \* Quality[b]: how far the handler gets with b
  MaxUpdates,      \* bound on the requests
  MaxDisruptions   \* bound on the ends of instances and store failures

(* A good body is applied; the rules of an unbuildable one do not parse    *)
(* (FilterEngine.from_pipeline raises); the filters of a malformed one are *)
(* no EventFilterConfig; a shapeless one is no object and has no get().    *)
Qualities == {"good", "unbuildable", "malformed", "shapeless"}

ASSUME FilterConfigAssumption ==
  /\ Quality \in [Bodies -> Qualities]
  /\ MaxUpdates \in Nat /\ MaxDisruptions \in Nat

VARIABLES
  shared,          \* GCS_BUCKET is set, else a file per instance; never changes
  up,              \* instances that run
  config,          \* config[i][p]: event_type_field and event_filters
  engine,          \* engine[i][p]: PipelineState.filter_engine
  consumerEngine,  \* KafkaConsumerService's own reference to an engine
  put,             \* put[i]: the request between load() and save()
  answered,        \* answered[i][p]: the answer to the last PUT since the start
  store,           \* store[m][p]: what the store m holds for p
  latest,          \* latest[m][p]: the last body written to m for p
  forgetful,       \* a read has failed or a file was lost
  updates, disruptions

pipelineState == <<config, engine, consumerEngine, answered>>
vars == <<shared, up, pipelineState, put, store, latest, forgetful, updates, disruptions>>

Environment == "environment"  \* the origin of what PIPELINES_JSON configures
Absent == "absent"
NoPut == [env |-> Absent]
ASSUME OriginAssumption == Environment \notin Bodies /\ Absent \notin Bodies \cup Pipelines

Origins == Bodies \cup {Environment}
Settings == [field : Origins, filters : Origins]
Whole(o) == [field |-> o, filters |-> o]
Content == [Pipelines -> Bodies \cup {Absent}]
Empty == [p \in Pipelines |-> Absent]

Stores == {"bucket"} \cup Instances
StoreOf(i) == IF shared THEN "bucket" ELSE i

Disrupt ==
  /\ disruptions < MaxDisruptions
  /\ disruptions' = disruptions + 1

Init ==
  /\ shared \in BOOLEAN
  /\ up = {}
  /\ config = [i \in Instances |-> [p \in Pipelines |-> Whole(Environment)]]
  /\ engine = config /\ consumerEngine = config
  /\ put = [i \in Instances |-> NoPut]
  /\ answered = [i \in Instances |-> [p \in Pipelines |-> "none"]]
  /\ store = [m \in Stores |-> Empty] /\ latest = store
  /\ forgetful = FALSE
  /\ updates = 0 /\ disruptions = 0
-----------------------------------------------------------------------------
(* The lifespan: every pipeline from PIPELINES_JSON, nothing from the      *)
(* store; the consumer is given the engine of that moment.                 *)
Start(i) ==
  /\ i \notin up
  /\ up' = up \cup {i}
  /\ LET initial == [p \in Pipelines |-> Whole(Environment)] IN
       /\ config' = [config EXCEPT ![i] = initial]
       /\ engine' = [engine EXCEPT ![i] = initial]
       /\ consumerEngine' = [consumerEngine EXCEPT ![i] = initial]
  /\ answered' = [answered EXCEPT ![i] = [p \in Pipelines |-> "none"]]
  /\ UNCHANGED <<shared, put, store, latest, forgetful, updates, disruptions>>

(* The file is gone with its container, or was truncated but not written.  *)
FileLost(i) ==
  /\ ~shared
  /\ store' = [store EXCEPT ![i] = Empty]
  /\ forgetful' = TRUE

(* The process ends, perhaps within set_pipeline(). *)
Stop(i) ==
  /\ i \in up
  /\ Disrupt
  /\ up' = up \ {i}
  /\ put' = [put EXCEPT ![i] = NoPut]
  /\ UNCHANGED <<store, forgetful>> \/ FileLost(i)
  /\ UNCHANGED <<shared, pipelineState, latest, updates>>

(* What load() returns: the content, or nothing when reading it raised.    *)
Loads(m, content) ==
  \/ content = store[m] /\ UNCHANGED <<forgetful, disruptions>>
  \/ content = Empty /\ forgetful' = TRUE /\ Disrupt

(* A PUT for a known pipeline with a JSON body, up to the end of load().   *)
Load(i, p, b) ==
  /\ i \in up /\ put[i] = NoPut /\ updates < MaxUpdates
  /\ \E content \in {store[StoreOf(i)], Empty} :
       /\ Loads(StoreOf(i), content)
       /\ put' = [put EXCEPT ![i] = [env |-> p, body |-> b, data |-> content]]
  /\ updates' = updates + 1
  /\ UNCHANGED <<shared, up, pipelineState, store, latest>>

(* Mutants: the entry alone is written, or one there is already prevails.  *)
ToSaveAlone(i) == [Empty EXCEPT ![put[i].env] = put[i].body]
ToSaveFirst(i) ==
  [put[i].data EXCEPT ![put[i].env] = IF @ = Absent THEN put[i].body ELSE @]

(* What set_pipeline() writes. *)
ToSave(i) == [put[i].data EXCEPT ![put[i].env] = put[i].body]

(* save() has written the store. *)
Saved(i) ==
  /\ store' = [store EXCEPT ![StoreOf(i)] = ToSave(i)]
  /\ latest' = [latest EXCEPT ![StoreOf(i)][put[i].env] = put[i].body]

Respond(i, answer) ==
  /\ answered' = [answered EXCEPT ![i][put[i].env] = answer]
  /\ put' = [put EXCEPT ![i] = NoPut]

(* Mutants: the filters are cleared before the new ones are parsed, or the *)
(* field is not updated.                                                   *)
ReconfiguredClears(s, b) ==
  IF Quality[b] = "shapeless" THEN s
  ELSE IF Quality[b] = "malformed" THEN [field |-> b, filters |-> Absent]
  ELSE Whole(b)

ReconfiguredFiltersOnly(s, b) ==
  IF Quality[b] \in {"shapeless", "malformed"} THEN s ELSE [s EXCEPT !.filters = b]

(* The config after the body: the field is assigned before the filters are *)
(* parsed, and nothing of what is no object.                               *)
Reconfigured(s, b) ==
  IF Quality[b] = "shapeless" THEN s
  ELSE IF Quality[b] = "malformed" THEN [s EXCEPT !.field = b]
  ELSE Whole(b)

(* Mutants: the engine takes the field with its filters refused, or it is  *)
(* built before the field is updated.                                      *)
ApplyFieldFirst(i, p, b) ==
  /\ config' = [config EXCEPT ![i][p] = Reconfigured(@, b)]
  /\ engine' = [engine EXCEPT ![i][p] =
       IF Quality[b] = "good" THEN config'[i][p] ELSE [@ EXCEPT !.field = b]]
  /\ Respond(i, IF Quality[b] = "good" THEN "ok" ELSE "error")

ApplyEngineEarly(i, p, b) ==
  /\ config' = [config EXCEPT ![i][p] = Reconfigured(@, b)]
  /\ engine' = IF Quality[b] = "good"
               THEN [engine EXCEPT ![i][p] = [config[i][p] EXCEPT !.filters = b]] ELSE engine
  /\ Respond(i, IF Quality[b] = "good" THEN "ok" ELSE "error")

(* The rest of the handler: the config, and the engine unless that cannot  *)
(* be built; 500 where it raises.                                          *)
Apply(i, p, b) ==
  /\ config' = [config EXCEPT ![i][p] = Reconfigured(@, b)]
  /\ engine' = IF Quality[b] = "good" THEN [engine EXCEPT ![i][p] = config'[i][p]] ELSE engine
  /\ Respond(i, IF Quality[b] = "good" THEN "ok" ELSE "error")

(* save() returns and the handler goes on to its end. *)
Update(i) ==
  /\ put[i] # NoPut
  /\ Saved(i)
  /\ Apply(i, put[i].env, put[i].body)
  /\ UNCHANGED <<shared, up, consumerEngine, forgetful, updates, disruptions>>

(* save() raises, 500: the bucket may have the new content nevertheless, a *)
(* file may have been truncated.                                           *)
SaveFails(i) ==
  /\ put[i] # NoPut
  /\ Disrupt
  /\ \/ UNCHANGED <<store, latest, forgetful>>
     \/ shared /\ Saved(i) /\ UNCHANGED forgetful
     \/ FileLost(i) /\ UNCHANGED latest
  /\ Respond(i, "error")
  /\ UNCHANGED <<shared, up, config, engine, consumerEngine, updates>>

Next ==
  \E i \in Instances :
    \/ Start(i) \/ Stop(i) \/ Update(i) \/ SaveFails(i)
    \/ \E p \in Pipelines, b \in Bodies : Load(i, p, b)

Spec == Init /\ [][Next]_vars
-----------------------------------------------------------------------------
(* GET /api/pipelines raises, for all pipelines, where the entry of one is *)
(* no object.                                                              *)
Showable(i, p) ==
  LET saved == store[StoreOf(i)][p]
  IN  saved # Absent => Quality[saved] # "shapeless"

(* What it answers: the stored entry, else the config in use. *)
Shown(i, p) ==
  LET saved == store[StoreOf(i)][p]
  IN  IF saved = Absent THEN config[i][p] ELSE Whole(saved)

TypeOK ==
  /\ shared \in BOOLEAN /\ forgetful \in BOOLEAN
  /\ up \subseteq Instances
  /\ config \in [Instances -> [Pipelines -> Settings]]
  /\ engine \in [Instances -> [Pipelines -> Settings]]
  /\ consumerEngine \in [Instances -> [Pipelines -> Settings]]
  /\ put \in [Instances -> {NoPut} \cup [env : Pipelines, body : Bodies, data : Content]]
  /\ \A i \in Instances : put[i] # NoPut => i \in up
  /\ answered \in [Instances -> [Pipelines -> {"none", "ok", "error"}]]
  /\ store \in [Stores -> Content] /\ latest \in [Stores -> Content]
  /\ updates \in 0 .. MaxUpdates /\ disruptions \in 0 .. MaxDisruptions

(* The engine in use is always built from one source as a whole, from one  *)
(* that is good, although a refused update leaves a config of two origins  *)
(* behind; and until an update is refused engine and config agree.         *)
EngineWhole ==
  \A i \in Instances, p \in Pipelines :
    /\ \/ engine[i][p] = Whole(Environment)
       \/ \E b \in Bodies : Quality[b] = "good" /\ engine[i][p] = Whole(b)
    /\ answered[i][p] # "error" => config[i][p] = engine[i][p]

(* No store has two writers: a file, or a bucket with one instance. *)
OneWriter == ~shared \/ \A i, j \in Instances : i = j

(* The store holds for each pipeline what was last written for it, across  *)
(* requests, restarts and failed writes, until a read fails or the file is *)
(* lost: writing back the whole store costs no other pipeline its entry.   *)
StoreIsLatest == OneWriter /\ ~forgetful => store = latest

(* A failed read and a torn or lost file may forget an entry; none brings  *)
(* an older one back.                                                      *)
NeverAnOlderOne ==
  OneWriter => \A m \in Stores, p \in Pipelines : store[m][p] \in {latest[m][p], Absent}

(* What GET has of a pipeline after an accepted update is what decides     *)
(* about POST /ingest until the instance restarts, whatever became of the  *)
(* store; and it is another pipeline's entry where GET raises then.        *)
ShownIsInForce ==
  OneWriter => \A i \in up, p \in Pipelines :
    put[i] = NoPut /\ answered[i][p] = "ok"
      => Showable(i, p) /\ Shown(i, p) = engine[i][p]
-----------------------------------------------------------------------------
(* README.md:83 says of an update in the UI that it applies instantly, and *)
(* app/main.py:329 that it hot-reloads the filter engine: an accepted      *)
(* update is in force for the Kafka consumer of the pipeline too.          *)
AppliesToConsumer ==
  \A i \in up, p \in Pipelines :
    answered[i][p] = "ok" => consumerEngine[i][p] = engine[i][p]

(* README.md:84 and app/filter_store.py:3-4 say that a stored filter       *)
(* config survives redeployments: an instance that has not been updated    *)
(* since its start filters by what the store holds.                        *)
StoredIsInForce ==
  \A i \in up, p \in Pipelines :
    LET saved == store[StoreOf(i)][p]
    IN  answered[i][p] = "none" /\ saved # Absent /\ Quality[saved] = "good"
          => engine[i][p] = Whole(saved)

(* README.md:84 says that the filter config is stored: an accepted update  *)
(* of one instance is not undone by that of another pipeline on another    *)
(* instance.                                                               *)
UpdatesSurvive == ~forgetful => store = latest
=============================================================================
