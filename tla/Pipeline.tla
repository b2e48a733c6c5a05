------------------------------- MODULE Pipeline -------------------------------
(***************************************************************************)
(* A pipeline's two ways in, the Kafka loop of app/consumer.py and POST    *)
(* /ingest of app/main.py, judge messages (module FilterEngine) while its  *)
(* filters are updated (module FilterConfig).  The loop has the engine it  *)
(* was built with, ingest the one in force now; the schema validator is    *)
(* one object, has the event_type_field it was built with, and counts for  *)
(* both; the metadata is made with the config of the moment.               *)
(*                                                                         *)
(* A message is judged without an await in between, and no PUT is half     *)
(* done meanwhile.  What becomes of a forwarded one is in the modules      *)
(* Consumer, Ingest and Forwarder.                                         *)
(***************************************************************************)
EXTENDS FilterConfig, FilterEngine, Functions

CONSTANTS
  FieldOf,     \* FieldOf[o]: event_type_field of the origin o, as a path, or NoPath
  FiltersOf,   \* FiltersOf[o]: its event_filters
  Schemas,     \* Schemas[p]: event_schemas of PIPELINES_JSON
  Messages,    \* JSON values, of which only objects are events
  MaxMessages  \* bound on the messages between two starts

ASSUME PipelineAssumption ==
  /\ MaxMessages \in Nat
  /\ FieldOf[Environment] # NoPath
  /\ \A o \in Origins : \A t \in DOMAIN FiltersOf[o] :
       LET fs == FiltersOf[o][t]
       IN  /\ fs = [mode |-> fs.mode, rules |-> fs.rules]
           /\ Len(fs.rules) \in Nat
           /\ fs.rules = [n \in 1 .. Len(fs.rules) |-> fs.rules[n]]

VARIABLES
  judged,  \* judged[i][p]: what was made of each message since the start
  stats    \* stats[i][p]: the counters of the consumer and the validator

pipelineVars == <<vars, judged, stats>>

NoStats == [consumed |-> 0, filtered |-> 0, invalid |-> 0,
            schema_valid |-> 0, schema_invalid |-> 0]

PipelineInit ==
  /\ Init
  /\ judged = [i \in Instances |-> [p \in Pipelines |-> <<>>]]
  /\ stats = [i \in Instances |-> [p \in Pipelines |-> NoStats]]

Configure(i) ==
  /\ \/ Stop(i) \/ Update(i) \/ SaveFails(i)
     \/ \E p \in Pipelines, b \in Bodies : Load(i, p, b)
  /\ UNCHANGED <<judged, stats>>

Restart(i) ==
  /\ Start(i)
  /\ judged' = [judged EXCEPT ![i] = [p \in Pipelines |-> <<>>]]
  /\ stats' = [stats EXCEPT ![i] = [p \in Pipelines |-> NoStats]]
-----------------------------------------------------------------------------
(* Mutant: the validator looks where the engine does not. *)
SchemaOfRoot(p, message) == Validate(<<>>, Schemas[p], message)

(* What the validator, if there is one, says of an event. *)
SchemaSays(p, message) ==
  IF DOMAIN Schemas[p] = {} THEN "unknown"
  ELSE Validate(FieldOf[Environment], Schemas[p], message)

EngineSays(e, message) == ShouldForward(FieldOf[e.field], FiltersOf[e.filters], message)

(* Mutant: the event is filtered before it is validated. *)
VerdictFilterFirst(p, e, message) ==
  IF message.kind # "object" THEN "no event"
  ELSE IF EngineSays(e, message) # "forward" THEN EngineSays(e, message)
  ELSE IF SchemaSays(p, message) \in {"raise", "invalid"} THEN SchemaSays(p, message)
  ELSE "forward"

(* The loop: no event, invalid, skip and forward go on, raise ends it.     *)
ConsumerVerdict(p, e, message) ==
  IF message.kind # "object" THEN "no event"
  ELSE IF SchemaSays(p, message) \in {"raise", "invalid"} THEN SchemaSays(p, message)
  ELSE EngineSays(e, message)

(* The route: 422, 422, 200 "filtered", forward(), or 500. *)
IngestVerdict(p, e, message) ==
  IF message.kind # "object" THEN "no event"
  ELSE IF SchemaSays(p, message) \in {"raise", "invalid"} THEN SchemaSays(p, message)
  ELSE EngineSays(e, message)

(* event.get(config.event_type_field): a dotted path is one key to it. *)
TypeInMetadata(i, p, message) ==
  LET path == FieldOf[config[i][p].field]
  IN  IF Len(path) = 1 THEN Field(message, path[1]) ELSE Missing

Record(i, p, path, e, message, verdict) ==
  judged' = [judged EXCEPT ![i][p] = Append(@,
    [pipeline |-> p, path |-> path, engine |-> e, message |-> message, verdict |-> verdict,
     named |-> TypeInMetadata(i, p, message), answered |-> answered[i][p]])]

(* The validator's counters after an event. *)
SchemaCounts(s, p, message) ==
  IF message.kind # "object" THEN s
  ELSE CASE SchemaSays(p, message) = "valid" -> [s EXCEPT !.schema_valid = @ + 1]
         [] SchemaSays(p, message) = "invalid" -> [s EXCEPT !.schema_invalid = @ + 1]
         [] OTHER -> s

(* Mutant: an invalid event counts as filtered as well. *)
CountsTwice(s, p, message, verdict) ==
  LET counted == SchemaCounts(s, p, message)
  IN  [counted EXCEPT !.consumed = @ + 1,
         !.filtered = IF verdict \in {"skip", "invalid"} THEN @ + 1 ELSE @,
         !.invalid = IF verdict = "invalid" THEN @ + 1 ELSE @]

ConsumerCounts(s, p, message, verdict) ==
  LET counted == SchemaCounts(s, p, message)
  IN  [counted EXCEPT !.consumed = @ + 1,
         !.filtered = IF verdict = "skip" THEN @ + 1 ELSE @,
         !.invalid = IF verdict = "invalid" THEN @ + 1 ELSE @]

Idle(i, p) ==
  /\ i \in up /\ put[i] = NoPut
  /\ Len(judged[i][p]) < MaxMessages

Raised(i, p) ==
  \E n \in DOMAIN judged[i][p] :
    judged[i][p][n].path = "kafka" /\ judged[i][p][n].verdict = "raise"

(* The loop gets a record, unless an earlier one has ended it.             *)
Consume(i, p, message) ==
  LET e == consumerEngine[i][p]
      verdict == ConsumerVerdict(p, e, message)
  IN  /\ Idle(i, p) /\ ~Raised(i, p)
      /\ Record(i, p, "kafka", e, message, verdict)
      /\ stats' = [stats EXCEPT ![i][p] = ConsumerCounts(@, p, message, verdict)]
      /\ UNCHANGED vars

(* POST /ingest/{p}, past the checks of the pipeline and the secret. *)
IngestMessage(i, p, message) ==
  LET e == engine[i][p]
      verdict == IngestVerdict(p, e, message)
  IN  /\ Idle(i, p)
      /\ Record(i, p, "http", e, message, verdict)
      /\ stats' = [stats EXCEPT ![i][p] = SchemaCounts(@, p, message)]
      /\ UNCHANGED vars

PipelineNext ==
  \E i \in Instances :
    \/ Configure(i) \/ Restart(i)
    \/ \E p \in Pipelines, m \in Messages : Consume(i, p, m) \/ IngestMessage(i, p, m)

PipelineSpec == PipelineInit /\ [][PipelineNext]_pipelineVars
-----------------------------------------------------------------------------
Verdicts == {"no event", "invalid", "skip", "forward", "raise"}

PipelineTypeOK ==
  /\ TypeOK
  /\ \A i \in Instances, p \in Pipelines :
       /\ Len(judged[i][p]) <= MaxMessages
       /\ \A n \in DOMAIN judged[i][p] :
            judged[i][p][n].verdict \in Verdicts /\ judged[i][p][n].engine \in Settings

Judgements == UNION {{judged[i][p][n] : n \in DOMAIN judged[i][p]} :
                       i \in Instances, p \in Pipelines}
Forwarded == {j \in Judgements : j.verdict = "forward"}

FiltersFor(j) == FiltersOf[j.engine.filters]
TypeFor(j) == Resolve(j.message, FieldOf[j.engine.field])

(* As long as the event_type_field is the one the service started with, no *)
(* event is forwarded that violates the schema of its type, on either way  *)
(* and whatever updates were accepted, refused or half done: unless the    *)
(* type is null or empty, for which the validator has no schema although   *)
(* the engine has a name.                                                  *)
ForwardedIsValid ==
  \A j \in Forwarded :
    LET type == TypeFor(j)
    IN  /\ FieldOf[j.engine.field] = FieldOf[Environment]
        /\ type # Null /\ Text(type) \in DOMAIN Schemas[j.pipeline] \ {""}
        => Conforms(j.message, Schemas[j.pipeline][Text(type)])

(* A rule about a field that the event does not have is no reason to       *)
(* forward it, not even a rule that asks for a difference: the rules about *)
(* fields it has forward it by themselves.                                 *)
MissingFieldNeverForwards ==
  \A j \in Forwarded :
    LET fs == FiltersFor(j)[Text(TypeFor(j))]
        present == {n \in DOMAIN fs.rules : Resolve(j.message, fs.rules[n].field) # Missing}
    IN  /\ present # {} /\ (fs.mode = "all" => present = DOMAIN fs.rules)
        /\ ApplyFilterSet([fs EXCEPT !.rules = Restrict(@, present)], j.message) = "forward"

(* The filters with the rules for the type t in the order f.               *)
Reordered(filters, t, f) ==
  [filters EXCEPT ![t].rules = [n \in DOMAIN @ |-> @[f[n]]]]

(* The order of the rules, which the editor does not show as meaningful,   *)
(* decides nothing, whichever it is, not even whether a rule that cannot   *)
(* be evaluated stops the consumer.                                        *)
RuleOrderIrrelevant ==
  \A j \in Judgements : \A t \in {Text(TypeFor(j))} \cap DOMAIN FiltersFor(j) :
    LET rules == FiltersFor(j)[t].rules
        said == EngineSays(j.engine, j.message)
    IN  \A f \in Bijection(DOMAIN rules, DOMAIN rules) :
          said = ShouldForward(FieldOf[j.engine.field], Reordered(FiltersFor(j), t, f), j.message)

(* The two ways in treat a message alike as long as their engines agree,   *)
(* in whatever order it was offered to them.                               *)
PathsAgree ==
  \A j, k \in Judgements :
    j.pipeline = k.pipeline /\ j.message = k.message /\ j.engine = k.engine => j.verdict = k.verdict

(* n8n is told the type by which ingest has routed the event, unless an    *)
(* update was refused (its field is in the config already) or the type is  *)
(* nested.  Of the consumer that is not so: its engine is the first one.   *)
MetadataNamesType ==
  \A j \in Forwarded :
    /\ j.path = "http" /\ j.answered # "error"
    /\ Len(FieldOf[j.engine.field]) = 1
    => j.named = TypeFor(j)

Number(i, p, path, verdict) ==
  Cardinality({n \in DOMAIN judged[i][p] :
    judged[i][p][n].path = path /\ judged[i][p][n].verdict = verdict})

(* /metrics accounts for each record of the loop once, and the validator's *)
(* counters, shared by both ways in, for each invalid event of either.     *)
CountersTell ==
  \A i \in up, p \in Pipelines :
    LET s == stats[i][p]
        ofLoop(verdict) == Number(i, p, "kafka", verdict)
    IN  /\ s.consumed - s.filtered - s.invalid
             = ofLoop("forward") + ofLoop("no event") + ofLoop("raise")
        /\ s.invalid = ofLoop("invalid")
        /\ s.schema_invalid = s.invalid + Number(i, p, "http", "invalid")
        /\ s.schema_valid + s.schema_invalid <= Len(judged[i][p])
=============================================================================
