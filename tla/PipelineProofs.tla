---------------------------- MODULE PipelineProofs ----------------------------
(***************************************************************************)
(* Proofs about module Pipeline, for any messages, filters and schemas.    *)
(***************************************************************************)
EXTENDS Pipeline, FilterConfigProofs, FilterEngineProofs, FiniteSetTheorems

LEMMA PipelineStep == [PipelineNext]_pipelineVars => [Next]_vars
BY DEF PipelineNext, pipelineVars, Configure, Restart, Consume, IngestMessage, Next

(* Judging messages leaves the filters alone: whatever holds of updates    *)
(* and stores (module FilterConfig) holds while events go through.         *)
THEOREM PipelineImplementsFilterConfig == PipelineSpec => Spec
<1>1. PipelineInit => Init
  BY DEF PipelineInit
<1> QED  BY <1>1, PipelineStep, PTL DEF PipelineSpec, Spec
-----------------------------------------------------------------------------
LEMMA EngineVerdict ==
  ASSUME NEW e, NEW m
  PROVE  EngineSays(e, m) \in {"forward", "skip", "raise"}
BY DEF EngineSays, ShouldForward, ApplyFilterSet

LEMMA VerdictType ==
  ASSUME NEW p, NEW e, NEW m
  PROVE  ConsumerVerdict(p, e, m) \in Verdicts
BY EngineVerdict DEF ConsumerVerdict, Verdicts

LEMMA SameVerdict ==
  ASSUME NEW p, NEW e, NEW m
  PROVE  IngestVerdict(p, e, m) = ConsumerVerdict(p, e, m)
BY DEF ConsumerVerdict, IngestVerdict

(* The type in the metadata when the field is that of the origin o. *)
NamedBy(o, message) ==
  LET path == FieldOf[o]
  IN  IF Len(path) = 1 THEN Field(message, path[1]) ELSE Missing

Judgement ==
  [pipeline : Pipelines, path : {"kafka", "http"}, engine : Settings,
   message : Messages, verdict : Verdicts,
   named : {NamedBy(o, m) : o \in Origins, m \in Messages},
   answered : {"none", "ok", "error"}]

(* A judgement is what the loop makes of the message with that engine; the *)
(* loop has the engine of the environment, and the metadata of the route   *)
(* is made with the field of the engine unless an update was refused.      *)
Right(j, p) ==
  /\ j.pipeline = p /\ j.verdict = ConsumerVerdict(p, j.engine, j.message)
  /\ j.path = "kafka" => j.engine = Whole(Environment)
  /\ j.path = "http" /\ j.answered # "error" => j.named = NamedBy(j.engine.field, j.message)

JudgedInv ==
  /\ judged \in [Instances -> [Pipelines -> Seq(Judgement)]]
  /\ \A i \in Instances, p \in Pipelines :
       /\ Len(judged[i][p]) <= MaxMessages
       /\ \A n \in DOMAIN judged[i][p] : Right(judged[i][p][n], p)

(* No update reaches the engine the loop was given. *)
LoopEngineFixed ==
  \A i \in Instances, p \in Pipelines : consumerEngine[i][p] = Whole(Environment)

EnginesInv == TypeOK /\ EngineWhole /\ LoopEngineFixed

LEMMA EnginesInvHolds == PipelineSpec => []EnginesInv
<1>1. Init => LoopEngineFixed
  BY DEF Init, LoopEngineFixed
<1>2. TypeOK /\ LoopEngineFixed /\ [Next]_vars => LoopEngineFixed'
  <2> SUFFICES ASSUME TypeOK, LoopEngineFixed, [Next]_vars PROVE LoopEngineFixed'
    OBVIOUS
  <2>1. ASSUME NEW i \in Instances, Start(i)
        PROVE  LoopEngineFixed'
    BY <2>1 DEF Start, LoopEngineFixed, TypeOK
  <2>2. CASE UNCHANGED consumerEngine
    BY <2>2 DEF LoopEngineFixed
  <2> QED
    BY <2>1, <2>2 DEF Next, Stop, Load, Update, SaveFails, vars, pipelineState
<1> QED
  BY <1>1, <1>2, PipelineImplementsFilterConfig, FilterConfigTypeCorrect,
     FilterConfigEngineWhole, PTL DEF Spec, EnginesInv

(* The two ways a message is judged, as one. *)
Judges(i, p, path, e, m) ==
  /\ e \in Settings /\ Record(i, p, path, e, m, ConsumerVerdict(p, e, m))
  /\ path = "kafka" => e = Whole(Environment)
  /\ path = "http" => e = engine[i][p]

LEMMA MessageIsJudged ==
  ASSUME EnginesInv, NEW i \in Instances, NEW p \in Pipelines, NEW m \in Messages
  PROVE  /\ Consume(i, p, m) => Judges(i, p, "kafka", consumerEngine[i][p], m)
         /\ IngestMessage(i, p, m) => Judges(i, p, "http", engine[i][p], m)
BY SameVerdict DEF EnginesInv, TypeOK, LoopEngineFixed, Consume, IngestMessage, Judges

(* The one judgement a step adds. *)
LEMMA Judged ==
  ASSUME EnginesInv, JudgedInv, NEW i \in Instances, NEW p \in Pipelines, NEW m \in Messages,
         NEW path \in {"kafka", "http"}, NEW e, Judges(i, p, path, e, m)
  PROVE  \E j \in Judgement :
           /\ j.path = path /\ j.engine = e /\ j.message = m /\ Right(j, p)
           /\ judged' = [judged EXCEPT ![i][p] = Append(@, j)]
<1>1. /\ e \in Settings /\ Record(i, p, path, e, m, ConsumerVerdict(p, e, m))
      /\ TypeOK /\ EngineWhole
  BY DEF Judges, EnginesInv
<1>2. TypeInMetadata(i, p, m) = NamedBy(config[i][p].field, m) /\ config[i][p].field \in Origins
  BY <1>1 DEF TypeInMetadata, NamedBy, TypeOK, Settings
<1>3. TypeInMetadata(i, p, m) \in {NamedBy(o, n) : o \in Origins, n \in Messages}
  BY <1>2
<1>4. answered[i][p] \in {"none", "ok", "error"}
  BY <1>1 DEF TypeOK
<1> DEFINE j == [pipeline |-> p, path |-> path, engine |-> e, message |-> m,
                 verdict |-> ConsumerVerdict(p, e, m),
                 named |-> TypeInMetadata(i, p, m), answered |-> answered[i][p]]
<1>5. j \in Judgement
  BY <1>1, <1>3, <1>4, VerdictType DEF Judgement
<1>6. j.path = path /\ j.engine = e /\ j.message = m /\ Right(j, p)
  <2>1. CASE path = "kafka"
    BY <2>1 DEF Right, Judges
  <2>2. CASE path = "http"
    <3>1. e = engine[i][p] /\ (answered[i][p] # "error" => config[i][p] = e)
      BY <1>1, <2>2 DEF Judges, EngineWhole
    <3>2. answered[i][p] # "error" => TypeInMetadata(i, p, m) = NamedBy(e.field, m)
      BY <1>2, <3>1
    <3> QED  BY <2>2, <3>2 DEF Right
  <2> QED  BY <2>1, <2>2
<1>7. judged' = [judged EXCEPT ![i][p] = Append(@, j)]
  BY <1>1 DEF Record
<1> QED  BY <1>5, <1>6, <1>7

LEMMA AppendedHas ==
  ASSUME NEW S, NEW log \in Seq(S), NEW j
  PROVE  /\ DOMAIN Append(log, j) = 1 .. Len(log) + 1 /\ Len(Append(log, j)) = Len(log) + 1
         /\ \A n \in DOMAIN log : Append(log, j)[n] = log[n]
         /\ Append(log, j)[Len(log) + 1] = j
         /\ \A n \in DOMAIN Append(log, j) : n \in DOMAIN log \/ n = Len(log) + 1
OBVIOUS

LEMMA JudgedInvStep ==
  ASSUME EnginesInv, JudgedInv, [PipelineNext]_pipelineVars
  PROVE  JudgedInv'
<1>0. ASSUME NEW i \in Instances, NEW p \in Pipelines, NEW m \in Messages,
             Consume(i, p, m) \/ IngestMessage(i, p, m)
      PROVE  \E j \in Judgement :
               Right(j, p) /\ judged' = [judged EXCEPT ![i][p] = Append(@, j)]
  <2>1. PICK path \in {"kafka", "http"}, e \in Settings : Judges(i, p, path, e, m)
    BY <1>0, MessageIsJudged DEF Judges
  <2>2. PICK j \in Judgement :
          /\ j.path = path /\ j.engine = e /\ j.message = m /\ Right(j, p)
          /\ judged' = [judged EXCEPT ![i][p] = Append(@, j)]
    BY <2>1, Judged
  <2> QED  BY <2>2
<1> USE DEF JudgedInv
<1>1. CASE judged' = judged
  BY <1>1
<1>2. ASSUME NEW i \in Instances, Restart(i)
      PROVE  JudgedInv'
  BY <1>2, PipelineAssumption DEF Restart
<1>3. ASSUME NEW i \in Instances, NEW p \in Pipelines, NEW m \in Messages,
             Consume(i, p, m) \/ IngestMessage(i, p, m)
      PROVE  JudgedInv'
  <2>1. PICK j \in Judgement :
          Right(j, p) /\ judged' = [judged EXCEPT ![i][p] = Append(@, j)]
    BY <1>0, <1>3
  <2>2. Len(judged[i][p]) < MaxMessages /\ judged[i][p] \in Seq(Judgement)
    BY <1>3 DEF Consume, IngestMessage, Idle
  <2>3. Append(judged[i][p], j) \in Seq(Judgement) /\ Len(Append(judged[i][p], j)) <= MaxMessages
    BY <2>2, PipelineAssumption
  <2>4. \A n \in DOMAIN Append(judged[i][p], j) : Right(Append(judged[i][p], j)[n], p)
    <3> SUFFICES ASSUME NEW n \in DOMAIN Append(judged[i][p], j)
                 PROVE  Right(Append(judged[i][p], j)[n], p)
      OBVIOUS
    <3>1. CASE n \in DOMAIN judged[i][p]
      <4>1. Append(judged[i][p], j)[n] = judged[i][p][n]
        BY <2>2, <3>1, AppendedHas
      <4>2. Right(judged[i][p][n], p)
        BY <3>1
      <4> QED  BY <4>1, <4>2
    <3>2. CASE n = Len(judged[i][p]) + 1
      <4>1. Append(judged[i][p], j)[n] = j
        BY <2>2, <3>2, AppendedHas
      <4> QED  BY <2>1, <4>1
    <3> QED  BY <2>2, <3>1, <3>2, AppendedHas
  <2>5. judged'[i][p] = Append(judged[i][p], j)
    BY <2>1
  <2>6. ASSUME NEW k \in Instances, NEW q \in Pipelines, ~(k = i /\ q = p)
        PROVE  judged'[k][q] = judged[k][q]
    BY <2>1, <2>6
  <2>7. judged' \in [Instances -> [Pipelines -> Seq(Judgement)]]
    BY <2>1, <2>3
  <2>8. ASSUME NEW k \in Instances, NEW q \in Pipelines
        PROVE  /\ Len(judged'[k][q]) <= MaxMessages
               /\ \A n \in DOMAIN judged'[k][q] : Right(judged'[k][q][n], q)
    <3>1. CASE k = i /\ q = p
      BY <2>3, <2>4, <2>5, <3>1
    <3>2. CASE ~(k = i /\ q = p)
      BY <2>6, <3>2
    <3> QED  BY <3>1, <3>2
  <2> QED  BY <2>7, <2>8
<1> QED
  BY <1>1, <1>2, <1>3 DEF PipelineNext, pipelineVars, Configure

LEMMA JudgedInvHolds == PipelineSpec => [](EnginesInv /\ JudgedInv)
<1>1. PipelineInit => JudgedInv
  BY PipelineAssumption DEF PipelineInit, JudgedInv
<1>2. EnginesInv /\ JudgedInv /\ [PipelineNext]_pipelineVars => JudgedInv'
  BY JudgedInvStep
<1> QED
  BY <1>1, <1>2, EnginesInvHolds, PTL DEF PipelineSpec

(* Every judgement is one of the five outcomes of the loop and the route,  *)
(* by an engine that was in force.                                         *)
THEOREM PipelineTypeCorrect == PipelineSpec => []PipelineTypeOK
<1>1. ASSUME JudgedInv, NEW i \in Instances, NEW p \in Pipelines
      PROVE  /\ Len(judged[i][p]) <= MaxMessages
             /\ \A n \in DOMAIN judged[i][p] :
                  judged[i][p][n].verdict \in Verdicts /\ judged[i][p][n].engine \in Settings
  <2>1. judged[i][p] \in Seq(Judgement) /\ Len(judged[i][p]) <= MaxMessages
    BY <1>1 DEF JudgedInv
  <2>2. \A n \in DOMAIN judged[i][p] : judged[i][p][n] \in Judgement
    BY <2>1
  <2> QED  BY <2>1, <2>2 DEF Judgement
<1>2. EnginesInv /\ JudgedInv => PipelineTypeOK
  BY <1>1 DEF PipelineTypeOK, EnginesInv
<1> QED  BY <1>2, JudgedInvHolds, PTL

LEMMA JudgementsAreRight ==
  ASSUME JudgedInv, NEW j \in Judgements
  PROVE  j \in Judgement /\ Right(j, j.pipeline)
<1>1. PICK i \in Instances, p \in Pipelines : \E n \in DOMAIN judged[i][p] : j = judged[i][p][n]
  BY DEF Judgements
<1>2. PICK n \in DOMAIN judged[i][p] : j = judged[i][p][n]
  BY <1>1
<1>3. judged[i][p] \in Seq(Judgement) /\ Right(j, p)
  BY <1>2 DEF JudgedInv
<1>4. j \in Judgement
  BY <1>2, <1>3
<1> QED  BY <1>3, <1>4 DEF Right

(* The loop and the route never disagree about a message while they have   *)
(* the same engine, whatever was judged or updated before.                 *)
THEOREM PipelinePathsAgree == PipelineSpec => []PathsAgree
<1>1. JudgedInv => PathsAgree
  BY JudgementsAreRight DEF PathsAgree, Right
<1> QED  BY <1>1, JudgedInvHolds, PTL

(* What the loop makes of a record is a matter of the record alone, on any *)
(* instance and at any time: the kinds of the records in module Consumer   *)
(* do not change, although the filters do, and a record that is read again *)
(* is judged as before.                                                    *)
THEOREM PipelineLoopJudgesAlike ==
  PipelineSpec => [](\A j \in Judgements : j.path = "kafka" =>
    j.verdict = ConsumerVerdict(j.pipeline, Whole(Environment), j.message))
<1>1. JudgedInv => \A j \in Judgements : j.path = "kafka" =>
        j.verdict = ConsumerVerdict(j.pipeline, Whole(Environment), j.message)
  BY JudgementsAreRight DEF Right
<1> QED  BY <1>1, JudgedInvHolds, PTL

(* No event that violates the schema of its type is forwarded, on either   *)
(* way, for any schemas and filters.                                       *)
THEOREM PipelineForwardedIsValid == PipelineSpec => []ForwardedIsValid
<1>1. ASSUME JudgedInv, NEW j \in Forwarded,
             FieldOf[j.engine.field] = FieldOf[Environment],
             TypeFor(j) # Null, Text(TypeFor(j)) \in DOMAIN Schemas[j.pipeline] \ {""}
      PROVE  Conforms(j.message, Schemas[j.pipeline][Text(TypeFor(j))])
  <2>1. ConsumerVerdict(j.pipeline, j.engine, j.message) = "forward"
    BY <1>1, JudgementsAreRight DEF Forwarded, Right
  <2>2. EngineSays(j.engine, j.message) = "forward"
        /\ SchemaSays(j.pipeline, j.message) \notin {"raise", "invalid"}
    BY <2>1 DEF ConsumerVerdict
  <2>3. TypeFor(j) # Missing
    BY <2>2 DEF EngineSays, ShouldForward, TypeFor
  <2>4. Validate(FieldOf[Environment], Schemas[j.pipeline], j.message) \notin {"raise", "invalid"}
    BY <1>1, <2>2 DEF SchemaSays
  <2> QED  BY <1>1, <2>3, <2>4 DEF Validate, TypeFor
<1>2. JudgedInv => ForwardedIsValid
  BY <1>1 DEF ForwardedIsValid
<1> QED  BY <1>2, JudgedInvHolds, PTL
-----------------------------------------------------------------------------
(* A pipeline's filters are what they are assumed to be. *)
LEMMA FiltersType ==
  ASSUME JudgedInv, NEW j \in Judgements, NEW t \in DOMAIN FiltersFor(j)
  PROVE  LET fs == FiltersFor(j)[t]
         IN  /\ fs = [mode |-> fs.mode, rules |-> fs.rules]
             /\ Len(fs.rules) \in Nat
             /\ fs.rules = [n \in 1 .. Len(fs.rules) |-> fs.rules[n]]
<1>1. j.engine.filters \in Origins
  BY JudgementsAreRight DEF Judgement, Settings
<1> QED  BY <1>1, PipelineAssumption DEF FiltersFor

(* No order of the rules for its type ever decides what becomes of an event. *)
THEOREM PipelineRuleOrderIrrelevant == PipelineSpec => []RuleOrderIrrelevant
<1>1. ASSUME JudgedInv, NEW j \in Judgements, NEW t \in DOMAIN FiltersFor(j),
             NEW f \in Bijection(DOMAIN FiltersFor(j)[t].rules, DOMAIN FiltersFor(j)[t].rules)
      PROVE  EngineSays(j.engine, j.message)
               = ShouldForward(FieldOf[j.engine.field], Reordered(FiltersFor(j), t, f), j.message)
  <2> DEFINE filters == FiltersFor(j)
             fs == filters[t]
             mixed == [n \in DOMAIN fs.rules |-> fs.rules[f[n]]]
             back == [fs EXCEPT !.rules = mixed]
             other == Reordered(filters, t, f)
             type == Text(Resolve(j.message, FieldOf[j.engine.field]))
  <2>1. /\ DOMAIN other = DOMAIN filters /\ other[t] = back
        /\ \A u \in DOMAIN filters \ {t} : other[u] = filters[u]
    BY DEF Reordered
  <2>2. back.mode = fs.mode /\ back.rules = mixed
    <3>1. fs = [mode |-> fs.mode, rules |-> fs.rules]
      BY <1>1, FiltersType
    <3>2. PICK mode, rules : fs = [mode |-> mode, rules |-> rules]
      BY <3>1
    <3> HIDE DEF fs, mixed
    <3> QED  BY <3>2
  <2>3. Len(fs.rules) \in Nat /\ fs.rules = [n \in 1 .. Len(fs.rules) |-> fs.rules[n]]
    BY <1>1, FiltersType
  <2>4. ApplyFilterSet(back, j.message) = ApplyFilterSet(fs, j.message)
        /\ DOMAIN back.rules = DOMAIN fs.rules
    <3>1. f \in Bijection(DOMAIN fs.rules, DOMAIN fs.rules)
      BY <1>1
    <3>2. back.mode = fs.mode /\ back.rules = [n \in DOMAIN fs.rules |-> fs.rules[f[n]]]
      BY <2>2
    <3> HIDE DEF back, fs
    <3> QED  BY <3>1, <3>2, OrderIsIrrelevant
  <2>5. (back.rules = <<>>) <=> (fs.rules = <<>>)
    <3>1. fs.rules = <<>> <=> DOMAIN fs.rules = {}
      BY <2>3, NoRules
    <3>2. back.rules = [n \in 1 .. Len(fs.rules) |-> mixed[n]]
      BY <2>2, <2>3
    <3>3. back.rules = <<>> <=> DOMAIN back.rules = {}
      <4> HIDE DEF mixed, back
      <4> QED  BY <2>3, <3>2
    <3> QED  BY <2>4, <3>1, <3>3
  <2> HIDE DEF back, fs, other
  <2>6. ShouldForward(FieldOf[j.engine.field], filters, j.message)
          = ShouldForward(FieldOf[j.engine.field], other, j.message)
    <3>1. CASE type = t
      BY <2>1, <2>4, <2>5, <3>1 DEF ShouldForward, fs
    <3>2. CASE type # t
      BY <2>1, <3>2 DEF ShouldForward
    <3> QED  BY <3>1, <3>2
  <2> QED  BY <2>6 DEF EngineSays, FiltersFor, other
<1>2. JudgedInv => RuleOrderIrrelevant
  BY <1>1 DEF RuleOrderIrrelevant
<1> QED  BY <1>2, JudgedInvHolds, PTL

(* What was forwarded is forwarded by the rules about fields it has, for   *)
(* any rules, operators and events.                                        *)
THEOREM PipelineMissingFieldNeverForwards == PipelineSpec => []MissingFieldNeverForwards
<1>1. ASSUME JudgedInv, NEW j \in Forwarded
      PROVE  LET fs == FiltersFor(j)[Text(TypeFor(j))]
                 present == {n \in DOMAIN fs.rules : Resolve(j.message, fs.rules[n].field) # Missing}
             IN  /\ present # {} /\ (fs.mode = "all" => present = DOMAIN fs.rules)
                 /\ ApplyFilterSet([fs EXCEPT !.rules = Restrict(@, present)], j.message) = "forward"
  <2> DEFINE type == Text(TypeFor(j))
             fs == FiltersFor(j)[type]
             rules == fs.rules
             present == {n \in DOMAIN rules : Resolve(j.message, rules[n].field) # Missing}
             rest == [fs EXCEPT !.rules = Restrict(@, present)]
  <2>1. j \in Judgements /\ ConsumerVerdict(j.pipeline, j.engine, j.message) = "forward"
    BY <1>1, JudgementsAreRight DEF Forwarded, Right
  <2>2. EngineSays(j.engine, j.message) = "forward"
    BY <2>1 DEF ConsumerVerdict
  <2>3. type \in DOMAIN FiltersFor(j) /\ rules # <<>> /\ ApplyFilterSet(fs, j.message) = "forward"
    BY <2>2 DEF EngineSays, ShouldForward, FiltersFor, TypeFor
  <2>4. /\ fs = [mode |-> fs.mode, rules |-> fs.rules]
        /\ Len(rules) \in Nat /\ rules = [n \in 1 .. Len(rules) |-> rules[n]]
    BY <1>1, <2>1, <2>3, FiltersType
  <2>5. DOMAIN rules # {}
    BY <2>3, <2>4, NoRules
  <2>6. rest.mode = fs.mode /\ rest.rules = [n \in present |-> rules[n]]
    <3>1. PICK mode, all : fs = [mode |-> mode, rules |-> all]
      BY <2>4
    <3> HIDE DEF fs, present
    <3> QED  BY <3>1 DEF Restrict
  <2>7. /\ \A n \in DOMAIN rules : ~Raises(rules[n], j.message)
        /\ \/ fs.mode = "any" /\ \E n \in DOMAIN rules : Matches(rules[n], j.message)
           \/ fs.mode = "all" /\ \A n \in DOMAIN rules : Matches(rules[n], j.message)
    BY <2>3 DEF ApplyFilterSet
  <2>8. \A n \in DOMAIN rules : Matches(rules[n], j.message) => n \in present
    BY MatchesHasField
  <2>9. /\ DOMAIN rest.rules = present /\ present \subseteq DOMAIN rules
        /\ \A n \in present : rest.rules[n] = rules[n]
    BY <2>6
  <2> HIDE DEF fs, rules, present, rest
  <2>10. present # {} /\ (fs.mode = "all" => present = DOMAIN rules)
    BY <2>5, <2>7, <2>8, <2>9
  <2>11. ApplyFilterSet(rest, j.message) = "forward"
    <3>1. \A n \in DOMAIN rest.rules : ~Raises(rest.rules[n], j.message)
      BY <2>7, <2>9
    <3>2. CASE fs.mode = "any" /\ \E n \in DOMAIN rules : Matches(rules[n], j.message)
      <4>1. \E n \in DOMAIN rest.rules : Matches(rest.rules[n], j.message)
        BY <2>8, <2>9, <3>2
      <4> QED  BY <2>6, <3>1, <3>2, <4>1 DEF ApplyFilterSet
    <3>3. CASE fs.mode = "all" /\ \A n \in DOMAIN rules : Matches(rules[n], j.message)
      <4>1. \A n \in DOMAIN rest.rules : Matches(rest.rules[n], j.message)
        BY <2>9, <3>3
      <4> QED  BY <2>6, <3>1, <3>3, <4>1 DEF ApplyFilterSet
    <3> QED  BY <2>7, <3>2, <3>3
  <2> QED  BY <2>10, <2>11 DEF rest, present, rules, fs
<1>2. JudgedInv => MissingFieldNeverForwards
  BY <1>1 DEF MissingFieldNeverForwards
<1> QED  BY <1>2, JudgedInvHolds, PTL

(* n8n is told the type that routed the event, for any event_type_field    *)
(* that is one key, unless an update was refused.                          *)
THEOREM PipelineMetadataNamesType == PipelineSpec => []MetadataNamesType
<1>1. ASSUME JudgedInv, NEW j \in Forwarded, j.path = "http", j.answered # "error",
             Len(FieldOf[j.engine.field]) = 1
      PROVE  j.named = TypeFor(j)
  <2>1. j \in Judgements
    BY DEF Forwarded
  <2>2. j.named = NamedBy(j.engine.field, j.message)
    BY <1>1, <2>1, JudgementsAreRight DEF Right
  <2>3. Resolve(j.message, FieldOf[j.engine.field])
          = Field(j.message, FieldOf[j.engine.field][1])
    BY <1>1, ResolveOneKey
  <2> QED  BY <1>1, <2>2, <2>3 DEF NamedBy, TypeFor
<1>2. JudgedInv => MetadataNamesType
  BY <1>1 DEF MetadataNamesType
<1> QED  BY <1>2, JudgedInvHolds, PTL
-----------------------------------------------------------------------------
(* The counters.                                                           *)

Counters ==
  [consumed : Nat, filtered : Nat, invalid : Nat, schema_valid : Nat, schema_invalid : Nat]

(* One more of a verdict w that is counted when v is the verdict. *)
One(v, w) == IF v = w THEN 1 ELSE 0

(* What the validator counts for an event, it counts by its verdict. *)
LEMMA SchemaCountsOne ==
  ASSUME NEW s \in Counters, NEW p, NEW e, NEW m
  PROVE  LET t == SchemaCounts(s, p, m)
             verdict == ConsumerVerdict(p, e, m)
         IN  /\ t \in Counters
             /\ t.consumed = s.consumed /\ t.filtered = s.filtered /\ t.invalid = s.invalid
             /\ t.schema_invalid = s.schema_invalid + One(verdict, "invalid")
             /\ t.schema_valid + t.schema_invalid <= s.schema_valid + s.schema_invalid + 1
<1> DEFINE t == SchemaCounts(s, p, m)
           verdict == ConsumerVerdict(p, e, m)
<1>1. verdict = "invalid" <=> m.kind = "object" /\ SchemaSays(p, m) = "invalid"
  BY EngineVerdict DEF ConsumerVerdict
<1>2. CASE m.kind = "object" /\ SchemaSays(p, m) = "invalid"
  <2>1. t = [s EXCEPT !.schema_invalid = @ + 1] /\ One(verdict, "invalid") = 1
    BY <1>1, <1>2 DEF SchemaCounts, One
  <2> HIDE DEF t, verdict
  <2> QED  BY <2>1 DEF Counters, t, verdict
<1>3. CASE m.kind = "object" /\ SchemaSays(p, m) = "valid"
  <2>1. t = [s EXCEPT !.schema_valid = @ + 1] /\ One(verdict, "invalid") = 0
    BY <1>1, <1>3 DEF SchemaCounts, One
  <2> HIDE DEF t, verdict
  <2> QED  BY <2>1 DEF Counters, t, verdict
<1>4. CASE ~(m.kind = "object" /\ SchemaSays(p, m) \in {"valid", "invalid"})
  <2>1. t = s /\ One(verdict, "invalid") = 0
    BY <1>1, <1>4 DEF SchemaCounts, One
  <2> HIDE DEF t, verdict
  <2> QED  BY <2>1 DEF Counters, t, verdict
<1> QED  BY <1>2, <1>3, <1>4

LEMMA LoopCountsOne ==
  ASSUME NEW s \in Counters, NEW p, NEW e, NEW m
  PROVE  LET verdict == ConsumerVerdict(p, e, m)
             t == ConsumerCounts(s, p, m, verdict)
         IN  /\ t \in Counters
             /\ t.consumed = s.consumed + 1
             /\ t.filtered = s.filtered + One(verdict, "skip")
             /\ t.invalid = s.invalid + One(verdict, "invalid")
             /\ t.schema_invalid = s.schema_invalid + One(verdict, "invalid")
             /\ t.schema_valid + t.schema_invalid <= s.schema_valid + s.schema_invalid + 1
<1> DEFINE verdict == ConsumerVerdict(p, e, m)
           u == SchemaCounts(s, p, m)
           t == ConsumerCounts(s, p, m, verdict)
<1>1. /\ u \in Counters
      /\ u.consumed = s.consumed /\ u.filtered = s.filtered /\ u.invalid = s.invalid
      /\ u.schema_invalid = s.schema_invalid + One(verdict, "invalid")
      /\ u.schema_valid + u.schema_invalid <= s.schema_valid + s.schema_invalid + 1
  BY SchemaCountsOne
<1>2. t = [u EXCEPT !.consumed = @ + 1,
             !.filtered = IF verdict = "skip" THEN @ + 1 ELSE @,
             !.invalid = IF verdict = "invalid" THEN @ + 1 ELSE @]
  BY DEF ConsumerCounts
<1> DEFINE filtered == u.filtered + One(verdict, "skip")
           invalid == u.invalid + One(verdict, "invalid")
<1>f. filtered \in Nat /\ filtered = IF verdict = "skip" THEN u.filtered + 1 ELSE u.filtered
  BY <1>1 DEF Counters, One
<1>i. invalid \in Nat /\ invalid = IF verdict = "invalid" THEN u.invalid + 1 ELSE u.invalid
  BY <1>1 DEF Counters, One
<1> HIDE DEF u, verdict
<1>3. t = [u EXCEPT !.consumed = @ + 1, !.filtered = filtered, !.invalid = invalid]
  BY <1>2, <1>f, <1>i
<1> HIDE DEF t, filtered, invalid
<1>4. t \in Counters
  <2>1. u \in Counters /\ filtered \in Nat /\ invalid \in Nat
    BY <1>1, <1>f, <1>i
  <2>2. u.consumed + 1 \in Nat
    BY <2>1 DEF Counters
  <2> QED  BY <1>3, <2>1, <2>2 DEF Counters
<1>5. /\ t.consumed = u.consumed + 1 /\ t.filtered = filtered /\ t.invalid = invalid
      /\ t.schema_invalid = u.schema_invalid /\ t.schema_valid = u.schema_valid
  BY <1>1, <1>3 DEF Counters
<1> QED  BY <1>1, <1>4, <1>5 DEF t, verdict, filtered, invalid

(* How often a log has a verdict of one way in. *)
Times(log, path, verdict) ==
  Cardinality({n \in DOMAIN log : log[n].path = path /\ log[n].verdict = verdict})

LEMMA TimesType ==
  ASSUME NEW log \in Seq(Judgement), NEW path, NEW verdict
  PROVE  Times(log, path, verdict) \in Nat
<1> DEFINE S == {n \in DOMAIN log : log[n].path = path /\ log[n].verdict = verdict}
<1>1. IsFiniteSet(1 .. Len(log)) /\ DOMAIN log = 1 .. Len(log)
  BY FS_Interval
<1>2. IsFiniteSet(S)
  BY <1>1, FS_Subset
<1> QED  BY <1>2, FS_CardinalityType DEF Times

LEMMA TimesAppended ==
  ASSUME NEW log \in Seq(Judgement), NEW j \in Judgement, NEW path, NEW verdict
  PROVE  Times(Append(log, j), path, verdict) =
           Times(log, path, verdict) + (IF j.path = path THEN One(j.verdict, verdict) ELSE 0)
<1> DEFINE S == {n \in DOMAIN log : log[n].path = path /\ log[n].verdict = verdict}
           longer == Append(log, j)
           T == {n \in DOMAIN longer : longer[n].path = path /\ longer[n].verdict = verdict}
<1>1. IsFiniteSet(S)
  <2>1. IsFiniteSet(1 .. Len(log)) /\ DOMAIN log = 1 .. Len(log)
    BY FS_Interval
  <2> QED  BY <2>1, FS_Subset
<1>2. /\ DOMAIN longer = 1 .. Len(log) + 1 /\ DOMAIN log = 1 .. Len(log) /\ Len(log) \in Nat
      /\ \A n \in DOMAIN log : longer[n] = log[n]
      /\ longer[Len(log) + 1] = j
  BY AppendedHas
<1>t. Times(longer, path, verdict) = Cardinality(T) /\ Times(log, path, verdict) = Cardinality(S)
  BY DEF Times
<1>n. Cardinality(S) \in Nat
  BY <1>1, FS_CardinalityType
<1> HIDE DEF longer
<1>3. CASE j.path = path /\ j.verdict = verdict
  <2>1. T = S \cup {Len(log) + 1} /\ Len(log) + 1 \notin S
    BY <1>2, <1>3
  <2>2. Cardinality(T) = Cardinality(S) + 1
    BY <1>1, <2>1, FS_AddElement
  <2>3. (IF j.path = path THEN One(j.verdict, verdict) ELSE 0) = 1
    BY <1>3 DEF One
  <2> QED  BY <1>t, <2>2, <2>3 DEF longer
<1>4. CASE ~(j.path = path /\ j.verdict = verdict)
  <2>1. T = S
    BY <1>2, <1>4
  <2>2. Cardinality(T) = Cardinality(S)
    BY <2>1
  <2>3. (IF j.path = path THEN One(j.verdict, verdict) ELSE 0) = 0
    BY <1>4 DEF One
  <2> HIDE DEF S, T
  <2>4. Cardinality(S) + 0 = Cardinality(S)
    BY <1>n
  <2> QED  BY <1>t, <2>2, <2>3, <2>4 DEF longer
<1> QED  BY <1>3, <1>4

(* What the counters s tell of the log of one pipeline. *)
Tell(s, log) ==
  /\ s \in Counters
  /\ s.consumed - s.filtered - s.invalid
       = Times(log, "kafka", "forward") + Times(log, "kafka", "no event")
           + Times(log, "kafka", "raise")
  /\ s.invalid = Times(log, "kafka", "invalid")
  /\ s.schema_invalid = s.invalid + Times(log, "http", "invalid")
  /\ s.schema_valid + s.schema_invalid <= Len(log)

LEMMA TellAtStart == Tell(NoStats, <<>>)
<1>1. \A path, verdict : Times(<<>>, path, verdict) = 0
  <2>1. ASSUME NEW path, NEW verdict
        PROVE  {n \in DOMAIN <<>> : <<>>[n].path = path /\ <<>>[n].verdict = verdict} = {}
    OBVIOUS
  <2> QED  BY <2>1, FS_EmptySet DEF Times
<1>2. NoStats \in Counters /\ Len(<<>>) = 0
  BY DEF NoStats, Counters
<1>3. /\ NoStats.consumed = 0 /\ NoStats.filtered = 0 /\ NoStats.invalid = 0
      /\ NoStats.schema_valid = 0 /\ NoStats.schema_invalid = 0
  BY DEF NoStats
<1> HIDE DEF NoStats
<1>4. /\ NoStats.consumed - NoStats.filtered - NoStats.invalid = 0 + 0 + 0
      /\ NoStats.schema_invalid = NoStats.invalid + 0
      /\ NoStats.schema_valid + NoStats.schema_invalid <= 0
  BY <1>3
<1> QED  BY <1>1, <1>2, <1>3, <1>4 DEF Tell

(* One record of the loop more is counted under one of the five heads.     *)
LEMMA TellAfterLoop ==
  ASSUME NEW log \in Seq(Judgement), NEW s, Tell(s, log), NEW p, NEW j \in Judgement,
         Right(j, p), j.path = "kafka"
  PROVE  Tell(ConsumerCounts(s, p, j.message, j.verdict), Append(log, j))
<1> DEFINE t == ConsumerCounts(s, p, j.message, j.verdict)
           longer == Append(log, j)
           v == j.verdict
<1>1. s \in Counters /\ v = ConsumerVerdict(p, j.engine, j.message)
  BY DEF Tell, Right
<1>2. /\ t \in Counters
      /\ t.consumed = s.consumed + 1
      /\ t.filtered = s.filtered + One(v, "skip")
      /\ t.invalid = s.invalid + One(v, "invalid")
      /\ t.schema_invalid = s.schema_invalid + One(v, "invalid")
      /\ t.schema_valid + t.schema_invalid <= s.schema_valid + s.schema_invalid + 1
  BY <1>1, LoopCountsOne
<1>3. ASSUME NEW verdict
      PROVE  Times(longer, "kafka", verdict) = Times(log, "kafka", verdict) + One(v, verdict)
  <2>1. Times(longer, "kafka", verdict)
          = Times(log, "kafka", verdict) + (IF j.path = "kafka" THEN One(j.verdict, verdict) ELSE 0)
    BY TimesAppended
  <2> QED  BY <2>1 DEF One
<1>4. Times(longer, "http", "invalid") = Times(log, "http", "invalid")
  <2>1. Times(longer, "http", "invalid")
          = Times(log, "http", "invalid") + (IF j.path = "http" THEN One(j.verdict, "invalid") ELSE 0)
    BY TimesAppended
  <2>2. (IF j.path = "http" THEN One(j.verdict, "invalid") ELSE 0) = 0
    BY DEF One
  <2>3. Times(log, "http", "invalid") \in Nat
    BY TimesType
  <2> QED  BY <2>1, <2>2, <2>3
<1>5. Len(longer) = Len(log) + 1 /\ Len(log) \in Nat
  BY AppendedHas
<1>6. One(v, "skip") + One(v, "invalid") + One(v, "forward") + One(v, "no event")
        + One(v, "raise") = 1
  <2>1. v \in Verdicts
    BY DEF Judgement
  <2> HIDE DEF v
  <2>2. CASE v = "skip"  BY <2>2 DEF One
  <2>3. CASE v = "invalid"  BY <2>3 DEF One
  <2>4. CASE v = "forward"  BY <2>4 DEF One
  <2>5. CASE v = "no event"
    <3>1. One(v, "skip") = 0 /\ One(v, "invalid") = 0
      BY <2>5 DEF One
    <3>2. One(v, "forward") = 0 /\ One(v, "raise") = 0
      BY <2>5 DEF One
    <3>3. One(v, "no event") = 1
      BY <2>5 DEF One
    <3>4. 0 + 0 + 0 + 1 + 0 = 1
      OBVIOUS
    <3> QED  BY <3>1, <3>2, <3>3, <3>4, Zenon
  <2>6. CASE v = "raise"  BY <2>6 DEF One
  <2> QED  BY <2>1, <2>2, <2>3, <2>4, <2>5, <2>6 DEF Verdicts
<1>7. \A w : One(v, w) \in {0, 1}
  BY DEF One
<1>8. /\ Times(log, "kafka", "forward") \in Nat /\ Times(log, "kafka", "no event") \in Nat
      /\ Times(log, "kafka", "raise") \in Nat /\ Times(log, "kafka", "invalid") \in Nat
      /\ Times(log, "http", "invalid") \in Nat
  BY TimesType
<1>9. /\ s.consumed \in Nat /\ s.filtered \in Nat /\ s.invalid \in Nat
      /\ s.schema_valid \in Nat /\ s.schema_invalid \in Nat
      /\ t.consumed \in Nat /\ t.filtered \in Nat /\ t.invalid \in Nat
      /\ t.schema_valid \in Nat /\ t.schema_invalid \in Nat
  BY <1>1, <1>2 DEF Counters
<1>10. /\ s.consumed - s.filtered - s.invalid
            = Times(log, "kafka", "forward") + Times(log, "kafka", "no event")
                + Times(log, "kafka", "raise")
       /\ s.invalid = Times(log, "kafka", "invalid")
       /\ s.schema_invalid = s.invalid + Times(log, "http", "invalid")
       /\ s.schema_valid + s.schema_invalid <= Len(log)
  BY DEF Tell
<1> HIDE DEF t, longer, v
<1>11. t.consumed - t.filtered - t.invalid
         = Times(longer, "kafka", "forward") + Times(longer, "kafka", "no event")
             + Times(longer, "kafka", "raise")
  <2>1. /\ Times(longer, "kafka", "forward") = Times(log, "kafka", "forward") + One(v, "forward")
        /\ Times(longer, "kafka", "no event") = Times(log, "kafka", "no event") + One(v, "no event")
        /\ Times(longer, "kafka", "raise") = Times(log, "kafka", "raise") + One(v, "raise")
    BY <1>3
  <2>2. /\ One(v, "skip") \in {0, 1} /\ One(v, "invalid") \in {0, 1}
        /\ One(v, "forward") \in {0, 1} /\ One(v, "no event") \in {0, 1}
        /\ One(v, "raise") \in {0, 1}
    BY <1>7
  <2> DEFINE consumed == s.consumed
             filtered == s.filtered
             invalid == s.invalid
             a == Times(log, "kafka", "forward")
             b == Times(log, "kafka", "no event")
             c == Times(log, "kafka", "raise")
             skip == One(v, "skip")
             bad == One(v, "invalid")
             x == One(v, "forward")
             y == One(v, "no event")
             z == One(v, "raise")
  <2>3. /\ consumed \in Nat /\ filtered \in Nat /\ invalid \in Nat
        /\ a \in Nat /\ b \in Nat /\ c \in Nat
        /\ skip \in {0, 1} /\ bad \in {0, 1} /\ x \in {0, 1} /\ y \in {0, 1} /\ z \in {0, 1}
    BY <1>8, <1>9, <2>2
  <2>4. consumed - filtered - invalid = a + b + c /\ skip + bad + x + y + z = 1
    BY <1>6, <1>10
  <2>5. /\ t.consumed = consumed + 1 /\ t.filtered = filtered + skip /\ t.invalid = invalid + bad
        /\ Times(longer, "kafka", "forward") = a + x
        /\ Times(longer, "kafka", "no event") = b + y
        /\ Times(longer, "kafka", "raise") = c + z
    BY <1>2, <2>1
  <2> HIDE DEF consumed, filtered, invalid, a, b, c, skip, bad, x, y, z
  <2>6. (consumed + 1) - (filtered + skip) - (invalid + bad) = (a + x) + (b + y) + (c + z)
    BY <2>3, <2>4
  <2> QED  BY <2>5, <2>6
<1>12. t.invalid = Times(longer, "kafka", "invalid")
  BY <1>2, <1>3, <1>10
<1>13. t.schema_invalid = t.invalid + Times(longer, "http", "invalid")
  <2>1. One(v, "invalid") \in {0, 1}
    BY <1>7
  <2> DEFINE invalid == s.invalid
             b == Times(log, "http", "invalid")
             bad == One(v, "invalid")
  <2>2. invalid \in Nat /\ b \in Nat /\ bad \in {0, 1}
    BY <1>8, <1>9, <2>1
  <2>3. /\ t.schema_invalid = (invalid + b) + bad /\ t.invalid = invalid + bad
        /\ Times(longer, "http", "invalid") = b
    BY <1>2, <1>4, <1>10
  <2> HIDE DEF invalid, b, bad
  <2>4. (invalid + b) + bad = (invalid + bad) + b
    BY <2>2
  <2> QED  BY <2>3, <2>4
<1>14. t.schema_valid + t.schema_invalid <= Len(longer)
  <2> DEFINE before == s.schema_valid + s.schema_invalid
             after == t.schema_valid + t.schema_invalid
             k == Len(log)
  <2>1. before \in Nat /\ after \in Nat /\ k \in Nat
    <3>1. before \in Nat
      BY <1>9
    <3>2. after \in Nat
      BY <1>9
    <3> QED  BY <1>5, <3>1, <3>2
  <2>2. before <= k /\ after <= before + 1 /\ Len(longer) = k + 1
    BY <1>2, <1>5, <1>10
  <2> HIDE DEF before, after, k
  <2>3. after <= k + 1
    BY <2>1, <2>2
  <2> QED  BY <2>2, <2>3 DEF after
<1> QED  BY <1>2, <1>11, <1>12, <1>13, <1>14 DEF Tell, t, longer

(* Of the route's messages the validator counts its own.                   *)
LEMMA TellAfterRoute ==
  ASSUME NEW log \in Seq(Judgement), NEW s, Tell(s, log), NEW p, NEW j \in Judgement,
         Right(j, p), j.path = "http"
  PROVE  Tell(SchemaCounts(s, p, j.message), Append(log, j))
<1> DEFINE t == SchemaCounts(s, p, j.message)
           longer == Append(log, j)
           v == j.verdict
<1>1. s \in Counters /\ v = ConsumerVerdict(p, j.engine, j.message)
  BY DEF Tell, Right
<1>2. /\ t \in Counters
      /\ t.consumed = s.consumed /\ t.filtered = s.filtered /\ t.invalid = s.invalid
      /\ t.schema_invalid = s.schema_invalid + One(v, "invalid")
      /\ t.schema_valid + t.schema_invalid <= s.schema_valid + s.schema_invalid + 1
  BY <1>1, SchemaCountsOne
<1>3. ASSUME NEW verdict
      PROVE  Times(longer, "kafka", verdict) = Times(log, "kafka", verdict)
  <2>1. Times(longer, "kafka", verdict)
          = Times(log, "kafka", verdict) + (IF j.path = "kafka" THEN One(j.verdict, verdict) ELSE 0)
    BY TimesAppended
  <2>2. (IF j.path = "kafka" THEN One(j.verdict, verdict) ELSE 0) = 0
    BY DEF One
  <2>3. Times(log, "kafka", verdict) \in Nat
    BY TimesType
  <2> QED  BY <2>1, <2>2, <2>3
<1>4. Times(longer, "http", "invalid") = Times(log, "http", "invalid") + One(v, "invalid")
  <2>1. Times(longer, "http", "invalid")
          = Times(log, "http", "invalid") + (IF j.path = "http" THEN One(j.verdict, "invalid") ELSE 0)
    BY TimesAppended
  <2> QED  BY <2>1 DEF One
<1>5. Len(longer) = Len(log) + 1 /\ Len(log) \in Nat
  BY AppendedHas
<1>6. Times(log, "http", "invalid") \in Nat /\ One(v, "invalid") \in {0, 1}
  BY TimesType DEF One
<1>7. /\ s.schema_valid \in Nat /\ s.schema_invalid \in Nat /\ s.invalid \in Nat
      /\ t.schema_valid \in Nat /\ t.schema_invalid \in Nat
  BY <1>1, <1>2 DEF Counters
<1>8. /\ s.consumed - s.filtered - s.invalid
           = Times(log, "kafka", "forward") + Times(log, "kafka", "no event")
               + Times(log, "kafka", "raise")
      /\ s.invalid = Times(log, "kafka", "invalid")
      /\ s.schema_invalid = s.invalid + Times(log, "http", "invalid")
      /\ s.schema_valid + s.schema_invalid <= Len(log)
  BY DEF Tell
<1> HIDE DEF t, longer, v
<1>9. t.consumed - t.filtered - t.invalid
        = Times(longer, "kafka", "forward") + Times(longer, "kafka", "no event")
            + Times(longer, "kafka", "raise")
  BY <1>2, <1>3, <1>8
<1>10. t.invalid = Times(longer, "kafka", "invalid")
  BY <1>2, <1>3, <1>8
<1>11. t.schema_invalid = t.invalid + Times(longer, "http", "invalid")
  <2> DEFINE invalid == s.invalid
             b == Times(log, "http", "invalid")
             bad == One(v, "invalid")
  <2>1. invalid \in Nat /\ b \in Nat /\ bad \in {0, 1}
    BY <1>6, <1>7
  <2>2. /\ t.schema_invalid = (invalid + b) + bad /\ t.invalid = invalid
        /\ Times(longer, "http", "invalid") = b + bad
    BY <1>2, <1>4, <1>8
  <2> HIDE DEF invalid, b, bad
  <2>3. (invalid + b) + bad = invalid + (b + bad)
    BY <2>1
  <2> QED  BY <2>2, <2>3
<1>12. t.schema_valid + t.schema_invalid <= Len(longer)
  <2> DEFINE before == s.schema_valid + s.schema_invalid
             after == t.schema_valid + t.schema_invalid
             k == Len(log)
  <2>1. before \in Nat /\ after \in Nat /\ k \in Nat
    <3>1. before \in Nat
      BY <1>7
    <3>2. after \in Nat
      BY <1>7
    <3> QED  BY <1>5, <3>1, <3>2
  <2>2. before <= k /\ after <= before + 1 /\ Len(longer) = k + 1
    BY <1>2, <1>5, <1>8
  <2> HIDE DEF before, after, k
  <2>3. after <= k + 1
    BY <2>1, <2>2
  <2> QED  BY <2>2, <2>3 DEF after
<1> QED  BY <1>2, <1>9, <1>10, <1>11, <1>12 DEF Tell, t, longer

Telling ==
  /\ stats \in [Instances -> [Pipelines -> Counters]]
  /\ \A i \in Instances, p \in Pipelines : Tell(stats[i][p], judged[i][p])

LEMMA TellingStep ==
  ASSUME EnginesInv, JudgedInv, Telling, [PipelineNext]_pipelineVars
  PROVE  Telling'
<1>1. CASE UNCHANGED <<judged, stats>>
  BY <1>1 DEF Telling
<1>2. ASSUME NEW i \in Instances, Restart(i)
      PROVE  Telling'
  <2>1. NoStats \in Counters
    BY DEF NoStats, Counters
  <2> QED  BY <1>2, <2>1, TellAtStart DEF Restart, Telling, JudgedInv
<1>3. ASSUME NEW i \in Instances, NEW p \in Pipelines, NEW j \in Judgement, NEW t,
             judged' = [judged EXCEPT ![i][p] = Append(@, j)],
             stats' = [stats EXCEPT ![i][p] = t],
             Tell(t, Append(judged[i][p], j))
      PROVE  Telling'
  <2>1. t \in Counters
    BY <1>3 DEF Tell
  <2>2. stats' \in [Instances -> [Pipelines -> Counters]]
    BY <1>3, <2>1 DEF Telling
  <2>3. ASSUME NEW k \in Instances, NEW q \in Pipelines
        PROVE  Tell(stats'[k][q], judged'[k][q])
    <3>1. CASE k = i /\ q = p
      <4>1. stats'[i][p] = t /\ judged'[i][p] = Append(judged[i][p], j)
        BY <1>3 DEF Telling, JudgedInv
      <4> QED  BY <1>3, <3>1, <4>1
    <3>2. CASE ~(k = i /\ q = p)
      <4>1. stats'[k][q] = stats[k][q] /\ judged'[k][q] = judged[k][q]
        BY <1>3, <3>2 DEF Telling, JudgedInv
      <4> QED  BY <4>1 DEF Telling
    <3> QED  BY <3>1, <3>2
  <2> QED  BY <2>2, <2>3 DEF Telling
<1>4. ASSUME NEW i \in Instances, NEW p \in Pipelines
      PROVE  judged[i][p] \in Seq(Judgement) /\ Tell(stats[i][p], judged[i][p])
  BY DEF JudgedInv, Telling
<1>5. ASSUME NEW i \in Instances, NEW p \in Pipelines, NEW m \in Messages, Consume(i, p, m)
      PROVE  Telling'
  <2> DEFINE e == consumerEngine[i][p]
  <2>1. PICK j \in Judgement :
          /\ j.path = "kafka" /\ j.engine = e /\ j.message = m /\ Right(j, p)
          /\ judged' = [judged EXCEPT ![i][p] = Append(@, j)]
    BY <1>5, MessageIsJudged, Judged
  <2> DEFINE t == ConsumerCounts(stats[i][p], p, m, j.verdict)
  <2>2. j.verdict = ConsumerVerdict(p, e, m)
    BY <2>1 DEF Right
  <2>3. stats' = [stats EXCEPT ![i][p] = t]
    BY <1>5, <2>2 DEF Consume
  <2>4. Tell(t, Append(judged[i][p], j))
    BY <1>4, <2>1, TellAfterLoop
  <2> HIDE DEF t
  <2> QED  BY <1>3, <2>1, <2>3, <2>4
<1>6. ASSUME NEW i \in Instances, NEW p \in Pipelines, NEW m \in Messages,
             IngestMessage(i, p, m)
      PROVE  Telling'
  <2> DEFINE e == engine[i][p]
             t == SchemaCounts(stats[i][p], p, m)
  <2>1. PICK j \in Judgement :
          /\ j.path = "http" /\ j.engine = e /\ j.message = m /\ Right(j, p)
          /\ judged' = [judged EXCEPT ![i][p] = Append(@, j)]
    BY <1>6, MessageIsJudged, Judged
  <2>2. stats' = [stats EXCEPT ![i][p] = t]
    BY <1>6 DEF IngestMessage
  <2>3. Tell(t, Append(judged[i][p], j))
    BY <1>4, <2>1, TellAfterRoute
  <2> HIDE DEF t
  <2> QED  BY <1>3, <2>1, <2>2, <2>3
<1> QED
  BY <1>1, <1>2, <1>5, <1>6 DEF PipelineNext, pipelineVars, Configure

(* /metrics accounts for each record of the loop once and the validator's  *)
(* counters for each invalid event of either way in, for any messages.     *)
THEOREM PipelineCountersTell == PipelineSpec => []CountersTell
<1>1. PipelineInit => Telling
  <2>1. NoStats \in Counters
    BY DEF NoStats, Counters
  <2> QED  BY <2>1, TellAtStart DEF PipelineInit, Telling
<1>2. EnginesInv /\ JudgedInv /\ Telling /\ [PipelineNext]_pipelineVars => Telling'
  BY TellingStep
<1>3. EnginesInv /\ Telling => CountersTell
  <2>1. ASSUME EnginesInv, Telling, NEW i \in up, NEW p \in Pipelines
        PROVE  Tell(stats[i][p], judged[i][p])
    BY <2>1 DEF Telling, EnginesInv, TypeOK
  <2>2. \A i, p, path, verdict :
          Number(i, p, path, verdict) = Times(judged[i][p], path, verdict)
    BY DEF Number, Times
  <2> QED  BY <2>1, <2>2 DEF CountersTell, Tell
<1> QED  BY <1>1, <1>2, <1>3, JudgedInvHolds, PTL DEF PipelineSpec
=============================================================================
