# TLA+ verification of the Kafka → n8n event forwarder

The service takes events from Kafka, with its own consumer or through an AWS
Lambda function and `POST /ingest/{env}`, filters them, and posts those that
pass to an n8n webhook. This directory holds models of that, the TLC
configurations that check them, and TLAPS proofs about them. `PROJECT.json`
lists components, runs, findings, hazards and theorems and maps every definition
to the lines it stands for.

    tlc -config MCConsumer.cfg MCConsumer.tla     # any run
    tlapm ConsumerProofs.tla                      # any module *Proofs

## Inventory

| Part | State | Operations | Talks to |
|---|---|---|---|
| `app/webhook.py` WebhookForwarder | HTTP session, DLQ producer, 3 counters | `start`, `forward`, `_attempt`, `_send_to_dlq`, `close` | n8n (HTTP), dead letter topic |
| `app/consumer.py` KafkaConsumerService | client, `_running`, `_connected`, 3 counters; position and assignment in aiokafka, offsets in the broker | `start`, `_consume_loop`, `_deserialize`, `commit` | broker and group coordinator, engine, validator, forwarder |
| `app/main.py` lifespan | `_pipelines`, one task per Kafka pipeline | build, start, cancel, close | all of the above |
| `app/main.py` ingest | – | `POST /ingest/{env}` | validator, engine, forwarder |
| `app/main.py` config API | `PipelineState.config`, `.filter_engine` | `GET /api/pipelines`, `PUT .../filters` | filter store, engine |
| `app/main.py` probes | – | `/health`, `/ready`, `/metrics` | consumer task, counters |
| `app/filter_store.py` | a JSON object in a bucket or a local file | `load`, `save`, `set_pipeline` | bucket, file system |
| `app/filter_engine.py` | rules per event type | `from_pipeline`, `should_forward` | – |
| `app/schema_validator.py` | schemas, 2 counters | `validate` | – |
| `app/config.py` | settings from the environment | validation at start-up | – |
| `lambda/handler.py` | totals of one invocation | `lambda_handler`, `_post` | MSK trigger, ingest |
| `app/static/index.html` | a copy of all filters per browser | edit, delete, save | config API |
| `app/auth.py`, `app/logging_config.py`, `scripts/`, deployment files | – | – | – |

What is hard, per part, and what makes the part correct:

* **Forwarder.** Calls of the consumer and of ingest requests run concurrently on
  one forwarder; an answer can be lost or late, so that n8n has what the caller
  believes failed. Correct: it gives up only after every attempt failed, an event
  given up is in the dead letter topic or in the log, a success that was seen is
  the end of it, the counters add up.
* **Consumer.** The position moves on before the record is dealt with, one
  `commit()` covers all partitions, the group may be rebalanced at any await, a
  commit may land late, after its task died, or be fenced, and an evicted
  instance goes on for a while. Correct: nothing is committed that was not
  dealt with, records of a partition are forwarded in order, offsets do not move
  back, and everything is committed in the end.
* **Lambda and ingest.** The batch is repeated as a whole while requests of
  earlier invocations are still being forwarded, and the filters may change between
  any two requests. Correct: the handler returns only when every event was accepted or
  dropped in that pass; n8n is never offered an event ahead of an earlier one that is
  neither; the totals are those of one pass.
* **Config API and store.** The store is read and written as a whole, without a
  lock across instances; the store, the config and the engine change one after
  the other and any step may raise. Correct: no update costs another pipeline its
  entry, no engine is a mixture, what the UI shows is in force.
* **Lifespan and probes.** Several pipelines share a process: they are started and
  closed one by one while tasks, requests and probes go on, a task can end at any
  moment, and its client's `stop()` can hang. Correct: nobody uses a closed
  forwarder, a dead or hanging consumer shows, a shutdown ends, and in the end all
  consumers run again.
* **Filter engine and schema validator.** Values of any JSON type meet rules of any
  operator; some raise. Two ways in judge the same messages with engines, a
  validator and a config that are replaced at different moments or never. Correct: a
  field that is missing never matches, the order of rules decides nothing, both ways
  agree, nothing invalid is forwarded, the counters tell.
* **UI.** A page saves its whole copy of a pipeline, one request per edit, unordered.
  Correct: pages that do not overtake each other lose no confirmed edit.

## Modules

    Delivery        what forward() promises                        (abstract)
      ^ implements
    Forwarder       app/webhook.py, attempt by attempt
    TaskLife        what the platform does for a consumer's task   (abstract)
      ^ implements, once per pipeline
    Lifecycle       lifespan, tasks, probes, shutdown of a container
    Consumer        app/consumer.py, a group of instances     INSTANCE Delivery
    Ingest          lambda/handler.py + POST /ingest/{env}    INSTANCE Delivery
    FilterConfig    PUT/GET of the filters + app/filter_store.py
      ^ implements
    Editors         pages of the UI                           EXTENDS FilterConfig
    FilterEngine    rules and schemas as operators
    Pipeline        messages, filters that change             EXTENDS FilterConfig,
                                                              FilterEngine
    MC*             small constants for TLC
    *Proofs         theorems about the module of that name

**Delivery** is the contract between forward() and its clients: TRUE only for an
event n8n has accepted, FALSE only for one that is in the dead letter topic
(`dlq`) or was logged as lost (`lost`), an exception promises nothing, and n8n may
accept at any moment an event it was ever offered. `Consumer` and `Ingest` are
written against it, `Forwarder` implements it; so the models of the clients need
no attempts or timers.

**Forwarder.** `pc[c]` is the await at which a call is suspended: the POST
("wait"), the backoff ("sleep"), `send_and_wait` ("dlq"). `request[c][a]` is what
n8n did with attempt `a`, `seen[c][a]` what `_attempt()` made of it: a network
error can be seen after n8n accepted. `Exhausted` is the last failure together
with `_webhook_errors += 1` and the branch of `_send_to_dlq()`: there is no await
between them. `TimesOut` is `asyncio.TimeoutError`, which the code does not catch.
Whether a dead letter topic is configured (`hasDlq`) is chosen in `Init` and never
changes, so that every run and theorem covers both.

**TaskLife and Lifecycle.** `TaskLife` is what `Consumer` takes for granted of its
task: it is started, connects, ends for whatever reason, and is started again once
it has ended. `Lifecycle` is one container with several pipelines: `proc` and `at`
are where the lifespan is in `Order`, `task[p]` where `KafkaConsumerService.start()`
is, `running` and `connected` the two flags the probes read, `forwarder[p]` the
session and the dead letter producer. A step is what happens between two awaits;
tasks of pipelines already started run while the lifespan awaits the next one's
producer. `Unwinds` clears both flags before the client's `stop()` is awaited, which
may hang. `CancelTask`, `WaitTimesOut`, `CloseForwarder` and `Abort` are the loop of
the shutdown: `wait_for` with Python 3.12, the version of the image, cancels the task
a second time when it times out and waits for it to end; a task that ends with
another exception at that moment leaves the lifespan by that exception (`Abort`), as a
dead letter producer that does not start does (`StartupFails`). The process is then
"exiting": `asyncio.run()` cancels the tasks that are left (`CancelsAll`) and waits for
them without a timeout, so that a `stop()` that hangs in a `finally` clause
(`consumer.py:96`) keeps the process from its end. It ends when the last of them is done
(`Exit`) or by the platform's SIGKILL (`KillHanging`). A SIGTERM while the lifespan still
starts is part of `Kill`. A probe's threshold is one step:
`StartupProbeFails` costs a disruption when nothing has failed and the broker is only
slow. `TasksLive` and `SupervisesTasks` are the refinement of `TaskLife` by every
pipeline, the first its steps and the second its fairness: the crash, kill or shutdown
caused by one pipeline is an `Exit` of the others. Every instance of `Consumer` moves as
`TaskLife` says, too (`ConsumerLivesAsTaskLife`), so that the two models agree on what
they share.

**Consumer.** `position[i][p]` and `committed[p]` count records of the immutable
`Log[p]`, whose records are only what the loop does with them: *match*, *skip*,
*raises*. `Pipeline` says which message is which, and `PipelineLoopJudgesAlike` that it
is the same one for good, as the loop keeps the engine it was built with. Every stretch
of the loop between two awaits is one action: `FetchMatch` up to `forward()`,
`ForwardReturns` from there to sending the commit, `CommitLands` and
`CommitFails` its answer. `offer[i]` is a commit that was sent; it survives the
task that sent it. External and therefore free: which members the coordinator
evicts and when (`Rebalance`), the assignment of partitions, whether a commit
lands. A rebalance resets the positions of the new members to the committed
offsets and fences commits of the old generation. `Boot` and `Exit` are those of
`TaskLife`.

**Ingest.** One batch; `http[<<n, k>>]` is the request of invocation `n` for record
`k` in the service. `Raises` may happen at any time while the function waits, and
the service goes on with the request: this is the HTTP timeout of 10 s against
up to four POSTs with backoff. The kinds of records are those that do not change:
*empty*, *garbage*, *invalid* (the validator keeps its schemas) and *event*. Whether an
event passes the filters is open for each request (`Judge` or `Forward`), because an
update reaches one instance, a restart brings back the filters of the environment on
another, and a request goes to any of them. That validating or filtering may raise, in
the service a 500 like an unknown pipeline or a wrong secret, is part of `Refuse`.
Giving up on a batch (`MaxInvocations`) is the trigger's matter.

**FilterConfig.** A body is opaque but for how far `api_update_filters()` gets
with it (`Quality`): a *good* one is applied, the rules of an *unbuildable* one do not
parse, the filters of a *malformed* one are no `EventFilterConfig`, a *shapeless* one is
JSON but no object, and is stored before `data.get()` raises. Objects that lack one of
the two keys are left out. `Reconfigured` is what the config is after a body, `Showable`
whether a stored entry lets GET answer at all. `config`, `engine` and `consumerEngine` record of which body
the field and the filters come. On one instance nothing runs between `load()` and
the end of the handler, which has no await there: `Load` and `Update` are two
actions because the bucket and other instances move in between, and `put[i]` # NoPut
blocks the instance. Whether the store is a bucket or a file per instance (`shared`)
is chosen in `Init`. A file write may be torn; a failed read gives an empty store,
which the next save writes back; `forgetful` remembers that either has happened.
`StoreIsLatest`, `NeverAnOlderOne` and `ShownIsInForce` are about stores with one
writer (`OneWriter`: a file, or a bucket with one instance).

**Editors.** `page[e]` is the copy of all pipelines' entries that a page read at load;
a page does not load where GET fails (`Showable`); `SaveModal` and `DeleteEventType` change it and send, in the same step, the whole
pipeline (`Payload`). `saves` are on their way, in no order, and may get lost;
`serving[i]` is the one `FilterConfig`'s `put[i]` is. A save that fails leaves the edit
on the page, as `save()` looks only at `r.ok`. `ForeignPut` is any other client of the
API. Three variables only remember: `fresh[e]`, the pipelines nothing has changed
behind that page's back; `careful`, the pipelines only ever saved from fresh pages and
one save at a time; `kept`, what the last save the badge confirmed made of each entry.
No action's guard reads them. They state what the UI can promise: `PageIsStored` and
`ConfirmedEditsKept` speak about careful use alone, because a second page or a second
click before the first save is answered can undo any edit.

**FilterEngine.** `Resolve`, `Matches`, `Raises`, `ApplyFilterSet`, `ShouldForward` and
`Validate` as operators over JSON values, which are records of a kind with what
`str()`, `float()` and `==` make of them: `True == 1`, in lists and objects too, `"10"`
compares as a number, a missing field is not null, an integer can be too large for
`float()`. A field that is no string (`NoPath`; the API accepts a null) has no `split()`:
judging raises. What `re` and the
substring test say of two texts are constants; `jsonschema` is a set of wanted kinds.

**Pipeline.** Both ways in judge messages in one step each (there is no await between
validation and filtering), over `FilterConfig`'s steps. `judged[i][p]` is a history of
what was made of each message since the start, with the engine that judged it; `stats`
are the counters of the consumer and of the one schema validator both ways share. The
loop has `consumerEngine`, the route `engine`, the validator always the field of the
environment, the metadata `config`: four moments of one setting.

## Runs

| Run | Instance | Shows |
|---|---|---|
| `forwarder` | 2 calls (1 cancellable), 1 retry, with and without DLQ, fair | outcomes, counters, termination, refinement of Delivery |
| `consumer` | 2 instances, 2 partitions, match·match / raises, 2 disruptions | AtLeastOnce, InOrder, CommittedNeverRegresses |
| `consumer_group` | 2 instances, 1 partition, skip·match, 3 disruptions, fair | all committed if one instance is left alone, or if the group settles |
| `ingest` | 5 records, 3 invocations, filters that change, fair | BatchSettled, InOrder, TotalsOfOnePass, InvocationEnds |
| `config` | 1 instance, 2 pipelines, 2 pages, 2 saves, 2 updates (good or malformed), 1 restart, lost save or store failure, bucket and file | StoreIsLatest, NeverAnOlderOne, ConfirmedEditsKept, PageIsStored |
| `lifecycle` | 3 pipelines (2 with Kafka, 2 with DLQ), 5 disruptions, fair | NoUseAfterClose, ProbesTellTheTruth, AdmittedOnceAllConnected, ShutdownClosesAll, ShutdownCompletes, EventuallyAllRun, refinement of TaskLife (TasksLive, SupervisesTasks), no deadlock |
| `pipeline` | 1 instance, 6 messages, 2 per start, 2 updates of every quality, 1 restart or store failure | EngineWhole, ShownIsInForce, ForwardedIsValid, MissingFieldNeverForwards, RuleOrderIrrelevant, PathsAgree, MetadataNamesType, CountersTell |

Each also checks its type invariant, `consumer_group` excepted. The five runs whose
property must fail are listed under Findings.

**Bounds.** Two calls suffice to mix up counters, and one retry gives a first
attempt, which is not the last, and a last one; the proofs cover the default of
three retries and any other number. Two instances and two matching records give
every order of a commit, an eviction and a takeover; the second partition's record
that raises must not be committed past by the one `commit()` that covers both; two
disruptions allow an eviction and a failure of the instance that took over.
`consumer_group` has one partition so that three disruptions fit: an eviction, a
failed commit of the instance that took over, and a shutdown. The
batch has two events around one record of every other kind; three
invocations let two abandoned requests overlap with a live one, and an event be
dropped, offered and dropped again. Two pipelines and
two updates, either of which may be refused, are what a lost entry needs; two
pages and two saves are what one page undoing another, or an older save overtaking a
younger one, needs. Three pipelines give the lifespan one before and one behind the
one that fails, and one without Kafka; five disruptions allow a failed start, a crash
while it starts again, a `stop()` that raises during the shutdown that follows and
aborts it, one that raises while the process is exiting, and a kill. The six messages
are no event, a valid one, an invalid one, one whose amount `float()` overflows on, one
whose schema raises, and one with a null type; `any` and `all` are met, and not met
with fields missing, and a rule raises behind one that is met. Two per start let
each way in see the other's message, and the counters go wrong; the bodies are of all
four qualities, with an `event_type_field` of one key, of two, and none. That a type
without rules is skipped is left to the proofs. The proofs below have no such bounds.

`lifecycle` checks for deadlock: a container is always started again. The other runs
set `CHECK_DEADLOCK FALSE`: their models stop when the log is consumed, the calls are
over or a bound is reached.

**Symmetry** of the two instances is used in `consumer`, of the pages and the pipelines
in `config`; both check invariants and no liveness (`CommittedNeverRegresses` is an
action property).

**Fairness.** Forwarder: each call's own steps, as the POST has a total timeout
(`webhook.py:32`), the sleep a timer, and `send_and_wait` the producer's request
timeout; nothing of n8n. Consumer: the platform restarts what is dead and starts an
instance when none runs, which is `TaskLife`'s fairness and what `Lifecycle` provides;
it owes nobody a second instance. The coordinator reacts to who joined and left and
answers commits, `forward()` returns (`CallsEnd`); nothing of n8n, nor of any
disruption. `service.yaml` has `minScale: "0"`: a pipeline that gets no HTTP traffic
keeps its instance only where that is changed, so "starts an instance when none runs"
is an assumption about the deployment. Lifecycle: the platform starts, probes and ends
the container, a broker can be connected to, a request is answered, the lifespan's own
steps are taken, because `wait_for` has a timeout and `close()` returns. Nothing makes
a client's `stop()` return: a task may hang there until the liveness probe sees its
flags and the shutdown cancels it. Where the lifespan has raised nobody cancels it a
second time, and only the platform's SIGKILL ends the process. That it comes is an
assumption of its own, `HangingIsKilled`: `EventuallyAllRun` and `SupervisesTasks` are
stated under it and fail without it; `ShutdownCompletes` does without it and says
instead that only such a `stop()` keeps a shutdown from its end. Ingest: the function runs and `urlopen` has a
timeout; nothing of the service.

`CommittedOnceGroupSettles` is conditional for a reason: a rebalance fences the
commit of an instance that is at it, `CommitFailedError` is a `KafkaError`, which
`start()` re-raises (`consumer.py:89`), the task ends, and its restart is the next
rebalance, which may fence the other instance. With two instances TLC finds that
this can go on for ever; nothing in the code bounds it. An instance that is left
alone cannot do that to itself: that is `EventuallyCommitted`.

## Findings

| Run | What the code does | What is said |
|---|---|---|
| `forwarder_4xx` | a 4xx answer is retried like a 5xx | `README.md:65`, `webhook.py:172`, `tests/test_webhook.py:76` |
| `forwarder_timeout` | a POST that times out leaves `forward()` as an exception: no retry, no DLQ, no log of the event | `config.py:58` |
| `config_consumer` | an update does not reach the Kafka consumer's engine | `README.md:83`, `main.py:329` |
| `config_restart` | a restart filters by `PIPELINES_JSON`, the UI shows the store | `README.md:84`, `filter_store.py:3-4` |
| `config_race` | overlapping updates of two instances lose one | `README.md:84` |

In the `consumer` runs a timed-out POST is `ForwardRaises`: the task ends and the
record is read again, so with the consumer the event is not lost, only late. Through
`/ingest` it is a 500, and the batch is repeated.

Met while modelling, with no document that says otherwise; the properties carry the
condition under which they hold:

* A record with a null value, or one whose judgement raises (a pattern that does not
  compile, an integer too large for `float()`), ends the consumer's task at the same
  offset after every restart (`consumer.py:166`, `filter_engine.py:157`): kind *raises*.
* The schema validator keeps the `event_type_field` it was built with
  (`schema_validator.py:64`): after an update that changes it the validator and the
  engine look at different fields (`ForwardedIsValid`).
* The UI always sends `event_type_field: 'event_type'` (`index.html:319`): a save from it
  resets a pipeline that had another field. An `in` rule made by the UI has no list as
  its value and never matches, although `README.md:82` lists `in`.
* A PUT whose body is JSON but no object is a 500, but the body is stored
  (`main.py:339`): from then on `GET /api/pipelines` is a 500 for all pipelines
  (`main.py:315`), and no page loads, until that entry is replaced. `ShownIsInForce` says
  that it is never the entry of a pipeline whose last update was accepted.
* A PUT with `"event_type_field": null` is accepted, and every `POST /ingest` of the
  pipeline is a 500 after it (`filter_engine.py:165`).
* A task that ends with an exception while the shutdown awaits it (`main.py:109`) leaves
  the forwarders from its pipeline on open, and tasks that may hang
  (`ShutdownClosesAll`, `ShutdownCompletes`).
* Two quick saves of one page are two requests under way, and the older may arrive
  last; a save that fails shows nothing (`index.html:331`).
* One stored entry that the service refuses, from another client, makes every later
  save of that pipeline from the UI a 500 although it is stored: the page sends all
  entries, that one included.

## Proofs

| Module | Theorems | Argument |
|---|---|---|
| `ForwarderProofs` | `ForwarderTypeCorrect`, `ForwarderGivesUpOnlyExhausted`, `ForwarderRepeatsOnlyUnacknowledged`, `ForwarderImplementsDelivery`, `ForwarderCountersAccount` | `IInv`: for each call, the attempts before the current one failed, those after it were not made, the current one is what the suspension point says. The refinement maps a call to a caller of Delivery with one event. For the counters, each step moves at most one call between the sets that are counted |
| `ConsumerProofs` | `TypeCorrect`, `ConsumerAtLeastOnce`, `ConsumerInOrder`, `ConsumerNeverRegresses`, `ConsumerUsesDelivery`, `ConsumerLivesAsTaskLife` | `IInv`: below a position everything is dealt with except the record this instance is forwarding, and a commit on its way covers only what is dealt with. `GroupInv`: within a generation a partition is held by one member, which is not behind the offsets |
| `IngestProofs` | `IngestTypeCorrect`, `IngestBatchSettled`, `IngestInOrder`, `IngestUsesDelivery`, `IngestTotalsOfOnePass` | `IInv`: a live invocation has settled what it went past, and any request the service ever received, live or not, was sent when the records before it were settled for the invocation that sent it (`InTurn`). An answer is never overwritten, because the function sends each request once (`Fresh`). For the totals: a live invocation awaits nothing of what it went past (`PastFinal`) and has counted it by its answers (`PastCounted`) |
| `FilterConfigProofs` | `FilterConfigTypeCorrect`, `FilterConfigEngineWhole`, `FilterConfigStoreIsLatest`, `FilterConfigNeverAnOlderOne`, `FilterConfigShownIsInForce` | `StoreInv`: what a request has read is what it will find again, and, if nothing was forgotten, all of it. This is where `OneWriter` comes in: `config_race` shows what happens without it. An engine agrees with what is shown because the update that was answered "ok" wrote store, config and engine from one body, a good one (`AcceptedIsLatest`) |
| `EditorsProofs` | `EditorsTypeCorrect`, `EditorsImplementFilterConfig`, `EditorsConfirmedEditsKept`, `EditorsPageIsStored` | Every step of the pages and the service is one of FilterConfig or leaves it alone, so its invariants hold here. `EditorsInv`: what is under way for a pipeline comes from the page that is fresh on it and carries that page's entries (`PageInv`), careful saves are under way one at a time (`CarefulInv`), and none of them undoes a confirmed edit (`KeptInv`) |
| `LifecycleProofs` | `LifecycleTypeCorrect`, `LifecycleNoUseAfterClose`, `LifecycleProbesTellTheTruth`, `LifecycleAdmittedOnceAllConnected`, `LifecycleShutdownClosesAll`, `LifecycleTasksLive` | `IInv`: the forwarders follow the lifespan along `Order`, up and down (`ForwarderFollows`), the flags follow the task (`FlagsFollow`), and nothing is ingesting outside serving and draining (`LifespanInv`). That a shutdown has closed what it went past, or what is before the pipeline it was aborted at, is read off `ForwarderFollows` at the step that leaves "closing". The refinement follows each task through the steps of all the others: a task is created only where none was (`CreatedOnce`) |
| `FilterEngineProofs` | `EngineResolveReturnsEarly` | `Resolve` is a recursive function of the path. That one exists for every path and that two agree as far as their paths do is shown by the least length for which it would not be so (`LeastNumber`): it takes the place of induction, whose theorems the provers cannot instantiate. So the model, which goes on along the path, and the code, which returns at the first key it does not find, mean the same |
| `PipelineProofs` | `PipelineTypeCorrect`, `PipelineImplementsFilterConfig`, `PipelineForwardedIsValid`, `PipelinePathsAgree`, `PipelineRuleOrderIrrelevant`, `PipelineMissingFieldNeverForwards`, `PipelineMetadataNamesType`, `PipelineLoopJudgesAlike`, `PipelineCountersTell` | `JudgedInv`: each judgement is `ConsumerVerdict` of its engine and its message, the loop's engine is that of the environment, and the route names the type by its engine's field unless an update was refused (`EnginesInv`, with FilterConfig's `EngineWhole`); so that most of the rest is about the operators. Steps that judge leave FilterConfig's variables alone. `Telling` strengthens `CountersTell` to instances that are down |

They hold for every value of the constants that satisfies the named assumptions of
the modules; the strengthened invariants were checked with TLC first. None of the
safety properties is inductive alone: `AtLeastOnce` says nothing of the positions
the next commit is made of, `BatchSettled` nothing of the records on the way,
`StoreIsLatest` nothing of what a request has read and is about to write back,
`ConfirmedEditsKept` nothing of the saves that are yet to arrive, `NoUseAfterClose`
nothing of which forwarders are open while the lifespan is at another pipeline.

The invariants the arguments name are at the head of the modules `*Proofs`.

Only model-checked: liveness (`CallsEnd`, `EventuallyCommitted`,
`CommittedOnceGroupSettles`, `InvocationEnds`, `ShutdownCompletes`, `EventuallyAllRun`)
and `SupervisesTasks`, which is fairness and so about ENABLED: both are out of the
prover's reach. Every other property of a passing run is a theorem.

## Not modelled, and why

* `auto_offset_reset = "latest"`: the default, "earliest", is modelled.
  `KafkaConsumerService.stop()`: nothing calls it.
* `app/auth.py`: a session is a signed cookie, nothing is kept. Without
  `SESSION_SECRET` each process signs with its own key, so that a session ends with the
  process; whether a request is signed in is decided before the handler and changes
  no state of the models.
* `app/config.py` and `app/logging_config.py`: parsing at start and the format of the log.
  What the settings mean is in the constants; `/metrics` is the counters of `Forwarder`
  and `Pipeline` written out.
* The UI's rendering and the conversion of rule values, but for what its payload holds.
* The reasons `should_forward()` and `validate()` give: wording.
* `scripts/`, Docker and Terraform files; of `service.yaml` the probes are modelled.
* The size of backoffs, timeouts and thresholds: every order of events they could
  produce is a behaviour of the models.

## Plan

Done: all modules of the first plan (Delivery, Forwarder, Consumer, Ingest,
FilterConfig; then TaskLife with Lifecycle, FilterEngine with Pipeline, Editors) and the
theorems above. What would come next:

1. Two instances behind one bucket with pages on both, as a run of its own beside
   `config`; that one edit can then be lost is `config_race` already.
2. `Consumer` and `Pipeline` in one module, with the loop's verdict in place of the kind
   of a record. It would add states, not interleavings: the loop judges a record without
   an await.
