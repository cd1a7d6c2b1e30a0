# A TLA+ project for ProcessGuard AI

ProcessGuard AI turns anomalous sensor readings into incidents, has a chain of
agents diagnose them, assess their risk and recommend actions, asks people to
approve, executes what was approved on a CMMS and learns from what a technician
resolved. This directory models that pipeline in TLA+, checks it with TLC on
small instances and proves its safety properties with TLAPS for every size.

Paths below are relative to the repository; `app/` is `agent-service/app/`.

## 1. Inventory

### The parts and what they keep

| Part | Source | State | Operations |
|---|---|---|---|
| Store | `app/core/db.py`, PostgreSQL | incident rows (status, evidence, diagnosis, level, recommendation), approvals, `IncidentActions`, audit and learned rows | one transaction per write; no UPDATE has a condition on the present status |
| Event bus | `app/eventbus/base.py`, Redis pub/sub | messages not yet taken; handler lists | publish, one listener task, handlers of a message in turn; nothing is redelivered |
| Detection | `app/agents/detection/` | stream cursor, baselines, correlation buffer, in Redis and memory | read, score, correlate, upsert an incident, publish, dead-letter |
| Knowledge | `app/agents/knowledge/` | - | on an anomaly: retrieve, save evidence, nudge |
| Root cause | `app/agents/root_cause/` | ids in progress | on an anomaly or nudge: read, wait, ask the model at most twice, save, announce |
| Orchestrator, risk, recommendation | `app/agents/{orchestrator,risk,recommendation}/` | ids in flight | on a completed stage: assess, recommend, gate |
| Decision endpoints | `app/api/incidents.py`, `app/core/security.py`, `config/rbac-policy.json` | a request's locals | approve, reject, resolve: check, write, publish |
| Action agent | `app/agents/action/`, `app/core/cmms_client.py` | ids in flight, locals | on an approval: guard, execute each operation with retries, record; poll for resolved orders |
| Mock CMMS | `mock-erp-cmms/main.py` | work orders, stock, reorders | create, resolve, reorder, list |
| Simulator, TEP replay | `app/simulator/` | mode, cursor, control key | emit readings, trigger, reset |
| LLM client, retrieval | `app/core/llm_client.py`, `app/rag/` | index, provider choice | generate, chat with tools, search |
| Ask endpoint | `app/api/ask.py` | a request's locals | read the record, ask the model, check what it cites |
| Middleware | `middleware/src/` | - | pass calls on, enforcing role and site once more |
| OIDC provider | `oidc-provider/app/` | signing key, authorization codes, both in memory | authorize, token, refresh |
| Token validation | `app/core/security.py` | signing keys cached by name | validate a bearer token |
| Frontend | `frontend/src/` | per browser: verifier and token in local storage; per tab: session, view state | sign in, call back, poll, forget the session on a 401 |

Agents call each other in two ways: through messages on the bus, and through
the columns of the incident row. The listener is one asyncio task, so handlers
never overlap each other; but Detection, the resolution poll and every HTTP
request are tasks of their own, and each of them interleaves with a handler at
any `await`. The database serialises single transactions and nothing larger.

### What is hard about it

* check and write are separate awaits everywhere (decisions, manual resolve,
  gate, learning loop), and no write is conditional;
* the same work is triggered several times: an anomaly event per reading, a
  nudge, two announcements of the recommendation stage;
* the bus forgets on a restart, and handlers swallow what they raise;
* CMMS calls are retried without an idempotency key;
* what a model is shown is read over several awaits from a row that Detection
  goes on rewriting, and its answer is checked and stored later still;
* tabs of a browser share one verifier and one stored token, and a 401 may
  arrive after either has been replaced;
* correctness of the diagnosis order rests on the order of two subscriptions.

`PROJECT.json` lists every such hazard at its line, with the properties about
it or the reason there is none.

### What makes each part correct

* Store, pipeline: an incident is diagnosed once, with its evidence; what
  people are asked about does not change under them.
* Decisions: whoever decides is entitled, at the level the row has.
* Gate: nothing is executed that was not granted; a withheld diagnosis stays
  with people; a decision stands.
* Action agent: the record covers every external write; no recorded success is
  repeated; an approval is acted on.
* Learning loop: closes once, and does close.
* Agents that use a model: whatever it answers, what is recorded cites what it
  was shown; its tool calls are on record; no model keeps the listener.
* Sign-in: a code yields one token; a sign-in fails only for a cause; a change
  of keys and a stale token are got over.

## 2. Modules

| Module | Models |
|---|---|
| `IncidentStatus` | statuses, transition table, levels, role policy |
| `IncidentStore` | the tables and the transactions of `core/db.py` |
| `EventBus` | the queue and the single listener, as a program counter `at` and the message `cur` |
| `Diagnosis` | Detection's incident writes; Knowledge and Root-Cause handlers |
| `Orchestrator` | risk, recommendation and gate handlers |
| `Decisions` | approve, reject and resolve requests |
| `ActionAgent` | execution handler, CMMS client and CMMS, resolution poll |
| `HumanGate` | the abstract specification: assess, grant with authority, act |
| `ProcessGuard` | the composition, its properties, its fairness |
| `SensorStream` | the Redis stream, its consumer group, the Detection consumer task, the correlation buffer |
| `HitlPolicy` | the HITL table: level for a severity and a confidence |
| `Scoring` | baseline, reading score, both severities, the level of the assessment |
| `SimulatorControl` | the producer loop, the control and state keys, the control endpoints |
| `Citations` | the citation check: answers, points, what a prompt lets them cite |
| `CaseFile` | one incident's row while it is investigated, the listener, Detection's rewriting of the row |
| `RootCause` | Knowledge and Root-Cause handlers await by await: both waits, both attempts, withholding |
| `RecommendationText` | the parser of a planner's text and the mapping to CMMS operations, and a description of the same without a loop |
| `Planner` | the Recommendation handler: tool rounds, forced final answer, tool log |
| `Ask` | an operator's question as a task of its own |
| `Investigation` | the abstract specification: facts, one finding from them, one proposal from it |
| `Reasoning` | the composition of these, its properties, its fairness |
| `SignIn` | tabs of a browser, the identity provider, token validation with its cache of keys |
| `MCProcessGuard`, `MCSensorStream`, `MCScoring`, `MCReasoning` | the constants of the runs |
| `Invariants` | the inductive invariants of `ProcessGuard` |
| `FoldProofs` | lemmas on loops written as folds, for every operation and sequence |
| `PipelineProofs`, `DecisionProofs`, `StreamProofs`, `ScoringProofs`, `SimulatorProofs`, `ReasoningProofs`, `SignInProofs` | the proofs |

There are six specifications. `ProcessGuard` is the pipeline from an incident
to its work orders. Before it comes `SensorStream`, from an emission to a
correlated anomaly: its `persist_incident` is the `upsert_incident` of
`Diagnosis`. `Scoring` is the arithmetic between the two: what makes a reading
anomalous, and which levels an incident can get (`hitl_levels` of
`ProcessGuard` stands for its outcomes). `SimulatorControl` is upstream of all:
who tells the producer what to emit. `Reasoning` opens the three handlers that
call a language model, which `ProcessGuard` sees from outside: its
`DiagnosisStep` and `PlanningStep` are what `Diagnosis` and `Orchestrator` do in
fewer steps, with what was read, shown, answered, cited and logged. `SignIn` is
beside the pipeline: how a person gets the token `Decisions` takes as valid.

The modules of the pipeline's components extend `EventBus` and share the store
and the bus; `ProcessGuard` extends them all. Each action is the code between two awaits
that other tasks can observe: `decision_check` is `_record_decision` up to its
last check, `decision_record` the transaction, `decision_publish` the publish.
The names are the code's. Locals that live over an await are variables
(`routed`, `exec`, `request`, `poll`, `detected`; `found`, `inquiry`, `planning`
in `Reasoning`; `place`, `answer`, `session`, `calls` of a tab in `SignIn`).

Abstractions, all of them deliberate:

* `IncidentStateHistory`, texts, timestamps, severities, consequences and the
  incident's cost are left out; nothing branches on them after they are
  written, except severity and confidence, which choose the level:
  `hitl_levels` gives the levels the shipped table can yield.
* A model's answer is a choice among its outcomes: a cited cause, an admission
  of insufficient evidence, or two failed citation checks. A planner's answer
  is a choice among the operation lists in `Plans`.
* Which readings are anomalous is a choice in `ProcessGuard` (up to
  `MaxReadings`) and in `SensorStream` (at the emission); `Scoring` computes it.
* In `SensorStream` an entry is its position, the correlation buffer the set of
  positions it holds, sorted (stably, by time) where the code sorts; the clock is an integer, the
  approximate `MAXLEN` may keep any number of entries from `MaxLen` upward, and
  a timestamp may be up to `EmitDelay` older than its XADD.
* In `Scoring` values are integers and comparisons exact: division and square
  root are multiplied out. The floor of sigma matters only when all values of a
  window are equal, and then the distance is zero too. A flagged reading may
  leave the incident as it was, since it may be stale or dead-lettered. The Risk
  Agent's read of the row and its write are apart (`risk_read`, `risk_save`),
  and Detection goes on between them; `of` is history, the summary that was read.
* In `SimulatorControl` a command is numbered when it is set, so that an
  overwritten or lost one can be told from an applied one.
* `Reasoning` has one incident. Detection's upsert and publish are one step, the
  Risk Agent is one step, names and texts are atoms: an answer is the place of
  its cause line, its points (a tag and the names found in it) and whether the
  words of insufficiency occur; a planner's text is the kinds of its lines. A
  name counts where it occurs, as the code's substring search has it. Any
  answer in `Answers`, any calls in `Calls` and any text in `Texts` may come,
  any number of times, the scripted client's included. `recorded`, the `shown`
  of a diagnosis, `asked` and `lost` are history, for the properties.
* In `SignIn` a number stands for a sign-in: for its verifier, challenge, code
  and person. A key stands for its key pair and `kid` for the name derived from
  it. The middleware's own check of the token, with a cache of the same kind,
  is left out: a call is answered by the agent service. PyJWT's cache is a set
  of named keys that grows on a miss and is emptied by a restart or when the
  list lapses. Of a code's lifetime only the clean-up is there: the code is
  checked for age nowhere else (`oidc-provider/app/main.py:140`, `:332`).
  `issued`, `disturbed` and `misjudged` are history.
* A refused request changes nothing and is not a step; neither are the 422 for
  a missing justification and the middleware's own check before the call.
* The CMMS numbers the orders of an incident's operation: `orders` counts them,
  and `reference` is the number an answer brought and `IncidentActions` keeps.
  After a lost answer there is an order nobody has recorded; technicians may
  resolve it like any other (`resolve_work_order`), and the poll does not ask
  for it. The poll's list of ids and its read of the record are one step
  (`poll_find`), each query of the CMMS is one of its own and may fail
  (`poll_get`, `poll_get_fails`), then come the re-read of the status, the audit
  count and the transaction.
* A database transaction commits or raises; a commit whose answer is lost is
  not modelled.
* `pgai.action_completed` and `pgai.action_failed` have no subscriber that
  acts.

Faults of `ProcessGuard` are a constant: `"handler"` (any database, model or bus call of a task
raises), `"publish"` (the bus is down for Detection or an endpoint), `"cmms"`
(lost requests, lost answers, rejections) and `"crash"` (the process dies and
restarts: queue, handlers, requests and polls are gone). `SensorStream` has
`"read"` (the answer of XREADGROUP is lost), `"process"` (scoring raises),
`"ack"` (XACK is lost), `"crash"` and `"shutdown"` (the task is cancelled, but
its `finally` still acknowledges); `SimulatorControl` has `"crash"` and
`"state"` (writing the state key fails). In `Reasoning` any call may raise
(`Raises`). In `SignIn` the provider and the agent service restart, the token
request or its answer is lost, an API call fails without a 401 (`drop_call`),
the key list is out of reach, codes and tokens expire.

## 3. Runs

| Run | Instance | Shows |
|---|---|---|
| `decisions` | 4 people (engineer, manager, operator, a manager of another site), 1 incident, no faults | decisions are authorised, evidence precedes diagnosis, diagnosed once, withheld diagnoses stay with people, decided plans are frozen, decisions stand once the gate is drained |
| `faults` | 1 engineer, 1 reading, plans of 0, 1, 2 operations, 2 tries, every fault | types, truthful record, loop closes once, no repeated success, refinement of `HumanGate` |
| `liveness` | fair tasks, unreliable CMMS, no operation or a reorder and a work order | approvals are acted on, anomalies diagnosed, a recorded order that is resolved closes its incident unless every query of it fails |
| `stream` | 1 sensor, 3 emissions, reads of 2, every fault | scored once and in order, nothing acknowledged unhandled, what is persisted is the live chain of anomalies, every reading is taken |
| `simulator_control` | both sources, 4 commands, 3 faults | commands apply once and in order and are consumed, readings follow the mode, the status catches up |
| `scoring` | 2 sensors, windows of 3, 4 readings, values below, in and above the band | drift is bounded by the window, doubt never lowers a level, what Detection calls high is not level 1 unless Detection rewrote the row since it was read |
| `reasoning` | 2 sensors, an SOP, a case history and an invented name, 2 readings, 1 question, every call may raise | what is recorded or answered cites what was shown, the tool log is complete, the text's parse is what it says, handlers end, a diagnosis leads to a plan or to an error in the log, refinement of `Investigation` |
| `sign_in` | 2 tabs, 2 sign-ins, 1 restart of the provider, 1 reload | a code yields one token, a sign-in fails only when something came between, key rotation is picked up, stale sessions end unless every call fails |
| `open_incidents`, `stuck_approval`, `stream_redelivery`, `uncited_claim` | the smallest instance of each | a statement of a document or comment that the code does not keep |

Bounds: `MaxEpisodes` rows per equipment, `MaxReadings` anomalous readings,
`MaxOps` operations of a plan, `Attempts` tries of a CMMS request (4 in the
shipped configuration, 2 here: a first and a last). Two readings are enough
for every duplicate trigger, since an anomaly brings a second message (the
nudge) anyway, for which reason `faults` makes do with one; two operations are a first and a last of the loop. Four people
cover each role and both sites. Only `open_incidents` needs a second row of an
equipment, a revived and a new incident; for the other properties the proofs
cover any number.

Incidents do not interact except through the listener's order and the upsert,
so one equipment suffices.

`SensorStream`: `MaxEmissions` 3 with `ReadCount` and `MaxLen` 2 gives a full
read, a partial one, and trimming below the cursor and above it. `Window` and
`MaxGap` are 1 and `MaxTime` 3, the time after which the buffer is pruned;
`EmitDelay` 1 lets timestamps arrive out of order. Equipments have buffers of
their own in effect, so one sensor shows them. `SimulatorControl`:
`MaxCommands` 4 and `MaxFaults` 3 are enough for an overwritten command, one
set during the GET and DELETE of another, and a crash in each of these places.
`Scoring`: `WindowSize` 3 and `MaxReadings` 4 fill a window and push a value
out; `Value` has one value below, in and above the band, the last by more than
half of it; `Confidences` has one confidence that needs a human and one that does
not, beside a missing one; both sides of every threshold of the table are in
`UncertaintyOnlyRaises`, which asks for all confidences.

`Reasoning`: `FullSignature` 2 of two sensors makes a summary partial or full;
`MaxReadings` 2 lets the summary change after the first read; a wait of
`MaxSignatureWaits` 2 has a first and a last turn, `MaxEvidenceWaits` is 1 and
`MaxToolRounds` 2 (8, 5 and 4 as shipped). `Answers` has one answer per way
through the check: accepted, insufficient, malformed, with an invented name,
without a tag. `MaxLines` 4 is a rationale, its end, and something after it,
with two reorder lines. `SignIn`: `MaxSignIns` 2 in two tabs is one sign-in
taking the verifier of another, or one after a stale session; `MaxRestarts` 1
makes two keys; `MaxReloads` 1 is enough to send a code twice.

The proofs have none of these bounds. Deadlock is not checked except in
`SimulatorControl`, whose producer always runs: elsewhere the system rests
when all readings or sign-ins are spent.

Fairness (`Fairness` in `ProcessGuard`): weak fairness of the listener task,
of Detection after its commit, of each request in progress, of the poll. These
are asyncio tasks whose every await has a timeout, and the poll wakes up every
`RESOLVE_POLL_SECONDS`. Nothing is assumed of readings, people, technicians or
of faults stopping. One property has an assumption of its own:
`ResolvedOrderClosesIncident` is about behaviours in which the poll's queries
stop failing, since one that fails is skipped until the next round; without it
TLC finds the poll that fails for ever. `SensorStream` has weak fairness of the consumer task, whose
loop catches everything its calls raise; nothing is assumed of the producer or
the clock. `SimulatorControl` has weak fairness of the producer loop, which the
deployment restarts whenever it dies (`docker-compose.yml:216`). `Reasoning`
has weak fairness of the listener's ordinary steps: sleeps are finite, and
model, database and bus calls have timeouts. It is not assumed that anything
raises, or ever stops raising. `SignIn` has weak fairness of the exchange (one
request), of polling (an interval of seconds in a visible tab) and of the end of
each tab's calls, with an answer or without; nothing is assumed of people except
that they do not reload for ever, which would drop every call before its answer.
`StaleSessionEnds` assumes besides, as strong fairness of `answer_call`, that of
calls made again and again not every one fails: a call that fails leaves session
and token alone, and without the assumption TLC finds the tab whose polls all
fail.

### What the documents say and the code does not do

| Property | Said at | What happens |
|---|---|---|
| `OneOpenIncidentPerEquipment` | `docs/failure-modes.md:51` | an unconditional write revives a resolved incident beside a new one |
| `NeverSilentlyStuck` | `app/agents/action/agent.py:21`, `:184`, `docs/erp-integration.md:74` | a database error in the handler is logged and swallowed (`:177`): the incident stays `approved` for good |
| `PendingIsRedelivered` | `docs/failure-modes.md:74` | the consumer only asks for `>`, also after a restart: what was pending stays so |
| `UncitedClaimNeverRecorded` | `app/agents/root_cause/agent.py:18` | an answer with the words "insufficient evidence" anywhere skips the citation check, and its first line is recorded, claim and all |

Each of these is a run that ends in a counterexample. More disagreements were
met while modelling; the models have the behaviour, but no run is about it:

* The recommendation stage is announced twice, and the second gate message puts
  an incident that was approved meanwhile back to `awaiting_approval`
  (`app/agents/orchestrator/agent.py:152`; `docs/state-machine.md:52` lets
  `approved` go to `action_taken` or `action_failed`). It is the unconditional
  UPDATE of `open_incidents` again; that nothing takes a decision back once the
  gate is drained is a property of `decisions`.
* A CMMS request whose answer is lost is sent again, and without an idempotency
  key that makes two work orders of one approval (`app/core/cmms_client.py:182`).
  `app/agents/action/agent.py:24` excludes that only for restarts and repeated
  events. One order is recorded and polled; whoever resolves the other closes
  nothing. `TruthfulExecutionRecord` bounds how many orders a row may stand for.
* Detection may raise the severity between the Risk Agent's read and its write
  (`app/agents/risk/agent.py:129`, `:143`; `app/agents/detection/agent.py:292`)
  or after it. The level stays that of the summary that was read, and nobody
  assesses again: a row Detection calls high can have level 1.
* An answer that admits insufficient evidence is stored as `investigating` and
  goes on to risk and recommendation; the docstring sends it to people
  (`app/agents/root_cause/agent.py:20` against `:210`).
* A manual resolve between the poll and the transaction that closes the loop
  is followed by a second resolution (`app/core/db.py:1138`, `:1158`).
* A reset that arrives between the GET and the DELETE of the control key is
  deleted unseen (`app/simulator/service.py:107`-`115`,
  `docs/failure-modes.md:86`).
* The TEP replay awaits the plain method `_advance` (`app/simulator/tep_replay.py:188`),
  which raises a `TypeError` in the first tick of every start: the action
  `advance_raises`.
* The confidence rules of the HITL table are combined by maximum
  (`app/agents/risk/agent.py:91`); `docs/hitl-thresholds.md:33` says the first
  match wins.
* A reading is pushed into its own baseline before it is scored against it
  (`app/agents/detection/agent.py:209`), so that no drift exceeds the square
  root of the window's length less one and the ten sigmas of `scoring.py:203`
  are out of reach of the default window of 40: `DriftIsBounded` states it.
* A point is accepted when it names something real, whatever it names besides:
  names are searched as substrings (`app/agents/root_cause/agent.py:353`
  onward; `docs/diagnosis-provenance.md:28` says nothing fabricated can pass).
  In answers to an operator only bullets
  are checked, not prose (`app/api/ask.py:158` onward).
* A diagnosis stays as it is when Detection or Knowledge replace the summary or
  the evidence it cites. `recorded` remembers them; the row does not.
* The Root-Cause Agent's wait for evidence holds the only listener, so no
  Knowledge handler can save any meanwhile: unless another process does, each of
  its reads finds what the first found.
* In a planner's text a bold heading counts as an action, an item numbered 10 or
  more does not, an unreadable reorder line cancels an earlier readable one, and
  a malformed quantity raises and loses the recommendation
  (`app/agents/recommendation/agent.py:290` onward).
* `docs/frontend-architecture.md:40` says every fetch takes the token from
  AuthContext. `frontend/src/lib/api.js:52` reads local storage: of two tabs, the
  one that signed in first shows one person and acts as the other.
* A 401 that arrives late forgets a newer token that another tab has stored
  (`frontend/src/context/AuthContext.jsx:28`); an unreachable key list is
  answered 401 too (`app/core/security.py:160`) and signs the person out.
* Refresh tokens are issued and never stored or used by the frontend.

## 4. Proofs

Every safety property of every passing run is proved for all values of the
constants, from the named assumptions on them, which the code's configuration
satisfies and TLC evaluates: any number of incidents, people, readings, tabs and
lines, any plans, answers and tables, and every fault, unless a theorem says
otherwise. Two do. `EvidenceFirst` assumes that no handler raises.
`FreshIsPersisted` assumes that a stamp is no older than the correlation window
when its entry is added, and that gaps are not zero: the producer stamps a
reading right before its XADD (`app/simulator/service.py`), and the window is
30 s and the gap 90 s as shipped. It is needed: with `EmitDelay` 2 and `Window` 1
TLC finds an anomaly that newer ones have overtaken by more than the window and
whose run is discarded.

* `FoldProofs`: a fold of the community modules is the last value of the code's
  loop (`FoldIsALoop`), for every body and every sequence; the other modules
  instantiate it with a body of theirs. Induction is used in one form, that a set
  of numbers has a least one (`LeastNumber`, from the well-foundedness of `<`),
  because the induction theorems of the library take an operator as parameter.
* `PipelineProofs`: `TypeOK` is inductive, because it ties the handler's locals
  to the place the listener is at. The other properties are not: that a second
  trigger cannot write a diagnosis again depends on where the incident's messages
  are. `PipelineInv` says that an incident has one token, a stage message in the
  queue or a handler working towards the next, and what each place of the
  token implies for the row. `DiagnosedOnce` and `EvidenceBeforeDiagnosis`
  follow.
* `DecisionProofs`: from `PipelineInv`, what is recommended is final
  (`RecommendedIsFinal`), so what a request checked still holds when it writes
  (`DecisionInv`). `ApprovalFirst` says that everything that leads to an
  external write comes after an approval, `Withheld` that withheld incidents
  have no token. The theorems on decisions and the refinement of `HumanGate`
  follow: three actions write what the gate speaks of, never two at once.
  `ExecutionInv` keeps an account per operation, including what the call in
  progress may still add; it does not need the pipeline. `PollInv` carries what
  the poll found to the moment it closes: what succeeded and what is resolved
  stays so, and so does the reference of an operation that is not sent again.
* `StreamProofs`, delivery: that readings are scored in order is not inductive,
  since it depends on what the task holds. `StreamInv` adds that the batch is in
  stream order, that everything scored comes before what is left of it, and that
  the entry about to be acknowledged was scored or given up.
* `StreamProofs`, correlation: `WorkInv` says what the task holds while it works:
  what is pending, given up or in hand was delivered, entries come in whole rounds,
  none before an entry is younger than it by more than `EmitDelay`, and the buffer
  has everything seen within three gaps. `CorrelatedIsTheChain` shows, for every order of the
  timestamps, that sorting the buffer and linking readings one by one yields
  exactly the readings that no gap of more than the window separates from the
  latest. Pruning drops nothing of that. So `PersistsTheLiveChain` holds without
  hypotheses.
* `ScoringProofs`: `AssessmentInv` ties level and severity, stored or still on
  their way, to the summary they were made from and to the confidence. From it and `DemandsGrow` (what a table asks for at some
  confidence it asks for at every lower one) `DoubtNeverLowers` shows
  `UncertaintyOnlyRaises` for every table in which a missing confidence counts
  as zero. `HighNeedsAHuman` shows, from `ScalesAgree` (the risk table calls
  nothing low that Detection calls high) and `CautionAssumption` (only low
  severity may do without a human), that what Detection calls high is gated;
  `HighIsSeenByAHuman` carries it to every state in which the row still has the
  summary that was assessed. `DriftStaysBounded` is an
  inequality on sums, since a reading is in its own window: Cauchy and
  Schwarz, one value at a time along the partial sums.
* `SimulatorProofs`: `ControlInv` says that the command in the key and the one
  in the producer's hands are later than all that was acted on, and how the two
  compare between GET, DELETE and the change of mode; `SimulatorTypeOK` rests on it.
* `ReasoningProofs`: `ReasoningInv` for any sensors, documents, answers, texts and
  numbers of waits, rounds and readings. `CitationInv` follows what was read from
  the row to the draft and to the diagnosis: it is needed because the draft is
  checked against a copy, and `recorded` only grows while row and copy part.
  `AskInv` is the same for a question. `StageInv` says that there is one token
  from diagnosis to plan, so that a proposal is made once and from the diagnosis
  on record. `LogInv` says that the calls asked for are those logged followed by
  those pending, which is what makes the stored log complete when the text
  comes. Citation, planning and the refinement of `Investigation` follow.
  `TextIsReadAsWritten` compares parser and description line by line
  (`ReadUpTo`: what the parser knows after k lines is what the description says
  of these k), for texts of any length; `RecommendedIsWhatWasWritten` follows.
* `SignInProofs`: in `SignInInv`, `CodesAreUnspent` says that a code the provider
  still has never yielded a token, which is what a reload of the callback must
  not break; `SignInsAreApart`, that no two tabs are in the same sign-in;
  `UndisturbedSucceeds`, that a sign-in nothing came between has its verifier in
  local storage and its code at the provider until the exchange;
  `NamesMatchKeys`, that a cached entry holds the key its name stands for,
  whether or not the call that had it fetched was ever answered.

Only model-checked are the ten liveness properties and, with them, the fairness
they need: `ENABLED` and arguments from fairness are out of TLAPS's reach. The
runs that end in a violation have nothing to prove.

## 5. Not modelled, and the plan

Done: the pipeline with decisions and execution (`ProcessGuard`), the ingestion
stage (`SensorStream`), the risk policy and the scores (`HitlPolicy`,
`Scoring`), the simulator's control (`SimulatorControl`), the agents that use a
model and the text they are steered by (`Reasoning`, `RecommendationText`),
signing in (`SignIn`). What could follow:

1. The middleware as a second layer over `Decisions`: its 30 s client timeout
   lets a person see a failure of a decision that was recorded; and as a second
   verifier with a key cache of its own in `SignIn`.
2. The refresh grant of the OIDC provider, once something uses it.
3. Several incidents in `Reasoning`: the listener serves them in turn, so that
   one's waits delay another's diagnosis.

Not planned: TF-IDF ranking (floating point, no state; `Retrieve` stands for
it), the read-only endpoints (telemetry, metrics, health), logging and token
accounting, the frontend's views and the deployment descriptions. They change no
state the pipeline depends on.
