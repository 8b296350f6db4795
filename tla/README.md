# Formal models of the data bridge

TLA+ models of the program in this repository, checked with TLC on small instances and,
where it matters most, proved with TLAPS for instances of every size. Paths below are
relative to `src/`.

## 1. The system

A consultant uploads files, agrees on a target schema, answers the questions the program
cannot settle by itself and pushes the resulting records to a destination service. Two
processes with a database each do this:

* the **API** (`services/api`): handlers that are plain functions run in a thread pool, one
  background thread per run that replays the pipeline, and a SQLite database in autocommit
  mode, one connection per call. Nothing spans two statements: no transaction, no lock.
* the **destination** (`services/mock-target`): a service with a database of its own,
  reached over HTTP, that can be told to fail on purpose.

| component | state | operations | talks to |
|---|---|---|---|
| delivery: `main.py` deliver, deliver_ready, _push, rollback; `delivery.py` | table `deliveries` (append only), `runs.delivery_paused`, `runs.auto_send` | push by hand, push by the job, retries, reconciliation, rollback | destination (HTTP), jobs, store |
| destination: `mock_target/main.py` | `target_records`, `run_schemas`, `_failures` | create, list, roll back, register a schema, arm a failure | called by delivery |
| jobs: `jobs.py` | per run a thread, its progress, the last result | start, wait, result, invalidate | runs replay, then delivery |
| run view: `main.py` get_run, _fingerprint, _ensure_processing | table `snapshots` | poll, serve or recompute, save | jobs, store |
| decisions: `main.py` decide, `runtime.py` replay | table `decisions` (append only) | decide, replay to a fixpoint | jobs, pipeline |
| schema versions: `store.py`, `main.py` approve_schema, put_schema, recommend | table `schema_versions`, `runs.schema_json` | draft, approve, register | destination, jobs |
| replay: `runtime.py` | none of its own: the run is worked out again from its files and the table `decisions` | run the pipeline, match decisions to questions, run again, look into what is open | pipeline, agent |
| pipeline: `packages/migration-core` | none between calls | map columns, clean, reconcile rows, validate, hold dependents | called by replay |
| agent: `packages/agent`, `investigate.py` | a directory of recorded answers | vote on columns, look into a question | a language model |
| contracts, extraction, console | data types, parsing, a view | | |

What is hard about it:

* **Interleaving.** Two pushes, a push and the background job, two rollbacks, a poll and a
  decision: each is a handful of autocommitted statements and requests, in any order.
* **Lost answers.** A request may be handled and its answer lost, or be handled long after
  the client's timeout, when a later attempt has been answered.
* **Values read early and used late.** Generations and acceptances are read once per push,
  the pause once per background push, a fingerprint before the result it is stored with.
* **Crashes.** The API loses its threads between any two statements, the destination its
  armed failures and the requests it was handling.
* **Answers to questions that come and go.** A decision is kept under a key made of what its
  question was about. Every replay asks all questions anew; one question may come up only
  when another is answered, and a call to the model may fail in one replay and not in the
  next.

What makes each component correct:

* delivery: of every record the destination holds at most one copy; what the log calls
  delivered is there; what was undone stays undone until somebody pushes again; nothing is
  lost; attempts are bounded; every push and rollback ends.
* run view: what is shown is what the decisions and the approved schema give; the view
  never outlives what it was computed from; every decision shows in the end.
* schema versions: only what somebody approved governs; a version is never edited; an
  approval that runs alone is in force everywhere when it has returned.
* replay and pipeline: a ready record can be sent (nothing is open against it or anybody it
  refers to); whatever is held has a question that counts it; an answer settles its
  question for good and none is passed over; rows that disagree are not merged in silence; a
  vote never places a column by itself; the same decisions give the same result.

`PROJECT.json` lists the components and the hazards line by line.

## 2. Modules

```
DeliveryLog ── Destination ── Delivery ── DeliveryProperties ──┬── MCDelivery (TLC)
                                               │               └── DeliveryProofs ── DeliverySafety ── DeliveryLedger
                                          ExactlyOnce                                           (TLAPS)

RunCache ── RunCacheProperties ──┬── MCRunCache (TLC)
                                 └── RunCacheProofs (TLAPS)

SchemaVersions ── SchemaVersionsProperties ── MCSchemaVersions (TLC) ── SchemaVersionsProofs (TLAPS)

               ┌── Cleaning ── Scoring ──┐
TargetSchema ──┼── Matching ─────────────┼── Pipeline ──┬── Replay ── ReplayProperties ──┬── MCReplay (TLC)
               ├── Validation ───────────┤              │                                └── ReplayProofs (TLAPS)
               └── Review ───────────────┘              │                                      │
                                                        └──── PipelineProofs (TLAPS) ──────────┘
                                                                    │ an INSTANCE for each loop
                                                              FoldInduction (TLAPS)
```

* **`DeliveryLog`** - the table `deliveries` as the sequence of one record's rows, and the
  questions the code asks of it: the current generation (`Generation`), whether the record
  counts as accepted (`Accepted`), which row a rollback undoes (`IsUndoTarget`). They are
  pure operators; every handler that reads the table uses them.
* **`Destination`** - the destination's records and armed failure, and its handlers as
  relations between the state, the next state and the answer. `POST /records` is two steps
  (the lookup of the idempotency key; then failure, validation and insert) because they are
  two statements with other requests between them.
* **`Delivery`** - the API's threads. A push thread walks through `pc`: `arm`, `load`,
  `already`, `generations`, then per record `send`, `await`, `reconcile`, `record`; a
  background push enters through `gate`. A rollback thread walks through `upc`. Each
  step is one statement or one request of the code. Requests in flight are the sets
  `creates` and `undos`. A request whose caller gave up is kept with `by = Nobody`: the
  destination may handle it at any later time, and nobody hears the answer.
* **`DeliveryProperties`** - what the runs check and the theorems state.
* **`ExactlyOnce`** - the abstract promise: copies of a record are held one at a time,
  numbered without gaps, an undone copy never comes back. `Promise` in
  `DeliveryProperties` is the refinement mapping from the destination's table.
* **`MCDelivery`** - the instance for TLC: how often people ask and how often something
  fails is bounded by the counters in `used`; `FairMCSpec` adds fairness.
* **`RunCache`** - what a person is shown of one run: the job and its result in memory
  (`jobs.py`), the stored snapshot with its fingerprint, and the handlers that poll, decide,
  approve, push and roll back, seen from the cache. A handler is a record `call[c]` with its
  place and its locals; a job's thread is `job[w]`. `start` is three steps (look for a
  running thread, register a new one, start it) and `wait` two (find the thread, join it),
  because the lock of `Jobs` is held for none of them as a whole.
* **`RunCacheProperties`**, **`MCRunCache`** - what is asked of it, and the instance for TLC.
* **`SchemaVersions`** - which schema is in force where: the table `schema_versions`, the
  run's `schema_json`, what the destination has registered, the schema a push or the job
  shapes records by, and that of the view people are shown. An approval is seven steps
  (supersede, approve, give the run its schema, register, invalidate the result, clear the
  stored view, start the job), a draft two (read the greatest version, insert), a push and
  the job read the version, the result and the registered schema at different times. A poll
  is served the stored view when nothing has changed since (`IsStored`), and starts no job
  then; otherwise it takes the result or starts the job (`PollStarts`), and stores the view
  it made under the fingerprint it began with (`PollSaves`). The API may restart between any
  two of these; the stored view stays. It takes apart what `RunCache` does in one step.
* **`TargetSchema`** - a schema and the keys the code derives from it. What the standard
  library makes of a text (trimming, folding, parsing dates, matching a pattern) and how
  alike a header and a field are called are constant operators: texts are opaque.
* **`Cleaning`**, **`Scoring`**, **`Matching`**, **`Validation`** - `cleanup.py`,
  `scoring.py` with `contracts/mapping.py` and `profiling.py`, `matching.py` and
  `validation.py` as operators: what may be done to a value without asking, where a column
  belongs, which rows are one record, and what a record breaks.
* **`Review`** - a question, its key (`case_key`), and what an answer makes of the overrides
  (`apply_decision`, `Overrides`).
* **`Pipeline`** - the stages of `pipeline.py`, each an operator from the state before to
  the state after: `MapFile` and `UnmappedRequired`, `Build`, `Reconcile`,
  `CrossCheckFormats`, `Validate`, `Finalise`. The state is a record with the attributes of
  class `Pipeline` and its result; a Python loop is a fold.
* **`Replay`** - `replay` as a state machine over those operators: one step for each file
  mapped, each stage, each match of decisions, each turn of an investigation. The model's
  answers, its failures, what a person answers and when a replay is asked for are what
  varies. `decide` records an answer and replays.
* **`FoldInduction`** - what a loop over a sequence makes and keeps, with its step and its
  invariant as parameters: an instance of it stands for one loop of `pipeline.py`.
* **`ReplayProperties`**, **`MCReplay`** - what must hold whenever a replay is over, and ten
  scenes (a few rows in one to three files) that raise every kind of question.

### How state and code correspond

| TLA+ | code |
|---|---|
| `log[k]` | rows of `deliveries` with natural key k, in the order of insertion |
| `paused`, `autoSend` | `runs.delivery_paused`, `runs.auto_send` |
| `result` | what `replay` would return now: the payload of each ready record |
| `ready`, `todo`, `gens`, `current`, `tried` | locals of `_push` and `DestinationClient.deliver` |
| `seen`, `targets`, `target` | locals of `rollback` |
| `records`, `failure` | `target_records`, `_failures[run_id]` |
| `approved`, `schema` | the version in state approved; the version whose body is `runs.schema_json` |
| `decisions`, `rows` | the cases with a row in `decisions`; the number of rows of `deliveries` |
| `snapshot` | the run's row of `snapshots` |
| `cached`, `current`, `failed` | `_results`, `_threads`, `_progress.failed` of `jobs` |
| `job[w].basis` | what the job's `replay` has read; the result is a function of it |
| `call[c].fingerprint`, `.have`, `.view` | locals `fingerprint`, `result`, `payload` of `get_run` |
| `versions`, `runSchema`, `registered` | rows of `schema_versions`, `runs.schema_json`, the destination's `run_schemas` |
| `snapshot`, `poll` of `SchemaVersions` | the run's row of `snapshots`: the version in its fingerprint, or 0 once rows of `deliveries` were written since, and the schema it was made with; the place and locals of one `get_run` |
| `run.mappings`, `.applied`, `.plans` | `result.mappings`, `applied` of `_map`, `self.plans` |
| `run.cases`, `.fieldCase`, `.valueCase` | `result.cases`, `self.field_case`, `self.value_case` |
| `run.sharedCase`, `.formatRows` | `self.format_case` with `self.value_group`, `self.format_rows` |
| `run.records`, `.built`, `.mergedInto` | the records of a stage, those of `_build`, `self.merged_into` |
| `record.values`, `.origin`, `.files`, `.open` | `values`, `provenance`, `contributing`, `open_cases` |
| `overrides`, `decisions`, `applied`, `pass` | `Overrides`, the table `decisions`, `applied` and the turn of the loop of `replay` (0 after it) |
| `proposed`, `found` | the files of `CachingProvider` for `propose` and `investigate` |
| `look`, `next` | the step of `BedrockProvider.investigate`, the place in `worth` of `enrich` |

### Abstractions

* One run: deliveries, records and armed failures of different runs do not meet. (A failure
  armed without a run applies to all of them; the API never arms one.)
* A record's id is the generation it is stored under: idempotency keys are unique, so this
  names the same rows. `Phantom` is an id that was answered and not stored.
* The pipeline is the variable `result`, which may change at any time; a push may send any
  result it read earlier. The destination's schema is the constant `Invalid`.
* `accepted_keys` reads the table twice, `deliver` writes `delivery_paused` and `auto_send`
  in two statements; each pair is one step. So is a background push's reading of its
  result and of `auto_send`.
* `deliver` waits for the job, but only for 180 seconds, so waiting is no guard.
* There may be more than one background job: `Jobs` is a set.
* In `RunCache` a result is its basis, the schema and the decisions that replay read; what
  the pipeline makes of them is abstracted. Rows of `deliveries` are counted: the table only
  grows. A question is answered once. The handler's own `replay` when there is no result
  changes nothing and is no step. `_fingerprint`, the reading of the tables for the payload,
  and `running` with the lookup of the snapshot are one step each. `approve_schema` of the
  store (two UPDATEs) is one step; `SchemaVersions` takes it apart. Threads are
  used again when they have ended and nobody waits for them.
* In `SchemaVersions` a schema is a name; how one is proposed, imported or edited is the
  choice of the next draft. A result, and a view, is the schema it was made with. Of the
  fingerprint there is the version, and whether rows of `deliveries` have been written since
  (then no later fingerprint is the same); decisions and the pause are those of `RunCache`.
  There the fingerprint, the lookup and the start of the job are steps of their own; here the
  first two are one step, the start is another, and there is one poll at a time.
* A replay runs alone: it reads its tables at its beginning, and `RunCache` has the threads.
  Between two of its steps only what the model says varies.
* Profiles take every value of a column; the code takes the ten most frequent and a sample
  of fifteen, which is the same for the columns of the scenes. Fits and scores are per
  10,000 and rounded down where the code has floating point.
* An option, and an answer, is a pair of its kind and value; the code tells the kind by a
  prefix of the text or by the class of the case. The first source reference of a case is
  the only one that is read again, so it is the only one kept.
* What an investigation looks up is not modelled, only that it takes turns and what it may
  conclude (`scene.findings`). A recorded finding is keyed by the question and its options,
  as the text of the question is.
* The states a record has before `_finalise` are left out (nothing looks at them), and so
  are the audit log, lineage and the wording of questions.
* Left out of `RunCache`: `runs.status` (it labels the list of runs), the audit log, a run
  without a schema's early returns (they change nothing), and the progress's wording.
* Rows are ordered by insertion; the code orders them by a timestamp taken just before.

## 3. Runs

Deadlock is checked in `replay` only: elsewhere the system rightly stops when the bounds on
what people ask for are used up. That threads do not block each other is what `ends` shows.

| run | what it asks | bounds |
|---|---|---|
| `races` | two held copies, unbacked successes, lost history | 1 record, 2 payloads, 1 deliverer, 1 job, 2 rollback threads, 2 pushes, 2 rollbacks, 1 fault |
| `ledger` | does the log agree with the destination, one rollback at a time; refinement of `ExactlyOnce` | 1 record, 2 payloads, 2 pushes, 2 rollbacks, 1 change of the result, 1 fault |
| `ends` | do pushes and rollbacks end; are attempts bounded and refusals final | 2 records, 2 payloads of which 1 is refused, every rehearsed failure, 3 attempts, 1 push, 1 rollback, 1 fault besides the rehearsed ones, both services restart |
| `undo_resent`, `undo_lost` | one claim of a comment or doc each, refuted | as small as the counterexample |
| `single` | is what one person sees current | 1 client, 1 job, 2 questions, 2 versions, 2 decisions, 2 approvals (while no job runs), 1 push, 1 rollback, 1 failed job |
| `crowd` | does a served view know the tables | 2 clients, 2 jobs, 1 question, 1 decision, 1 push, 1 timeout, 1 outage, 1 row |
| `shows` | does a decision show in the end; do handlers return | 1 client, 2 questions, 1 push, 1 failed job, 1 restart |
| `race` | one claim about the cache, refuted | as small as the counterexample |
| `versions` | does only what was approved govern; is an approval in force everywhere in the end, whatever was cut short before it; are people shown its records; are versions kept | 2 clients, 2 schemas, 2 drafts, 2 approvals (one at a time), 1 push, the job, any number of polls (one at a time, and 2 requests with it), 1 failed registration or restart |
| `mixed` | one claim of the store about what was sent, refuted | as small as the counterexample |
| `replay` | everything listed above for replay and pipeline | 10 scenes of 1 to 3 files and up to 4 rows, a schema of 6 fields, up to 3 decisions, up to 2 failed calls, 2 questions looked into with 1 look each |

`single` is deliberately narrow: the findings below are what happens when any of its
restrictions is lifted. `crowd` and the theorem have none of them. Polls are never counted
(they add nothing to the state); what is counted is what people change and what fails.
`crowd` follows behaviours up to one row, which tells a view of before a delivery from one
of after it.

Records do not interact except through the order a push takes them in, so one record is
enough for the races, the ledger and the refinement, which are stated record by record, and
`ends` has two. Two pushes and two rollbacks are what a late row, a late request and a
second generation take. `MAX_ATTEMPTS` is 3 in the code and 2 where the third attempt
repeats the second.

`replay` is a run over many small worlds rather than one large one: each scene of `MCReplay`
is built so that one kind of question comes up (rows that disagree, a column that may be
two fields, two columns for one field, a chain of managers, dates that read two ways, a
missing column and a foreign file, two and three rows with one address, a cell that was hard
to read), and any question may be answered with any of its options, a value typed in, an
approval where one is offered, or a rejection. Three decisions are what it takes for a
question to come up because of the answer to another that did so too; one look and two
questions are what distinguishes an investigation that is cut short from one that is not.
`MaxShown` is the code's three; the code looks into 10 questions (`MAX_CASES`) with 3 looks
(`max_steps`).

`versions` has one approval at a time because nothing in the code orders two (see below);
`OnlyApprovedGoverns` is proved without that restriction. Approvals are called settled when
nothing overlapped them: no push, job or other approval, and no poll either, since one that
began before may store the old view after it was cleared (the race of the run `race`). A
poll takes a thread of the pool, as any other request does (`ThreadFree`).

`SettledApprovalShows` says what a restart may not undo. The result is in memory only and the
stored view is not, so a run whose view was stored is served from the database after a
restart and never processed again (`test_migration_flow.py:263` asks for that): what is
promised is that one of the two has the approved schema's records in the end (`Shown`).

Fairness (`ends`, `shows` and `versions`; `replay` checks safety only: a replay is a
sequential loop whose end is the number of its passes). In `ends` a thread that can step
steps (the pool and the job are preemptive threads), the destination works through its
requests, and a client whose request is gone gets a closed connection or runs into its 5
second timeout. Nothing is assumed of people or of faults. In `shows` and `versions` the
same: handlers, polls and jobs that can step step, and waits are not even assumed to time
out.
There clients also go on polling, as the console does every 1.5 seconds while a run is
processing (`App.tsx`).

### What the code does otherwise than it says

Each is a run with `expect: violation`; `PROJECT.json` quotes the line.

1. `undo_resent` - a rollback does not stop a background push under way, which sends the
   undone record again while sending is paused.
2. `undo_lost` - a rollback whose answer is lost is recorded as failed, "the destination
   still holds it", and it does not. The acceptance still counts, so a later push skips the
   record (`accepted_keys`, `_push`): it is shown as delivered and not sent again.
3. `race` - a poll that overlaps a decision stores the old answer under the new fingerprint.
4. `mixed` - a schema approved while the job or a push is under way: records shaped by one
   version are sent and recorded under another.

None of the first two makes a second copy: that is what is proved. The last two are why
`single` has one client and approves only while no job runs. Its other restrictions stand
for behaviour of the same kind that the models show when a bound is raised, and which is
kept as hazards rather than as runs:

* `ledger` has one rollback at a time: the late row of one rollback hides an acceptance made
  after another (`HeldIsAccountedFor` fails with two `Undoers`).
* `single` has no outage: an approval that fails at the destination raises before it
  invalidates, and the old answer is served under the new version (`ViewIsCurrent` fails
  with `MaxOutages = 1`).
* Reconciliation that fails counts as "absent", and of two concurrent sends the second is
  answered with an id that was never stored (`Phantom` in `Destination`); the proofs cover
  both.
* Two polls start two jobs; a wait can meet a thread that is registered and not started
  (`JoinRaises`); a failed job is started again by the poll that would have told of it.
* Two approvals that overlap may leave two versions approved (`OneApproved` is checked with
  one at a time).

What the properties of `replay` leave room for, since the code does it:

* Two questions may have one key: two identity questions about the same record, two values
  of one record's column. One answer goes to the last, both are marked resolved, and the
  first can never be answered. `AnsweredIsGone` names these (`StillUnsaid`).
* A correction of a field is kept under the record's key, so one of the key itself, or of a
  record without a key, is recorded and never applies; a corrected number stays a text.
  `AnsweredIsGone` speaks of fields, readings, values and identities only; in the scene
  `Calendar` the record a question about dates is named after has no key, and a date typed in
  for it leaves the question as it was.
* A disagreement is settled by the first file of each record, whatever file the value came
  from, and the origin of the value is not updated. `NoSilentDisagreement` speaks of runs in
  which nobody named a file, and of the rows merged directly.
* A record that names a manager who was left out stays ready (a test asks for it), so
  `ReadyCanBeSent` lets it.
* With two fields that refer to records of the same kind, the loop over them ends at the
  first that names a record which is not ready (`break`, `pipeline.py:1130`). If that one was
  left out it holds nobody, and a second one that waits is never looked at: the record is
  ready before the one it refers to. The schema of the scenes has one such field, and the
  theorem says so.
* A record kept in a merge does not inherit the questions about the other row, nor those about
  the rows merged into that one before.
* A column that loses its field may be placed in its next best one by elimination;
  the docstring of `_resolve_within_file` says columns are only ever taken back.
* While a call fails, other questions come up; a decision on one of those may find no
  question later. `StableAcrossReplays`, `NoDecisionLeftBehind` and `AnsweredIsGone` compare
  replays in which no call failed.
* `enrich` says that a suggestion becomes an option only if the case already allows it
  (`investigate.py:226`), and adds it as a new one otherwise; `Suggest` does what the code
  does, and `MeasuredStands` asks for what is left: nothing measured or offered is replaced.

## 4. Proofs

The modules on delivery hold for every set of keys, payloads and threads and any number
of pushes, rollbacks, faults and restarts, from the assumptions named in
`Destination` and `Delivery` (a refused payload is a payload, there is a key, the kinds of
threads are disjoint, at least one attempt).

* `TypeCorrect`: types. The type invariant is not inductive as it stands: that the payload
  of a request is a payload needs what a thread at `send` has read (`PushShape`), that an
  answer goes to the thread that waits for it needs who owns which request (`CreateShape`,
  `UndoShape`), and that a generation is a number needs that the rows' generations have a
  greatest one (`TopGeneration`). These make `TypeInv`.
* `OneHeldCopyAlways`, `AcceptanceAlwaysBacked`, `HistoryAlwaysStays`: from `IInv`. The idea
  of `IInv`: wherever a generation g of a record is written down - a row, a generation a
  push has read, a request, a stored record - generations 1 .. g-1 are tombstones
  (`ClearedIn`); and a success row's id names generation g or a later one (`BackedIn`). A
  row of generation g+1 is written only for an undo the destination confirmed; what it
  confirmed was the tombstone of g itself, or of a later generation, which again has g
  among the tombstones before it. Tombstones stay (`GrowsStep`), so late requests and late
  rows cannot break it. Two held copies would be of different generations, and the lower
  one a tombstone.
* `RetriesAlwaysFollowOutcomes`: the attempts of a push are bounded and every one but the
  last calls for another, at every step. What is added to make it inductive is where the
  push is: before it waits there is room for one more attempt, and only after a retryable
  outcome does it go back to sending (`DeliveryProofs`).
* `PromiseAlwaysKept` (`DeliverySafety`): the refinement of `ExactlyOnce`. A stored
  record is the next copy, because of `IInv`: those before it are tombstones and none is
  held. The only other step that touches the records makes a tombstone of the copy held.
  Every other step of the detailed model is a stutter of the promise.
* `DeliveredAlwaysHeld`, `HeldAlwaysAccountedFor` (`DeliveryLedger`), under two hypotheses:
  one rollback at a time (`OneUndoer`) and no restart of the API (`SteadySpec`). TLC refutes
  both properties when either is dropped: a second rollback writes its row into a generation
  the first one made, and a restart forgets attempts or an undo about to be written down.
  Pushes and the job overlap freely, requests are lost or late, the destination fails and
  restarts. `LedgerInv` says where everything that is not in the log comes from: a tombstone
  the log has not moved on from is of an undo under way or recorded as failed
  (`TombstonesLogged`), an undo nobody waits for is one recorded as failed, a request nobody
  waits for is an attempt with no clear outcome (`AbandonedCreates`), a held record is
  accepted, about to be written down, or of such an attempt (`HeldHasOrigin`). It needs that
  what a rollback has read stays so (`UndosCurrent`), which is where the hypotheses come in;
  that nothing is ahead of the log (`GenerationsAlwaysKnown`) needs neither.

`RunCacheProofs` holds for every set of clients, threads, questions and versions, from the
assumptions that `NoThread` is no thread and versions are positive numbers.

* `TypeCorrect`: from `TypeInv`, which adds that a handler at the step that records a
  decision (an approval) serves one (`RequestShape`).
* `ServedViewAlwaysKnowsTables`: from `KnowsInv`. A fingerprint never runs ahead of the
  tables (`Behind`), and a view lies between its fingerprint and the tables (`Covers`),
  because `get_run` computes the fingerprint before it reads them and the tables only grow.
  When the fingerprint equals that of the tables, the view is squeezed.
* `ResultAlwaysCurrent`, `ViewAlwaysCurrent`, `ViewIsAlwaysCurrent`: of `CalmSpec`, in which
  one handler is under way at a time (`OneAtATime`; any client, any number of times, with
  any jobs) and none of these happens (`Uninterrupted`): `decide` gives up waiting for the
  job, an approval fails at the destination, a schema is approved while a job runs, the API
  restarts between the approval and `runs.schema_json`. Each of the five is needed: with
  any one of them allowed TLC finds a state in which an old answer is taken for the current
  one (the run `race` and the list in section 3). Jobs may fail, polls and pushes may
  give up waiting, the destination may be down and the API restart at any other time. The
  idea of `CurrentInv`: the result is that of the tables unless the one handler under way
  has changed them and not yet invalidated (`Changes`), and while it is between the two no
  job runs; a job is the one `wait` would join, so what it has read is still there when it
  stores. The snapshot need only agree with its own fingerprint, which names the version
  and the decisions it was made from.

`SchemaVersionsProofs` holds for every set of clients and schemas, any number of drafts,
overlapping approvals, pushes, outages and restarts.

* `OnlyApprovedAlwaysGoverns`, `TypeCorrect`, `VersionsAlwaysKept`: from an invariant that
  says of every place a schema or version is written down - the run, the destination, a
  result, a stored view, the locals of an approval, a push, a poll or the job - that some
  approval put it there (`CallShape`, `JobShape`). A handler's locals need it because they
  are read at one time and used at another.
* `OneApprovedWithoutOverlap`: of every behaviour in which no two handlers approve at the
  same time (`OneApproval`), wherever restarts and refusals cut one short. What an approval
  has done so far is still so at its next step (`ApprovalInv`): superseding leaves nothing
  approved, and nobody else approves. `OneAlwaysApproved` is that of the specification the
  run `versions` checks, which is shown to order approvals so.
* `SettledApprovalAlwaysGoverns`, `SettledSendingsAlways`: an approval that nothing
  overlapped and nothing interrupted is in force in the row, the run and the destination
  until the next one, and whatever is sent until then is sent under it. It takes two
  invariants: while the approval is alone no job runs and nobody sends (`AloneInv`), so the
  registration, the cleared result and the cleared view stay; and from then on every result, handler and job
  carries its version and schema (`Under`), and so do the stored view and a poll under way,
  which a poll, a push, the job and a restart keep.
  They are stated of `MCSpec`, since the variable `settled` tells when; the counters of
  `MCSchemaVersions` may be any numbers.

`PipelineProofs` states what holds of the pipeline's operators for every schema, text and
vote, from the assumption that a schema passed its own validators (`SchemaAssumption`: its
fields are a list without repetitions, `None` is none of them, a reference to records of the
same kind names a field, the declared blocking keys are lists of fields, and there are date
formats, finitely many).

* `CandidateNeedsEvidence`: a vote has a quarter of the scale, so a field that is applied or
  asked about has a third of the measured evidence; with `AppliedIsTheBest`, a column is
  placed only in such a field.
* `CleanedMeetsPattern`: what cleaning lets through, validation will not refuse by its form.
* `LeftOutStays`: no answer brings back what an earlier one left out.
* From `ThoseIs` to `FinaliseFormed`: each stage, whatever files, overrides and votes it
  meets, takes a run whose questions, records and columns are as they should be (`Shaped`)
  to one of which the same holds, and every stage after the mapping leaves the columns as
  they are (`Formed`). A stage is a loop, or a loop in a loop, and the library's induction
  over data takes an operator as a parameter, which the provers cannot instantiate.
  `FoldInduction` does without: the recursive function behind `FoldLeft` exists on the
  subsets of the places (`UnfoldsExists`), so a loop goes from element to element
  (`FoldSteps`), and what its step keeps is kept (`FoldKeeps`); `GatherKeeps` is the same
  for a set gone through in any order, such as a sum over the fields. They are tools and say
  nothing of the program. The step and the invariant are constants of that module and each
  loop is an INSTANCE of it. What the module needs of induction over numbers comes with the
  sequence or the set (`Reached`, `Shrinks`); `SeqReached`, `Counting` and `PartsShrink`
  supply it.
* `MapFilePlaced`: what ranking, the withdrawals within a file and placing make of a column
  they place only on evidence (`Earned`, `Supported`), or by an answer.
* From `Waits` on: the questions count the records that wait for them. `Sound` says it of
  the stages before the last: what a record waits for is the set of questions that count it
  (`Counted`), rows have ids of their own (`Apart`), and what a run has noted of questions
  asked names questions that there are (`Filed`). A step of a stage takes one sound run to
  another and drops neither a question nor a record from one (`Goes`), whether it asks
  (`RaiseGoes`), joins a question (`AttachGoes`), fills a record in or merges two
  (`SettleGoes`, `MergeSound`). Merging is the hard one: a chain of merges ends, and in one
  record (`Rooted`), which is why a row that was merged away is never looked up again.
  `BuildSound`, `ReconcileSound`, `CrossCheckSound` and `ValidateChecked` are the stages.
* `FinaliseDone`, `DoneChained`: the last stage gives each record its state and passes over
  the records as often as there are records. A pass that changes something leaves fewer of
  them ready (`PassFinal`), so after that many either a pass would change nothing or none is
  ready (`Done`); and where a pass would change nothing, no ready record refers to one that
  waits (`Chained`).
* `ReconcileUpheld`: after merging, while nobody named a file to believe, a record has all
  that its own row said (`Keeps`), and waits for a question or agrees with every row merged
  into it (`Follows`); that is `Upheld`. A record fills its gaps from the one merged into it
  and overwrites nothing, so what it agreed with it agrees with still; where the two disagree
  the first field they disagree on is asked about (`ConflictsAsked`, `MergeUpheld`), and a
  record that waits goes on waiting (`Grown`). It speaks of the rows merged into the record
  directly: one that is itself merged away takes along the questions it waited for (section
  3). The later stages carry it over (`Carries`): they touch no value and drop nobody from a
  question (`CrossCheckCarries`, `ValidateCarries`, `FinaliseDone`).

`ReplayProofs` holds for every schema, set of files, answer of the model and number of
decisions, from the assumption that the files of a run, their headers and rows are lists,
files have names of their own and rows ids of their own (an id is a row's place, `record_id`),
texts sort apart, and likeness and confidence are shares (`ScenesAssumption`).

* `LoopIsLongEnough` (from `PassesAreEarned`): the loop of `replay` has one pass more than
  there are decisions, and nothing in it says that this is enough for the questions that
  answers reveal. Every pass but the first was earned by a decision applied for the first
  time in the one before (`LoopInv`), so a pass at the cap has none left to apply, and the
  loop always ends on a pass in which nothing was answered.
* `RecordedAnswersStand`: what the model said once is never changed or forgotten.
* `MeasuredAlwaysStands`: from `ShapedInv`, which says that the run is `Shaped` at every
  step and that the questions looked into are among its questions. Without it, nothing says
  that changing one question leaves the list of the others as it was.
* `NoDecisionIsLeftBehind`, `AlwaysStable`: from `ReplayInv`, that a replay is a function
  (`ReplayAlwaysFollows`). `Passes(decisions, found, n)` is what n passes have applied and
  made of the overrides, worked out from the sources, the decisions and the recorded answers
  and from nothing else. The invariant says that what the replay holds is that: `applied`
  and `overrides` are those of the passes done (`PassInv`), `run` is the one that the stages
  make of them (`StageInv`), and the result that is shown is the one the last pass ends with
  (`EndInv`). Two things are in its way. The recorded answers grow while a replay runs:
  what a pass has read of them stays, because an answer is recorded before it is used and
  never changed, so a larger record gives the same passes. And a failed call makes a run
  that is no function of anything: the invariant lets go of a replay as soon as one failed,
  and what is shown then is marked so. `NoDecisionIsLeftBehind` follows since the last pass
  had none left to apply, and what an investigation suggests changes no question's key;
  `AlwaysStable` since both results are the same function of the same decisions.
* `ColumnsNeedEvidence`: from `EvidenceInv`: the columns of the run were placed on evidence
  or by an answer (`Placed`), what was recorded of a file is something that was said of it,
  and what is shown is the run.
* `BlockedAlwaysAsked`, `ReadyAlwaysSendable`, from `RecordsAlwaysCounted`: `HeldInv` says
  stage by stage how far the records have come - nobody waits before there are records
  (`Unbuilt`), the run is `Sound` while it is built, merged and checked, what is wrong with
  a record it waits for once it was checked (`Checked`), and in the end every record has its
  state (`Final`) - and that building meets columns and rows that sort apart, which is what
  `ScenesAssumption` gives. Marking and looking into questions change nothing that counts.
  `ReadyAlwaysSendable` has a hypothesis, that a record refers to one other at most (as to
  one manager), because the property is false without it: see section 3.
* `DisagreementAlwaysAsked`: from `SaidInv`, that between merging and the end each record is
  `Upheld` while nobody named a file, and that merging meets the rows as they were built. A
  ready record waits for nothing, so it agrees with its own row and those merged into it, and
  these agree with each other, what counts as the same being the same for both.
* `AlwaysTyped`: from `HeldInv`, `LoopInv` (the passes) and `BoundsInv`.

TLC checked the inductive invariants before they were proved, on instances like those of the
runs. Only model-checked: the liveness properties (out of the prover's reach); and of
`replay` `AnsweredIsGone`, which needs to follow each kind of answer through the stage that
would ask again, and holds for the answers and suggestions of the scenes: nothing in
`ScenesAssumption` says which of them fit which question.

## 5. Plan

1. *(done)* Delivery and the destination.
2. *(done)* `RunCache`.
3. *(done)* `SchemaVersions`.
4. *(done)* The pipeline and `Replay`.
5. Compositions: `SchemaVersions` with `Destination`, whose `Invalid` becomes the registered
   rules, and the answer 400 for an unregistered version; the status column of the list of
   runs.
6. Proofs *(done but for one property of `replay`)*: `AnsweredIsGone` (the answers of a case
   class by class, and the stage that would ask again).

## 6. Not modelled

* Extraction (`packages/extraction`): parsing of files, a pure input. A scan's doubtful
  cells are a part of a scene.
* The similarity of names (`name_similarity` of `scoring.py`) and everything the standard
  library does to texts: parameters of `TargetSchema`.
* Prompts and tools of the agent, its proposals of schemas and aliases, and the import of a
  schema (`schema_import.py`): they end in a draft somebody approves, which is a choice in
  `SchemaVersions`.
* The audit log, lineage and progress texts, `runs.status`: nothing reads them back.
* The destination's request log and `/admin/reset`.
* `POST /api/destination/rehearse`, which arms a failure of a run ahead of its pushes, for as
  many requests as it is asked. In the models a failure of the same kinds (`FailureModes`) is
  armed by a push for itself, for three requests, and disarmed by it.
* The console, scripts and deployment; the worker is an empty package.
