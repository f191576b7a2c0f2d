# A verification project for the marketing-analytics server

This directory holds TLA+ models of the parts of the program whose correctness
depends on order, on failures between two steps, or on arithmetic that nobody
looks at twice: who may be contacted and when, what an imported file does to
the ledger, which model scores the customers, what becomes of a retry, of a
card in the inbox, of a discount, of an upgrade that was cut off. TLC checks
the models on small instances; TLAPS proves the central invariants for every
value of the constants. Paths below are relative to the repository; a path
without a directory is named in full in the table of section 1.

Contents: [the system](#1-the-system) · [modules](#2-the-modules) ·
[runs](#3-the-runs) · [assumptions and fairness](#4-assumptions-and-fairness) ·
[proofs](#5-proofs) · [findings and remarks](#6-findings-and-remarks) ·
[what is not modelled](#7-what-is-not-modelled) · [plan](#8-plan)

## 1. The system

One server process (FastAPI in `api/`, the core library in `src/mktcore/`)
analyses sales files and proposes, sends and measures marketing contacts. Four
kinds of threads share one SQLite file: request threads, a pool of two worker
threads for long analyses (`api/jobs.py`), the scheduler's threads
(`api/scheduler.py`) and a catch-up thread after a start. There is no second
process. Two layers write to the file: the old one (`api/persistence.py`, plain
sqlite3: sessions, jobs, the `outbox`) and the ledger (`src/mktcore/db`,
SQLAlchemy). `session_scope` commits or rolls back as a whole
(`src/mktcore/db/engine.py:108`); a process-wide `write_lock` serialises the
writers of the ledger that take it. Not everything does, and nothing spans the
two layers: there the order of steps matters.

| Component | State | Operations | Talks to | Hard behaviour | Correct when |
|---|---|---|---|---|---|
| **Canonical ledger and import** `src/mktcore/db/repo_import.py`, `repo_mappings.py`, `api/canonical_hook.py` | customers and their keys, batches, lines, headers, quarantine | import of a file, block, re-import | everything below reads it | files overlap, correct and contradict each other | a sale counts once, headers add up, nobody is merged silently |
| **Costs** `src/mktcore/costs` | dated unit costs, cost of each line | `POST /costs` (two transactions) | import, reports | an import or a crash between the two | a line is priced as of its day |
| **Settings** `src/mktcore/settings_store.py` | one row per policy | setters, `PUT` handlers | engine, offers | a handler that calls two setters | thresholds ordered |
| **Opt-out register** `src/mktcore/contact` | suppressions by customer, phone, scope | record, bulk list, revoke; the gate | every sender | two rows for one person; identities that an import joins later | who is barred stays barred until allowed by name |
| **Campaigns and contact gate** `api/campaigns_api.py`, `src/mktcore/execution/providers.py` | campaigns, members (arm, stamps), sends, outcomes | create, export, preview, send, close, snapshot | SMS panel, outbox, offers | the panel is called inside a transaction; campaigns interleave | control arm never contacted, every SMS accounted for, windows fixed |
| **Experiments and uplift** `src/mktcore/campaigns`, `src/mktcore/uplift`, `src/mktcore/experiments` | outcomes, saved tables of effects | outcome job, table, saving, verdict, plan, split into arms | campaigns, lifecycle, engine | small counts; several chains of steps at once; lines corrected after they were counted | an effect rests on evidence; no order counts twice; all readers of a count agree |
| **Lifecycle snapshots** `src/mktcore/lifecycle`, `src/mktcore/db/repo_features.py` | snapshot per customer and day, transitions | write after an upload | import, uplift, engine | older files, several keys of one customer | every change of state is recorded once |
| **Reminder scan, bulk SMS, outbox** `api/scheduler.py`, `api/main.py`, `api/persistence.py` | outbox rows | scan: dedupe, claim, send, mark; bulk: gate, send, record | gate, campaigns, panel | long sequences without a lock; a crash in between; reads that fail open | no second reminder, campaigns that checked know of it |
| **Sessions and background jobs** `api/jobs.py`, `api/main.py`, `api/persistence.py` | sessions, their files, jobs | upload, analyse, poll with its watchdog, delete, retention, restart | thread pool | each step its own transaction or file operation, and any write may fail | a final state is final, every job whose end can be written gets one |
| **Job ledger** `src/mktcore/jobs` | rows of `job_runs` | run, fail and reschedule, sweep, prune, retry by hand | scheduler, every nightly job | crash in an attempt, a stale sweep list, a manual retry beside the sweep | attempts counted, one executor, failed attempts concluded |
| **Job leases** `src/mktcore/db/leases.py` | one row per job and scope | acquire, take over, release | engine | expiry of a live holder; death | one writer within its time, nobody locked out |
| **Opportunity engine and inbox** `src/mktcore/opportunities`, `api/v1.py` | cards, their last run, expiry | run (generators, filters, ceiling, transaction), nightly expiry and closing, decisions | order lines, settings, registry, campaigns | a run works for minutes on data read earlier; the nightly job selects before its transaction begins; any read may fail | decisions stand, valid cards stay, caps hold |
| **Offers** `src/mktcore/opportunities/offers.py` | one offer per card | propose, approve, reject, refuse, withdraw | settings, costs, sending | policy changes between proposal, approval and sending | what is sent was approved, above the floor |
| **Model registry** `src/mktcore/ml/registry.py` | rows of `model_runs` | record, promote, rollback; the score job reads the active run | trainers, score job | promotions and rollbacks in any order | one active model per key, usable, never lost |
| **Model training** `src/mktcore/ml`, `src/mktcore/features/point_in_time.py` | what a training records | frames, snapshots, labels, features, splits, gates | ledger, registry | late lines; windows that overlap | nothing of a later time gets in |
| **Schema migrations** `src/mktcore/db/migrations.py` | versions, tables, columns, headers | the upgrade at start | all | the driver commits schema changes one by one; death in between | the version recorded is the schema there is |
| Analysis, forecasting, ingestion, catalogue, connectors, AI texts, reports, HTTP views, frontend | mostly none | computations, parsing, views | | | see section 7 |

`PROJECT.json` lists the same components with their status and what each model
leaves out, and the hazards: for each, the line where it bites and the
properties that would notice.

## 2. The modules

Conventions. A transaction under `write_lock` is one action; a sequence of
transactions, or work between them, is a sequence of actions. Days are natural
numbers, day 0 is NULL where a module says so. Numbers, texts and names appear
only where a property tells them apart. Variables and actions carry the names
of columns and functions. Variables commented as history record what happened
outside the database and are read by properties only. Operators named
`...Mistake` are plausible slips of the code beside the operator they would
replace; no specification uses them: replacing the operator by its mistake must
break the property it is listed with in `PROJECT.json`, which shows that the
property really depends on that code.

### The ledger and who is in it

**`CustomerIdentity`** - `resolve_customers_with_candidates`: a row of an export
belongs to whoever has its normalised phone, else its raw key, else somebody
new; contradictions become candidates, never merges.
**`LedgerImport`** extends it - `Import` is the transaction of
`sync_to_canonical` and `import_frame`: checks, blocking, mapping versions,
identities of lines, insertion, update, headers, reconciliation (`Checks`:
what the analysis counted of the purchases, `Buyers`, against what the ledger
holds of all lines), evidence.
**`CostRegister`** extends that - `RegisterCost` and `ApplyCosts` are the two
transactions of `POST /costs`, `ApplyLost` the death between them.
**`OptOutRegister`** - rows by customer, phone and scope, `OptOutCustomer`,
`OptOutPhone`, `OptOutList`, `Revoke`, and `Barred`, the gate as
`contact/permission.py` builds it. **`Consent`** is what it promises.
**`SettingsStore`** - the setters and the handler that calls two of them.
**`MCLedger`** composes the five: what an import learns of a person decides
whom the register bars.

### Contact and what is learnt from it

**`ArmAssignment`** - `assign_arms`: `NControl` is the rounding,
`ControlArms` the set of splits the random choice can give.
**`CampaignContact`** uses it - campaigns over a set of customers. `CreateSome`
draws members and control arm through the gate; `ExportCampaign`,
`SendCampaignSms`, `PreviewCampaignSms`, `CloseCampaign`, `ComputeOutcomes`,
`OptOut`, `RevokeOptOut` are the handlers. An export lists and stamps the members
it may contact, with or without a phone, in a transaction that is committed before
the workbook is delivered; fatigue is counted in whole days, where the code
compares seconds, so that a contact leaves the window at the start of a day and
not in the middle of it. A send answers per member with what
the panel can do: taken and reported, refused, or taken with the answer lost
(`unreported`). `CrashInSend` is a send whose transaction rolls back after some
messages left: rows and stamps are undone, messages are not.
**`LegacyContact`** composes it with the older senders: `ScanStart` .. `ScanEnd`
are the steps of `run_cycle_scan`, `TextGate` .. `TextEnd` those of `sms_send`;
other operations interleave between any two, and `LegacyCrash` ends every
sender at any step. `RecentOutbox` is the answer campaigns get from
`recent_contact_customer_ids`. Reads may fail: a gate that cannot be read lets
everybody pass, and `CreateUnchecked` is a campaign drawn without the outbox,
whose answer then does not say that fatigue was checked (`unchecked`). That
creation is one step is its moment of reading the outbox: a claim between that
and its commit is not told apart from one after it.
**`CustomerLifecycle`** - an upload aggregates the file by raw key, merges the
keys of one customer, classifies, writes the row of the day and the transition.
`sales` holds every version of every line the shop's books ever had, `ledger` the
version posted last: `Correct` enters a line again with another day, customer or
amount, `Exports` are taken of the books as they are or once were, and `Post`
overwrites the lines it finds, as `_upsert_lines` does. Returns are in the ledger
and not in what the features are made of.
**`UpliftTable`** - pure: cells, parents, gates and fallbacks of the table, the
verdict of a report, the planner, readiness.
**`CampaignLearning`** composes the two - the chain an upload or the scheduler
runs (features, outcomes, table, saving) as steps of a worker that may skip any
of them, beside assignment, contact, closing and the refresh button. A contact
may also come after the close: the export asks for no status.

### The engine

**`OpportunityInbox`** - cards and their offers over runs. `EngineStart` is a
run up to its transaction, `EngineCommit` the transaction: `_persist` with
`upsert_offer`, `_close_fulfilled`, `_supersede_missing`, `_expire_overdue` in
this order. Which candidates a run has is open there. The nightly job is two
steps, `SelectOverdue` and `ExpireOverdue` (`SelectFulfilled`, `CloseFulfilled`):
it selects outside of any transaction, then writes by id. A decision of a person
takes no lock and may come between; the other writers take it and may not. A
run's own transaction begins with a write, so its passes are one action.
**`OpportunityRun`** - one run from within: the generators, the reads that may
fail, the ten filters in the order of falling value with caps, margin floor,
discount rungs, yielding and operator capacity, and the ceiling.
**`EngineLease`** - `job_lease`: reading and writing the row under the lock of
the process, takeover, release, death.

### Jobs, sessions, models, upgrade

**`JobLedger`** - `StartJob`, `Finish`, `Fail`, the sweep with the list it read
once (`SweepRead`, `SweepNext`, `SweepEnd`), `RetryRun`, `Crash`.
**`AnalysisSessions`** - jobs, rows and files of sessions, each call of the
store a step; polls with the watchdog, deletion, retention, death and restart. A
write of a job's end may fail; if the last resort fails too, the job is over, its
row is unfinished, and it is `lost` until a poll or a start ends it.
**`ModelRegistry`** - `RecordRun`, `PromoteRun`, `RollbackRun`,
`WriteCustomerScores`. **`ModelTraining`** - frames, anchors, snapshots,
labels, features, splits and gates of the three trainers over a ledger to which
new and late lines are added; the fit itself is a choice of metrics.
**`SchemaMigration`** - the twenty migrations of `ensure_schema`, statement by
statement as the driver commits them.

### Proofs and instances

The theorems (section 5) stand beside the modules they are about:
**`ModelsProofs`** (registry and training), **`ContactProofs`** (campaigns,
outbox and sessions), **`JobsProofs`** (ledger of jobs and lease),
**`OpportunityProofs`** (inbox and run), **`LedgerProofs`**,
**`LearningProofs`**, **`UpgradeProofs`**, and **`NatFacts`** for lemmas they
share: products and ceilings, sums of a function over a finite set and what
they do when the set grows or its members are replaced, counting by parts.
The `MC...` modules name the values a `.cfg` cannot write. `MCModels`,
`MCLegacyApp`, `MCJobs`, `MCOpportunities`, `MCLedger` and `MCLearning` put
modules side by side with a variable `focus`: where two parts share no state,
a behaviour is about one of them and the other rests, since the product would
show nothing more. They conjoin properties of the parts under one name.

## 3. The runs

| Run | What TLC shows | Bounds, and why they are enough |
|---|---|---|
| `models` | One active model per key, the latest promoted, usable, never lost (`RegistrySound`, `NeverGoesDark`); scores from promoted runs; whatever was fitted had rows to learn from and rows to be judged on (`BothArms`); no label before its outcome is complete, and a late line changes only what its own customer's days are part of (`NothingFromTheFuture`). | 2 keys, 3 runs, 4 promotions or rollbacks: a rollback of a rollback beside a bystander. 3 customers, three ledgers of up to 5 lines on days 0-8, 2 lines more, late ones included, against windows of 1 and 2 days: a line falls before, on and after each edge. |
| `campaign` | History is true, control is clean, both arms in every stratum, measurements stand, whoever is contacted passes the gate. | 2 customers (symmetric), 2 campaigns, 2 days, one lost answer or dead transaction, fatigue window of the same day: a control member needs one campaign to hold it and another to reach for it, before or after, on the same or the next day. |
| `legacy` | The claim protects from a second reminder across a crash; campaigns that checked for fatigue see every reminder; nobody waits for a job nobody works on; a result stands; every job whose end can be written gets one (liveness). | Texts: 1 customer, one scan, one bulk text, 1 campaign, days 0-2 against a window of 2, one crash or one read that fails. Sessions: 2 sessions, one analysed, 1 worker, 2 jobs, any write of an end may fail, retention at one and two days, one death: a job waits behind another while its session is deleted. 900 thousand states, liveness included. |
| `legacy_control` | Finding: a bulk text reaches a control member. | 2 customers, 1 day. |
| `jobs` | Attempts counted, one executor, backoff kept; every scheduled retry comes to an end and the lease becomes free again and again (liveness). | 2 threads, 2 rows, 3 attempts, 1 manual retry, 1 crash: a sweep list of two rows goes stale beside a manual retry and a crash. 3 runs of the engine, a lease of 2 ticks, 1 death: the slow holder, the run that takes over, and one that comes after. |
| `jobs_restart` | Finding: a retry under way at a crash is lost. | 1 row, 2 attempts, 1 crash. |
| `inbox` | Decisions of people outlive runs and every nightly job but one that had selected before them; valid cards stay; what is sendable was approved and above the floor of its day; rejections hold; caps, reminders first and one reminder per pair within a run; a discount keeps its floor. | 1 card with product, challenger and discount, 2 ladders, 2 floors, 2 days, one run at a time with any as_of: every pair (old file or settings, new decision) occurs. A run: nine plans of two customers, three cards at most competing for two slots, each policy alone or with another, every read failing alone or all together. |
| `inbox_floor` | Finding: a run that knows the raised floor leaves a discount below it sendable. | as the first part of `inbox` |
| `inbox_decision` | Finding: a dismissal between the nightly job's reading and writing is overwritten. | as the first part of `inbox` |
| `ledger` | Nobody merged or split silently, the ledger adds up, a file that does not reconcile fails for what is in it, lines are priced as of their sale, thresholds ordered; the register implements `Consent`. Whatever the version a database is upgraded from and wherever the process died: recorded means done, headers add up, identities are unique and definite, no sale is lost. | 6 exports (one repeated and corrected by another, one of the next year with the number reused and a number in two spellings, one without numbers, one blocked, one in which a customer only brings something back), 4 imports in any order, beside 2 register rows over 2 phones, or 2 dated costs with an application lost, or the settings. An upgrade is a part of its own: all 1024 subsets of ten lines (an order written twice, in two spellings, over two years, with returns, and a copy whose day and customer differ), 6 versions, a crash between any two statements. |
| `learning` | Every change of state recorded; table on evidence, one table per date; all readers of a count agree; the same file changes nothing; no order counts twice and none that never was in the window; a closed campaign's outcomes stand. | 3 customers with 5 keys, 2 campaigns, 1 worker that may stop after any step, days 4 and 5, one new sale, uploads of the whole books; the outcomes of one campaign over an order entered again on the day before, a return, and uploads of the books before and after the correction; snapshots: three late sales and every later export. Groups up to 5 per arm; strata up to 12 with 24 percentages, 0 and out of range included: every residue of the ceiling. |
| `learning_silence` | Finding: a cell where nobody bought is saved as useless. | as `learning` |

Deadlock checking is off everywhere: each bound (campaigns, days, clock, rows)
ends the model, not the program. Symmetry is used for customers where no
liveness property is checked.

Counters capped by bounds: `MaxRuns`, `MaxClock`, `LastDay`, `MaxNew` (models);
`MaxCampaigns`, `MaxDay`, `MaxUnreported` (campaigns); `MaxFaults` (crashes and
failed reads), `MaxJobs`, `MaxAge`, `MaxServerDeaths` (outbox, sessions); `MaxRows`, `MaxManual`,
`MaxDeaths` (jobs); `MaxDay` (inbox); `MaxImports`, `MaxRows`, `MaxCostRows`
(ledger). They are guards of the actions, so the proofs hold for every value
of them. `QuarantineCap`, `RawCap`, `OpenCap`, `MaxMoney`, `MaxRapport` and
`MaxReminders` are limits of the program itself, made small. `MCLearning`
narrows the days and files of `CampaignLearning` by conjuncts of its `Learn`.

## 4. Assumptions and fairness

* One process. `write_lock` is a lock of the process; a deployment with
  several workers would void the atomicity the models start from. With two
  values in `Hosts`, `EngineLease` violates `OneWriterInTime`, although its
  module speaks of several processes (`leases.py:5`).
* A scan and a bulk text end on the day they began (`LegacyNextDay`).
* `promoted_at` is strictly increasing: two promotions in one tick of the
  wall clock, or a clock set back, are excluded.
* Inbox: `as_of` is not after today (a file holds no future sales). A decision
  of a person is one step; it takes no `write_lock`, and is kept apart from the
  writing of the nightly job, not from its reading. No run outlives the lease of
  its `as_of`. `Ttl` is the same for all cards.
* A shop enters a line again within the period its identity names (the year of an
  order number): beyond it the import takes it for another line.
* Training reads the ledger in one transaction and records in another; what it
  records depends on the first only, so that the two are one action.
* Names. A customer id and a phone of the register are told apart
  (`ScopesAssumption`); so are phones, e-mails and codes of a file
  (`IdentityAssumption`). The gate spells all of them as text, see section 6.
* A file has typed rows, at least one of them a sale, and at least the columns the
  import requires (`FileAssumption`); a history of costs is dated and numeric
  (`CostAssumption`); the values handed to the setters are integers and the
  defaults of the thresholds in order (`SettingsAssumption`). Sets of customers,
  sessions, keys and sales are finite.
* `BackoffAssumption`: a backoff is at least one tick and no longer than the time
  for which ages are told apart: `backoff_seconds` is in minutes, the retention
  of `prune_completed_runs` in days.
* An installation to upgrade (`MigrationAssumption`): its ledger is one this code
  wrote, by any version and from any uploads: lines typed and told apart by their
  ids, each of one order whose number no other order has, years that follow the
  days; and `None` is not itself a number or a year.
* The planner is asked for an effect of 1 to 99 percent and a control group of 5
  to 50 (`UpliftAssumption`), the ranges `GET /experiment-plan` admits
  (`v1.py:1768`), the effect in whole percents; sizes are rounded half to even,
  as `round` does. Kinds of opportunities and states are not spelt `*`, which
  marks a total (`LearningAssumption`).
* A list of opted-out numbers (`OptOutList`) has two entries; the handler treats
  a longer one entry by entry.

Some theorems have a hypothesis besides, named in their statements:

* `OneSweeper`, `OneScan`: the sweep and the scan do not overlap with themselves
  (the scheduler's default); nobody starts one by hand meanwhile. Without it the
  scan does remind twice: `ExtraScanHarmless` in section 6.
* `OneHost`: all runs of the engine are threads of one process. Without it
  `OneWriterInTime` is violated, as said above.
* `MediansAreNumbers`: the weighted median of enough gaps is a number. It is
  computed by recursion over sums, of which the provers can show nothing.
* `~misused` in `AttemptsCounted`, `OneExecutor`, `BackoffKept` and
  `DeadStaysVisible`: manual retries were of dead rows only, the use the handler
  is for; it does accept others.

Fairness is weak and assumed in three modules only. `JobLedger`: time passes
(`Tick`), a job that runs ends (`Finish` or `Fail`; one that hangs for ever is
outside), and the scheduler's sweep is started and carried through
(`SweepRead`, `SweepNext`, `SweepEnd`), which an interval job every 15 minutes
which `add_job` runs once at a time by default justifies (`api/scheduler.py`,
`_register_pipeline_jobs`); `Sweepers = {scheduler}` states that nobody starts
the sweep by hand at the same time. `EngineLease`: time passes; that a run ever
ends is not assumed. `AnalysisSessions`: the threads of the pool take the next
job (`StartWork`) and make progress (`Step`), and a dead server is started
again (`ComeBack`). No fairness is assumed for users, polls, manual retries,
retention or crashes.

**Refinement.** `KeepsConsent` is `ConsentSpec` of `Consent` with `barred`
mapped to the people the gate of `contact/permission.py` would hold back, given
the register and the directory, and `allowed` to the people whose refusal was
withdrawn by name. An import that learns that two keys are one person must then
be a `Bar` or a stutter, never an `Allow`; a revocation must free nobody else.

## 5. Proofs

Every theorem holds for all values of the constants that satisfy the named
`ASSUME`s. The method is the same throughout: the properties of a run are
seldom inductive, so a stronger invariant that implies them is proved, with one
lemma per action. What follows says why each strengthening is needed.

**Campaigns** (`ContactProofs`).

* `ContactInvariant`: `ContactInv` is inductive. The properties alone are not.
  `ControlGetsNoSms` needs `SmsInPast` (a campaign created today must not find
  messages of tomorrow), `CleanControl` needs `OnlyTreatmentStamped` (a stamp
  on a member of campaign j is on its treatment arm, so the gate of campaign k
  saw it), and both need `MembersOfCreated` (a new id has no members). The
  heart is that creation excludes whoever is exposed inside the window, and
  export and send exclude whoever is control.
* `TypeCorrect`, `ControlStaysClean` (`ControlIsClean`) and `HistoryRecorded`
  (`HistoryIsTrue`) follow.
* `ContactPassesGate` and `MeasurementsFixed` are about steps: each operation,
  starting in a state of the invariant, contacts only whom the gate lets pass,
  leaves a window that has begun where it is, and does not touch a closed
  campaign.
* `SplitLeavesBothArms` is arithmetic: for every size of a stratum the ceiling
  of `assign_arms` leaves somebody treated. `StrataAreTreated`
  (`TreatmentInEveryStratum`) carries it through creation.

**Outbox, senders, sessions** (`ContactProofs`).

* `CampaignsUndisturbed`: the composition with the older senders implements
  `Spec` of `CampaignContact` by the identity map. A scan may run between any
  two steps of a campaign and dies anywhere, and what is proved above holds.
* `RemindedOnce` needs `NotYetReminded`: whom a scan has still to claim or to
  text was not reminded within the days of the dedupe. It is true at the gate,
  and stays true during the scan because no other scan is there (`OneScan`).
  The claim makes it true for the *next* scan, also after a crash: `Claimed`
  and `RemindersClaimed` say that every reminder stands on a claim as late.
* `OutboxKnowsTexts` needs `TextsOnRecord` (a text is on record, or its sender
  has still to record it); `RemindersSeen` (`CampaignsSeeReminders`) needs that
  a reminder's claim is one the campaigns look at, a row that is not a dry run;
  its one exception is a campaign whose answer says that the outbox was not read.
* `NobodyWaitsForNothing` (`NoOrphanedJob`) and `ResultsStand` (`DoneStands`):
  `JobsInv` says where a job can be, given its row: queued once, at one worker,
  or over and final unless no end of it could be written, and a job that is done
  is over. `SessionsTyped` adds that no session
  has two rows, which needs the queue's jobs to be of one session each.
* `AppIsItsParts`: the application implements both specifications;
  `RemindersAreAccounted` and `AppKeepsPromises` carry the properties over.

**Jobs and lease** (`JobsProofs`).

* `LedgerTyped` needs no hypothesis. The others rest on `LedgerInv`, which
  while nobody misuses the manual retry says: `Counted` (failures equal the
  counter), `Executed` (an executor makes the attempt its row counts),
  `FreshPlans` (what the sweep read is still due when it comes to it) and
  `Waited` (age and remaining wait make the backoff). `AttemptsAreCounted` and
  `RowHasOneExecutor` follow: that two threads take one row is excluded by
  `FreshPlans`, not by a lock. `BackoffIsKept` and `DeadRowsStay` are about
  steps.
* `LeaseExcludes`: `LeaseInv` ties three clocks together. A run within its time
  has the row (`RowIsTheirs`), what was read under the lock still stands
  (`SightStands`), and the lock is held exactly between looking and writing
  (`InLock`); so a takeover needs a lease that ran out, and a late release
  cannot free the successor's.
* `PartsBehave` and `OneAtATimeHolds` carry both to their composition.

**Inbox and run** (`OpportunityProofs`).

* `InboxInvariant`: `InboxInv` is inductive. That a purchase closes a card once
  is not: a card is closed by purchases newer than its anchor, so it must be
  known that the anchor of a live card has passed all purchases that closed it
  before. `AnchoredPastClosings` says so, except for cards taken up again by
  hand or opened by an older file; it needs `FilesOfThePast`, since a run
  anchors the cards it writes at its own as_of. And as the nightly job writes what
  it selected earlier, `SelectedStands` says what is still true of its selection
  then: each card is live, or a person has decided on it since.
* `TypeCorrect` and `InboxIsSound` (`InboxSound`) follow. For what is sendable
  the hard case is the commit of a run: `upsert_offer` may confirm an approval,
  never change what was approved.
* `DecisionsStand`, `RejectionsStand`, `AcceptedWorkStands`, together
  `WorkOfPeopleStands` (`PeopleDecide`: against every run, and every nightly job
  that had not selected the card before the decision), and `CeilingPutsNothingAway`
  (`ValidCardsStay`) are about steps; the commit of a run is followed through
  its four passes over the cards.
* `RunInvariant`: the filters of a run work through the candidates by falling
  value (`ByFallingValue`), and a candidate leaves notes whose shape tells where
  its chain ended (`NotesEnd`). Slots hold no more than the cap (`SlotsHold`);
  a cap that turned somebody away stays full (`CapsStayFull`), a capacity stays
  used up (`CapacityUsedUp`). `RunKeepsItsRules` (`RunSound`) follows.
* `DiscountsKeepTheFloor` (`DiscountKeepsFloor`) is integer arithmetic over the
  rounding to basis points. The rounding is half to even, so the property is
  stated to half a basis point: at exact ties a rung on either side may win.
* `PartsKeepApart`, `OpportunitiesAreSound`: inbox and run side by side.

**Ledger** (`LedgerProofs`). `LedgerInv` has four parts.

* `IdentityInv` rests on `WellKept` (a customer owns the key he was created for
  and the phone he has), which `Import` keeps one profile at a time, together
  with `Grows` (no key changes hands) and `Reported` (a profile that is not its
  key's owner is a candidate). `Resolving`, the loop over the profiles, is a
  recursive function; that the equation has a solution and the solution these
  properties is shown by least counterexample, since the induction theorems of
  the library are out of reach. `IdentityHolds` (`IdentitySound`) follows.
* `PriceInv`: a line priced from the history was priced as of its day, and its
  product still has costs in what was applied (`PricesStay`). `PricesAreOfTheDay`
  (`PricedAsOfSale`).
* `PolicyInv` for `ThresholdsHold` (`ThresholdsOrdered`).
* `ConsentInv` for `RegisterKeepsConsent` (`KeepsConsent`): every action is a
  step of `Consent` or a stutter. The hard case is an import that gives a known
  person a phone: whoever is newly barred is barred by a row of that phone, and
  nobody is freed, because the phone had no other owner.
* `SumsStay`: `SumsInv`, which stands beside `LedgerInv`, says that a line is
  under the order its identity names (`LinesNamed`), that the lines are those of
  the posted files and no others (`LinesArePosted`), that headers are the sums of
  their lines, and that a file which does not reconcile spells a number in two ways
  or has somebody in it who only brings something back (`FailureIsTheFiles`). Headers
  that add up are not inductive alone: an import
  recomputes only the headers it touched, so a line must not be able to lie under
  another header than the one its identity gives it, whichever file brought it.
  Sums are treated by replacing lines one by one (`NatFacts`), and the identities
  of one file are as many as its rows because the ordinal counts equal ones.
* `LedgerHolds` (`LedgerAddsUp`): every header is the sum of its lines and a
  line two exports share counts once; and a file that spells its numbers in one way
  and knows its customers by what they bought reconciles, L09 included
  (`OrdersReconcile`), whatever was imported before it.

**Training and registry** (`ModelsProofs`).

* `RegistryInvariant`: `RegistryInv` is inductive. "At most one active" is not:
  `rollback_run` demotes the run it is *given* and promotes the newest *other*
  one, so if it is called for an inactive run, the active one must be exactly
  the run it promotes. `ActiveIsLatest` says so, and `ClockBound` keeps the
  next time stamp above all others.
* `TypeCorrect`, `SingleActiveModel`, `OnlyPromotedRunsScore` follow.
* `GateOrRollback` needs `Vouched` besides: a failed run that has ever carried
  `promoted_at` was put there by a rollback, and a run with the status of a
  rollback was named by one. `RegistryIsSound` collects these into the
  property the run checks. `ScoringStaysOn` is about steps: promotion and
  rollback activate a run of the key they demote.
* `ArmsAreFilled` (`BothArms`): the cut falls on the day of a row, so somebody is
  always left to judge by; that somebody is left to learn from is what each
  trainer asks, or, for whale rows, what the fit raises for want of.
* `FutureIsUnknown` (`NothingFromTheFuture`) takes a line that reaches the ledger
  after a training and follows it through every label of the three trainers, the
  claim behind it, the profit a cohort is ranked by and the features of a
  customer's own window. The hard part is the label of `replenish`: the end of the
  claimed window rests on the customer's past and pace, so that these must be
  shown to stand before the line can be shown to lie beyond it. Features that
  compare with the median of all customers are not part of the claim: for them
  it is false, as TLC shows of `WindowFeaturesStand` (section 6).

**Learning** (`LearningProofs`). `LoopSpec` allows every upload, and analyses
that post nothing besides; the chain of an upload and the checked instance are
behaviours of it (`LoopsAreRuns`).

* `LoopInv` says that a row is of its file and every change a write saw was told
  (`RowsTrue`), that what the file written last says of its customers is what
  their rows say (`LatestSaid`), and that a measured member's window began and has
  held every order his row counts (`MeasuredTrue`). `LatestSaid` is what
  makes a second analysis silent, and is no property anybody would state: a retry
  compares with rows of *earlier* days.
* `ChangesAreRecorded`, `MembersAreMeasured` (`LearningTypeOK`),
  `SameFileIsSilent` and `ClosedStays` follow. That a count takes no order twice is
  not a matter of counting: an upload must leave one version of each line in the
  ledger (`OneVersion`, part of `DaysTyped`), the newer file's or the older one's.
  A correction after a count may leave the row behind the ledger until the next
  one, and for good once the campaign is closed, as the handler of the close
  says; so the bound is by every version the books ever had (`OrdersEverIn`).
* `TablesAreSound`: a table is built in one transaction and saved in another, and
  meanwhile members join and outcomes are counted. `TableInv` says that members
  and outcomes keep to the arms that were drawn (`SplitInv`) and that every table
  a worker holds or a day has saved is one table and counts no more members of an
  arm than there are (`TableFits`), which stays true because members only join.
  `TableHolds` (`TableSound`) follows. That no member is counted in two cells is
  a counting argument: the cells part the observations, and the arms differ.
* `EveryCountIsSound` (`CountingSound`), for counts of any size. Table and planner
  agree on what is useless, and, where neither arm is too small for the report and
  the rates have any variance, planner and report on what is settled. A planned campaign
  has both arms (`PlannedSplits`): within the ranges the handler admits
  the size asked for is at least two, which the ceiling splits.
  For every stratum and percentage the control arm is the smallest that reaches
  the share (`SharesAreAsked`). `CountingIsSound` carries it to the instance.

**Upgrade** (`UpgradeProofs`), for any ledger, version and point of death.

* `UpgradeStays`: `UpgradeInv` says that the recorded versions are `1..v`, that
  each is wholly in the schema (`SchemaInv`), and what the rows are, by `v`
  (`RowsAt`). Up to version 17 headers have no year and stand on their lines:
  date of the first year, branch of the last upload (`Stage`), before 17 their
  numbers can be made definite without two becoming one (`Renamable`); at 17 the
  lines have the identities an import computes (`UidsRight`); from 18 on every
  header holds (`HeadersRight`). The property speaks of the end only, and says
  nothing of what the migrations find; these descriptions are what each of them
  needs and leaves, so that there is one lemma for each that touches rows:
  `LineIdentityKeeps` (17), `HeaderPeriodKeeps` (18), `EmailKeysForm` (20), and
  for the commit of several at once, `CommitRight`.
* What makes 17 hard is that it drops equal lines of older uploads while the
  header's totals are sums: of equal lines those of one upload, the newest, stay,
  and there are as many of them as that upload had. What makes 18 hard is that a
  header parts into years and a line moves to the header of its year unless that
  key is taken: the new keys are a year in front of the old ones, so no two of
  them meet, but one may meet a number written with a slash.
* `UpgradeHolds` (`UpgradedIsSound`) and `UpgradeLosesNothing`
  (`UpgradeKeepsLedger`, of every step) follow.

**What proving corrected.** `DiscountKeepsFloor` used to claim the floor exactly
and failed at ties of half a basis point. `SplitIsReported` used to speak of any
two customers who have lines of one key, which is false once a third is
involved; it now speaks of a line's customer and its key's owner. Neither was
reachable in the instance TLC walked through.

`UpgradedIsSound` used to claim that a header's date is that of one of its own
lines and its customer one of theirs. The proof asked what happens when the line
both were taken from is the copy that migration 17 drops, and TLC found
such a ledger, which is why the instance has ten lines now: see the remark on
migration 17 in section 6. The claim is now made of the year and of a date not after any line, and
`UpgradeKeepsLedger` says where date and customer come from. The planner's half
of `CountingSound` used to be stated at settings the handler does not admit.

**Checked by TLC only**, and why. Every invariant and every action property a
passing run checks has a theorem that states it. What has none is:

* `JobsConclude` and `NothingIsStuck`: liveness under fairness, out of the
  reach of the provers.
* That `Resolving`, the recursive function of `CustomerIdentity`, is computed as
  it is written: the proofs use what its equation implies. The weighted median of
  `ModelTraining` is a recursion over sums, of which the theorems suppose
  (`MediansAreNumbers`) that it is a number.
* The findings of section 6 and the statements TLC refutes: a counterexample
  needs no proof.

## 6. Findings and remarks

Each finding is a run that TLC finds violated, and a sentence of the repository
quoted in `PROJECT.json`.

1. `legacy_control` - `sms_send` asks the gate once, then sends for minutes
   (`api/main.py:861`); a campaign created meanwhile loses a control member.
2. `jobs_restart` - a retry in progress when the process dies stays `running`
   for ever (`src/mktcore/jobs/runner.py:135`).
3. `inbox_floor` - a raised floor that blocks the candidate itself never reaches
   its approved offer (`src/mktcore/opportunities/engine.py:840`).
4. `learning_silence` - with no conversion in either arm the interval is (0, 0),
   and the group is saved as useless (`src/mktcore/uplift/empirical.py:229`).
5. `inbox_decision` - the nightly job selects the cards it will expire or close
   before its transaction begins, and a decision takes no lock: a dismissal in
   between is overwritten (`src/mktcore/opportunities/engine.py:1043`).

Statements of comments and docstrings that the models also refute. Each is kept
as a definition at the end of its module, without a run; naming it in the
run's `.cfg` shows the trace.

| Definition | What happens |
|---|---|
| `CampaignContact!OnlyDeliveryBlocks` | A preview writes rows with the status of a real send, and the guard against sending twice does not look at `dry_run` (`campaigns_api.py:499`, comment :488). |
| `ModelTraining!WindowFeaturesStand` | The share of expensive purchases compares with the median over the windows of all customers, so later sales move the features of a window long closed (`whale.py:191`, docstring `point_in_time.py:373`). |
| `AnalysisSessions!NoPathLeavesUnfinished` | The last resort of a job is one more write; when it fails, the exception is logged and the row stays unfinished (`api/jobs.py:69`, comment :61) until a poll or the next start ends it. |
| `LedgerImport!FailureMeansSplit` | The analysis counts the customers of purchases, the ledger those of all lines: a customer seen on a return alone is reported as a raw key that became several customers (`kpis.py:118`, docstring `repo_import.py:841`). |
| `LegacyContact!ExtraScanHarmless` | Two overlapping scans both pass the dedupe before either claims (`scheduler.py:56`, docstring :118); needs two `Scans`. |
| `OpportunityInbox!OldPurchaseClosesOnce` | Closing by the nightly job anchors the card before the purchase, so the same purchase closes it again after it was taken up by hand (`engine.py:1001`, comment :939). |
| `AnalysisSessions!FreshAnalysisHasFiles` | Retention, whose list was read before the analysis was stored, removes the files the analysis has just written (`persistence.py:361`). |
| `OptOutRegister!RefusalIsHeard` | A refusal by phone of a person with a row by id and a revoked row by phone is written to the row found first; the phone stays free (`register.py:372`, docstring :277). |
| `CostRegister!UndatedIsImputed` | An undated cost is dated 1900, so the older lines it is given to are labelled exact, not imputed (`basis.py:66`, comment `v1.py:1414`); needs `CostRows <- AllCosts`. |
| `ModelTraining!EveryTrainingRecorded` | A fit that raises, on rows of one class for example, leaves no row. |
| `CampaignLearning!StateBeforeContact` | The row of the day of assignment is written again by a later upload of that day, and the member is filed under the newer state (`src/mktcore/uplift/snapshots.py`, comment :91). |
| `CustomerLifecycle!EventsTrue` | A second file of one day overwrites the row, and the first one's transition stays. |

Further remarks. `promote_run` accepts `rolled_back` as well as `validated`, and
`rollback_run` gives that status to any run that has a predecessor;
`UnvalidatedOnlyViaRollback` shows it is the only way round the gate. A
champion's reminder is dropped as soon as the challenger generates its own,
before the filters decide about the latter (`engine.py:361`). A rejected rung
is remembered only until a different one was proposed (`offers.py:139`). The
reads of a run fail open. The event of an inbox decision names the `from_status`
its handler had read, which another decision may have changed (`v1.py:1953`).
An export stamps members of a closed campaign too (`campaigns_api.py:338`), whom
nothing measures any more; and a line corrected after its campaign was closed
leaves the outcome as it was counted. An order number in two spellings within one
file makes L09 report a mismatch. A migration that dies from version 17 between adding
`order_number` and creating its index never gets the index; a mixed order whose
number of the other year is taken stays mixed. A second phone of a customer is
not barred with the first, a scope other than "all" is recorded but read by
nobody, and the gate loads open if its read fails. A corrected export with fewer
lines leaves the old ones; new imports have no costs until the next
`POST /costs`. Churn counts a returned line as a purchase, and `replenish`
ignores purchases of the snapshot's day. The gate compares ids, codes and phones as texts (`register.py:58`,
`permission.py`): a file code spelled like another customer's number bars both.
Migration 17 computes only the totals of a
header anew whose copies it drops (`src/mktcore/db/migrations.py:387`), although its
docstring (:301) has the header recomputed from its lines: date and customer may stay
those of the dropped copy, until migration 18 has reason to touch the header. The table of effects that the engine
builds covers all businesses (`engine.py:522`), and an older chain may overwrite
the newer table of its date.

## 7. What is not modelled

* Analysis, forecasting, segmentation and the feature columns no model here
  reads: arithmetic on data frames without state of their own. The numerical
  fit of a model is a choice of metrics, intervals of revenue are left out.
* Ingestion and catalogue (parsing, column detection, normalisation): functions
  from files to frames. The models begin at the cleaned frame.
* Connectors, AI texts and reports: input, output and wording.
* HTTP views, serialisation, observability; the routes that change state belong
  to the components above.
* Frontend and Streamlit application: clients of the API.

Within modelled components: message texts and templates, costs per message,
scores and factors of cards, audit and event rows nothing reads to decide, AI
jobs, frames cached in memory, the correlation ids, product aliases beyond
their names, discounts of headers.

## 8. Plan

What is worth adding next: abstract specifications besides `Consent`, namely
*at most once* for reminders and for retries, implemented by `LegacyContact`
and `JobLedger`; an import and an upgrade on one ledger (`SchemaMigration` and
`LedgerImport` share the identity of a line, and the theorem that an import
after an upgrade finds every line again joins `UpgradeHolds` to `LedgerHolds`);
and a property for the five hazards that have none, whose notes in
`PROJECT.json` say what it would need.
