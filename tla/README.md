# A verification project for cflab

cflab is two Cloudflare Workers and their tooling. The Worker **cflab** (`src/index.ts`,
`src/app.ts`) serves human accounts, the apps and their machine tokens, records and files,
an outbound proxy, the Bitcoin Signals project and the operations console over two D1
databases and an R2 bucket. The Worker **cflab-analytics** (`src/analytics/index.ts`) serves
first-party analytics and collects Google Search Console reports over a third D1 database;
it reaches the accounts of the first Worker through a service binding. Paths of code in this file
are relative to the repository's `src/`; `docs/`, `scripts/`, `analytics-ui/` and configuration files are beside it.

There are no threads and no locks. A D1 statement is atomic and so is a `db.batch`; an R2
call is atomic; a mail is one call to a provider. Everything between two `await`s of a
handler is local. So concurrency here is *requests that interleave at every await*, and
failure is *a request that stops between two awaits*: a rejected input, a failed statement or
an evicted isolate. Every module takes exactly that as its grain: **one action per statement,
batch or provider call; a request in flight is a record of its program point and its locals;
a request may stop at any program point.**

## 1. Inventory

| Component | State | Operations | Talks to | Hard behaviour | What makes it correct |
|---|---|---|---|---|---|
| Human authentication: `auth/human.ts`, `auth/tokens.ts`, `routes/auth.ts`, `routes/admin-users.ts` | D1 `users`, `sessions`, `password_reset_tokens`, `project_memberships` | login, logout, change password, forgot/reset password, create, patch, revoke, invite, resend | mail, rate limits, every route that needs a session | rows read before a slow hash and used after it; claims that race; mail that fails after delivery; two admins editing each other | a link is used once, one link per account, an invitation only while there is no password, a link shown as sent arrived, always an active admin, no session outlives a deactivation or a password |
| Passwords, token digests, rate limits: `auth/passwords.ts`, `crypto.ts`, `ratelimit.ts` | none (bindings) | hash, verify, digest, admit | authentication | none of its own | cryptographic |
| Mail: `email/*`, `auth/mail.ts` | none | send | authentication, alerts | accepted but reported as failed | callers' properties |
| Records and files of an app: `routes/records.ts`, `routes/files.ts` | D1 `records`, `files`, R2 objects | create, read, patch, delete; upload, download, delete | R2 | two stores without a transaction, compensation, retries | a row has its bytes; bytes without a row have a cause; archived records stay |
| Apps, machine tokens, project access: `routes/admin.ts`, `routes/projects.ts`, `app.ts` | D1 `apps`, `api_tokens`, `app_origins`, `project_memberships` | create, rotate, revoke, grant, remove | every app route | statement-level CRUD | a revoked token grants nothing |
| Outbound proxy: `routes/proxy.ts`, `proxy/policy.ts`, `proxy/dns.ts` | none | forward | the Internet | pure policy | only allowed targets |
| Public project APIs: `routes/public-safari.ts`, `routes/public-top-hat.ts` | records | read-only views, single insertions | records | none of their own | shape of the answer |
| Bitcoin Signals collection: `bitcoin-signals/collector.ts`, `alerts.ts` | D1 `BTC_SIGNALS`: locks, runs, observations, alerts, deliveries | hourly, daily and manual collection, alert evaluation and mail | providers, mail | leases outlived, duplicate crons, budgets read then spent, chunked inserts, death between recording and mailing | exclusion, budget, honest counts, no second mail |
| Bitcoin Signals reading and settings: `api.ts`, `queries.ts`, `market.ts`, `sources.ts`, `policy.ts`, `access.ts`, `status.ts` | `bs_settings` | queries, market model, provider parsing, settings update | console, UI | read-merge-write of the settings | statistics; no lost change |
| Analytics ingestion and maintenance: `analytics/collector.ts`, `sanitize.ts`, `maintenance.ts`, `reporting.ts`, `sites.ts`, `api.ts`, `auth.ts` | D1 `ANALYTICS`: raw events, event names, sites, five daily tables | collect, roll up, purge, retention setting, summaries | cron, accounts of cflab | purge in chunks beside ingestion, backlog of days, moving cutoff, count-then-insert | nothing deleted before it is counted; every event in the summary once; names of stored events listed; raw rows leave |
| Search Console collection: `analytics/gsc-collector.ts`, `gsc-properties.ts`, `gsc-client.ts`, `gsc.ts`, `gsc-reporting.ts` | D1 `ANALYTICS`: `gsc_sync_state` (lease, clock), `gsc_properties` (cursor), report tables | cron, manual run, daily pass, backfill | Google, cron | lease outlived, four batches per window, deferred windows, cursor against a moving floor, one clock for two kinds of run | exclusion; the backfill skips no day; the daily pass comes round |
| Operations console: `console/*.ts`, `console/page.js`, `routes/console.ts`, `routes/analytics.ts` | browser: chosen database, page, sections shown | sections, schema browser, workbench; views over registries and job history; the check of a statement | all databases | answers used in the order they come; comments and literals inside one another | what is listed is the chosen database's; next page continues the rows shown; read-only statements only |
| Backup and restore: `scripts/backup/*` | objects of the backup bucket, manifests | dump, verify, trial restore, upload, freshness report, drills; mirror of the files, recovery report | D1, R2, a second bucket | requests of a dump beside writers and migrations, death between three uploads, expiring objects, parallel copies of a moving bucket | a stored backup is one moment of the database, what was verified loads, a fresh one restores, drills spare production, a settled file version is recoverable |
| CI and release: `.github/workflows/ci.yml`, `scripts/ci/*`, `verify-production.mjs`, `verify-drift.mjs` | ledger of three databases, two published Workers, the run | gate, apply, publish, verify, summarise, drift check | Cloudflare, operators | steps that fail after their effect, re-runs of old commits, two Workers that cannot change together | schema before code, only approved content, SUCCESS means released, no false all-clear |
| LabBox migration: `scripts/migrate/*` | snapshot, D1 rows, R2 objects | export, import, repair, reconcile | LabBox, wrangler | scripts that stop anywhere and are repeated, writes on both sides | a cut-over loses nothing, a match means complete, links resolve |
| User interfaces: `analytics-ui/*`, `bitcoin-signals/dashboard.js`, `ui.ts`, `navigation.js` | browser: site, filters, tab, panels, forms, epoch | switch, filter, open a tab, submit, sign in and out | the APIs | late and reordered answers, sessions that expire under a request | what is shown belongs to what is chosen; controls come back; changes show |

## 2. What is modelled

    SetupLinks  <--refines--  HumanAuth               HumanAuth_proofs
    FileStore, LabboxMigration
                              together in MCAppData   FileStore_proofs
    Leases  <--refines--  SignalsCollector            Signals_proofs
    AnalyticsEvents  <--extends--  AnalyticsMaintenance   Analytics_proofs
    Leases  <--refines--  GscCollector                Gsc_proofs
    D1Backup, FileMirror      together in MCBackup    Backup_proofs
    Release                                           Release_proofs
    AnalyticsUi, ConsoleUi, SignalsUi, SqlStatement
                              together in MCUi        Pages_proofs

On the right is the module that proves about the components on its line. Each `MC*` module EXTENDS a component's module with symmetry sets and state constraints; each
`.cfg` gives the sizes. The components that interact in the program do so through database
rows, so a module contains all the handlers that touch one group of rows. The two
collections and the maintenance share neither rows nor leases, so they are not composed; the
maintenance and the ingestion do share rows, and `AnalyticsMaintenance` composes them.
`MCAppData`, `MCBackup` and `MCUi` put side by side what does not run together: one run checks the service and
the migration that fill the same tables and bucket, one both jobs of the backup workflow, and one the
three pages and the statement check.

Some definitions are marked as a *mutant of* the definition after it: a plausible bug (a
dropped guard, a forgotten table, an off-by-one). `PROJECT.json` pairs each with the
property that must fail once it is put in the other's place. No specification uses one.

### HumanAuth, and the abstract SetupLinks

State: `users`, `tokens`, `sessions` are the tables; `req` maps a slot to the request in flight.
`tokens[t].expired` replaces the clock; `mailed` and `sessions[s].cred` (the password the login
had verified) are history variables the properties read. A `sent` invitation stores the token whose
`expires_at` the code copies.

| Actions | Code |
|---|---|
| `LoginVerify`, `LoginInsert`, `Logout`, `SessionExpires` | `routes/auth.ts` login, logout; `auth/human.ts` `createSession`, `sessionUser` |
| `ChangeAuthenticate`, `ChangeVerify`, `ChangeWrite` | change-password: session check, read, batch |
| `ForgotRead`, `ForgotIssue`, `ForgotMail` | forgot-password; `issueResetToken` is one batch that spends the siblings |
| `ResetRead`, `ResetClaim`, `ResetWrite` | reset-password: validation, conditional claim, credential batch after the hash |
| `AdminStart`, `CreateUser`, `PatchRead`, `PatchCount`, `PatchWrite`, `RevokeSessions`, `ResendRead` | `routes/admin-users.ts`; each handler first authenticates, then reads, counts and writes in separate statements |
| `DeliverIssue`, `DeliverMail`, `DeliverUndo`, `DeliverFailed`, `DeliverSent` | `deliverInvite`: issue, mail, spend the link of a failed mail, record the outcome |
| `Stop` | any early end |

`SetupLinks` has neither tables nor requests nor mail: a link is `none`, `live`, `claimed` or
`dead`; it can be issued (retiring the account's others), claimed (an invitation only
while there is no password), redeemed (setting the password) or voided; a password can also
be changed by somebody who knew it. `HumanAuth!LinkState` is the refinement mapping. A row that
has expired but was validated by a request before it expired counts as live: the claim compares
the expiry with the time the handler read at validation (`routes/auth.ts:155-167`), and the mapping says so.

### FileStore

`records`, `files` (D1), `objects` (R2), the requests in flight, and `abandoned`, the history of uploads
that died with an object in place. `UploadStart` reads the row; `UploadNew`, `UploadRepeat`, `UploadPut`,
`UploadInsert`, `UploadInsertFails`, `UploadUndo` follow `routes/files.ts`; `DeleteFind`, `DeleteObject`, `DeleteRow`
the deletion; `CreateRecord`, `PatchRecord`, `DeleteRecordRead`, `DeleteRecordWrite` are `routes/records.ts`.

### SignalsCollector

Runs of the collection jobs, one at a time or overlapping. A run reads the clock once, asks for the lease
(`AcquireLease`, `LeaseHeld`), reads the active sources, checks the interval (`RecentRun`, crons only) or the
manual budget (the conditional insert `Reserve`, `RateLimited`), fetches (`SourceFailed`, `SourceFetched`),
inserts in chunks (`InsertChunk`, `SourceDone`), finishes, evaluates alerts (`RecordAlert`, an insert that
ignores known keys), mails the new ones (`StartDelivery`, `Deliver`, `RecordDelivery`, `Delivered`) and releases
its lease (`ReleaseLease`, conditional on the run id). `Fail` and `Abort` are a caught exception, `Die`
an isolate that is gone. Which conditions raise an alert is a free choice.
`VerifyDevelopment` is the one alert outside the jobs: an administrator verifies a development, and the
request records and mails the alert by the same steps, without a lease.

### Leases

Two components run unattended and may overlap, and each guards itself with a lease in a database row:
`bs_job_locks`, one row per job, and the single row of `gsc_sync_state`. `Leases` says what both promise, without
rows, clocks or owner ids: a user takes a resource only while its lease is not in force, leaves with or without giving it back,
and one that has outlived it leaves its successor's alone (`Take`, `TakeTooLate`, `Finish`, `FinishLate`, `Expire`).
`SignalsCollector!Lease` maps the lock table and the clock to it, `GscCollector!Lease` the owner and the expired flag; in both
`work` is the runs past their acquisition and `late` those that have outlived it. `TakeTooLate` is
an acquisition whose answer comes when the lease it was granted is already over.

### AnalyticsEvents and AnalyticsMaintenance

`AnalyticsEvents` is the ingestion: a custom event's name is looked up, counted against the
limit and inserted in three steps (`NameExists`, `NameCount`, `NameAdd`), the event is inserted
(`InsertEvent`, `InsertIgnored`), and the legacy copy of an old client is written (`WriteLegacy`).
`AnalyticsMaintenance` adds the hourly run: roll up the last days (`RollUpRecent`), list the expired
days that still have raw rows (`ListExpired`, which gives up beyond the limit), roll each up
(`RollUpExpired`), purge in chunks (`PurgeStart`, `PurgeChunk`), and `SetRetention` for the owner's setting.
`JobStops` is a run that fails or dies. `Summary(cutoff)` is the total the dashboard computes from
raw rows and daily totals. One Site and one daily table stand for all: the Sites are
independent, and the five tables are written by one batch from the same rows.

### GscCollector

The lease, clock and cursor rows, the days stored per property, and collections in flight.
A cron reads the state and decides the scope (`CronRead`, `NotDue`, `CronDecide`); an administrator
starts one under the budget (`ManualStart`); `AcquireLease`, `ReadSync`, `ReadProperties` load what the run
works with; per property `Register` plans its windows, `WriteTotals` and `WriteDetails` store a
window, `Defer`, `WindowFails` and `RegisterFails` are the early ends, `MarkSuccess` writes cursor and completeness; `FinishSync`
moves the clock; `ReleaseLease`, `Throw` and `Die` end it. `LeaseExpires` and `Tick` are time. `trouble` is the history of what went other than usual, which the properties
except: a cron not served, a property not listed, a manual run, two collections under way at once. The reports of a
day are two facts, *totals stored* and *details stored*, which is as much as the order of the
four batches can tell apart.

### D1Backup and FileMirror

`D1Backup` is the daily dump of one database beside the Workers (`InsertRows`, `DeleteRows`: one transaction
touches every table) and a release (`Migrate`). The job is `StartRun`, `LiveState`, `ReadSchema`, `ReadRows` (one
request for all tables), `ReadSequence` (another one, which may fail), `VerifyDump`, `TrialRestore`, three
`Upload`s and `ReportFreshness`; `Abort` ends it anywhere. `OrderTables` is `orderTablesByDependencies` (`Sorted`, `Place`, `Pass`), `Replays` says
when the SQL of a dump loads with foreign keys on. `RemoveObject` is what the bucket's rules allow,
`SetupOK` the policy check, `RestoreDrill` a restore into whatever binding a configuration resolves to.
`FileMirror` is the mirror of the file bucket: list, plan, then workers that take, get and put objects
(`TakeNext`, `GetObject`, `PutMirror`, `RequestFails`) while `WriteObject` changes the source; `WriteManifest` and
`VerifyMirror` end a run. `LockEnds` and `ExpireMirrored` are the lock and the lifecycle rule the backup bucket must have for
`files/` (`verify-setup.mjs:31-40`): an object cannot be removed for a time from the PUT that stored it (30 days), and some time
after that it is (400 days). Ages are not counted, only whether the lock still holds (`locked`). `covered` is the history of versions
that sat still through a run, `lapsed` that of the covered ones the rules have removed since.

### Release

A run of the workflow for a commit: `StartRun`, `VerifyTarget`, `GateCheck`, then per database `GateList`, `GateApply`,
`GateConfirm`, then `Publish` and `Verify` for each Worker, `Summarise`. Every stage may fail before or after its
effect. A migration's content is a sequence of statement forms, classified by `ClassifyMigration` and
compared with the approvals in `Blocked`. `Push`, `RunAgain` and `OperatorApplies` are people, `Propagate` the edge.
`ReadPrimary` and `ReadAnalytics` are the two requests of the drift check. The ledger names files, as wrangler's does: a
migration that was edited after it was applied still counts as applied.

### LabboxMigration

The exporter (`StartExport`, `CollectComplete`, `DownloadFiles`, `WriteSnapshot`), the importer (`BuildImportPlan`,
`AppInserts`, `RecordInserts`, `FileInserts`, `Upload`, `FinishImport`), `Sync` and, as state predicates, `Reconciles` and
`DiffSnapshots`. `LabboxWrites` and `CflabWrites` go on meanwhile; `ExportDies` and `ImportDies` stop a script.

### AnalyticsUi, ConsoleUi, SignalsUi

A page is its page-wide state, the requests in flight with what they captured, and one
action per event handler or answer. `AnalyticsUi` has the epoch (`cur` of a request), the tabs and filters
(`SetTab`, `ChangeFilters`, `ChooseCustom`, `PopState`), the switch of site (`ChooseSite`, `Select*`), the panels' answers,
the settings forms and the sessions (`SignIn`, `SignOut`, `Unauthorized`). `ConsoleUi` is the sections, the schema
browser and the paged workbench. `SignalsUi` adds a server that handles a request at some moment before
its answer (`Serve`), so that a section can be older than a change.

### SqlStatement

`console/sql.ts`: one action per kind of token the tokenizer reads, then `Judge`, the rules over the
tokens. `ReadsOnly` is the reference: the text read symbol by symbol in a mode (plain, in a string, in
a comment, ...) without lookahead; a word begins with a word's symbol and goes on through numbers (`Part`). The two texts on
which the code and the reference differ have names: a comment right after a number that ends in "e" (`SignTakesComment`)
and a numbered parameter (`NumberedParameter`); section 5 says what happens to them.

## 3. Runs

| Run | Configuration | Shows |
|---|---|---|
| `auth_overlap` | two overlapping requests, two links | `OneUnusedLink`, `ClaimIsExclusive`, `ValidatedInviteIsCurrent`, `SentInviteArrived` and the refinement of `SetupLinks` hold however requests overlap |
| `auth_serial` | one request at a time, which may stop anywhere | `SomeActiveAdmin`, `InactiveHasNoSession`, `SessionsHaveCurrentPassword`: each handler alone keeps the promises of `docs/AUTH.md` |
| `app_data` | the service, one request at a time, stopping anywhere, clients retry; or the migration, with two exports, two imports and one change on each side | `RowHasBytes`, `OrphanHasCause`, `ArchivedUnchanged`; `CutoverLosesNothing`, `ReconciledIsComplete`, `LinksResolve` |
| `signals` | two jobs, two runs, chunks and alerts | `ManualBudget`, `AddedIsStored`, `MailedOnce` and the refinement of `Leases` by `SignalsCollector` |
| `analytics` | three events, four days, two retentions | `EventNamesListed`, `PurgedWasRolledUp`, `SummaryCountsAll` |
| `gsc` | a cron and a manual run per tick, trouble in the first two ticks | `BackfillLeavesNoGap`, `DailyPassWhenSmooth` and the refinement of `Leases` by `GscCollector` |
| `gsc_starved` | a property Google does not list; violated | the backfill moves the daily clock for ever and the daily pass never comes (`DailyPassHappens`) |
| `backup` | two dumps, or mirror runs with two workers | `StoredIsSnapshot`, `SequenceCoversRows`, `FreshIsUsable`, `VerifiedDumpLoads`, `CoveredUntilExpiry` |
| `release` | four commits, re-runs, operators, drift checks | `SchemaCoversWorkers`, `AppliedIsApproved`, `SuccessIsReleased`, `DriftOkWasTrue` |
| `ui` | three pages with two or three requests in flight, and 27 thousand statements | `PanelsFollowSite`, `PanelsFollowFilters`, `WorkbenchIsConsistent`, `ChangesAreShown`, `ControlsComeBack`, `AcceptsOneSelect` |
| `ui_switch` | the same; violated | a tab opened during a switch of site is shown for the old site (`SwitchShowsSelected`) |
| `sql_comments` | the same; violated | a comment right after `0xe` is read as SQL (`CommentsAreRemoved`) |

**Bounds, and why they are enough.** The interesting case of every property needs two actors
on one row, or one actor and its own earlier crash, and the sizes give it that and a little
more.

- *Accounts.* Two accounts: the administrator and another. `auth_overlap` keeps Root as a pure
  administrator with one session (`RootOnlyAdministers`), so that the other account's links are
  what interleaves; sessions and passwords are in `auth_serial`. Rows are never deleted, so a
  finite set of links or sessions runs out and the overlap run may stop.
- *Files.* Two ids, two contents: same id with the same bytes, with other bytes, and another id.
- *Signals.* One tick, longer than an hour and than a lease (`TTL = 1`, `Window = 0`): every run either
  began in it or before it, a lease can be outlived, and two runs over two jobs meet at every
  step. The runs have one source: the sources of a run are processed one after the other, and a
  second one adds only the status `partial`, which the interval check and the counts treat like `ok`.
  A run that dies leaves its lease behind and the other takes it over after the tick. `RowsOrAlerts` separates
  what does not interact: a second observation of the source, and the alerts and their mails.
- *Analytics.* Limits of one (`MaxNames`, `ExpiredDays`, `Chunk`) and two chunks per run put every limit
  within reach of three events. `NamesOrDays` separates what does not interact: the registry
  race within the first day, the days with maintenance afterwards. A day ends only when no
  collection is in flight.
- *Search Console.* Three ticks a day, chunks of three days in six days of retention: two chunks
  to the floor, and a floor that moves while they are collected. A cursor the floor
  overtakes is kept out by the sizes; see section 6. A tick ends when nothing is in flight:
  a collection never lasts an hour, but it can outlive its ten-minute lease at any point
  (`LeaseExpires`). `TroubleAtFirst` keeps overlaps and failures to the first two ticks.
  `DailyPassWhenSmooth` allows two days because a cron that takes a backfill chunk moves the clock.

- *Backup.* Three tables, one of them added by a migration: a child that sorts before its parent, so
  that the order matters. One row and two dumps: a row that comes or goes between two requests, and an
  older backup beside the newest. Lock and freshness in days (`MinLock = 2`, `MaxAge = 1`), a clock of two.
  Two keys, two contents and two workers for the mirror, a limit of two objects; the backup bucket holds three versions at
  once (`MaxMirrored`: both of one key and one of the other), one lock runs at a time (`MaxLocked`), and one covered version has
  expired at a time (`MaxLapsed`).
- *Release.* Four commits: an additive one, a forbidden migration approved for another content, the edit
  that gets it approved, a broken configuration. Older runs may be run again at any time. An upload is
  served before the validation of the next run ends (the validation takes minutes); rollbacks by
  operators are not modelled.
- *Migration.* Three records with two files in two datasets of two apps, one file malformed, and SQL
  files of one statement, so that an import can stop between any two. The operator runs one script at
  a time; the content of a file never changes; a SQL file is applied whole or not at all.
- *Pages.* Three clicks and two places for requests: a switch, a tab during it, and what follows; two
  sites of which one has a domain, two ranges, two initial addresses. A second report tab would
  behave as the first. Two databases and two pages in the console, one change in the signals page.
- *Statements.* All texts of up to three of the 17 symbols, `SELECT` followed by up to five of the seven symbols that
  open or close something, and `SELECT` and white space followed by up to four of those that meet in and after a number. White
  space is one symbol, and the backtick behaves as the double quote. Of numbers only one thing matters, whether they end in
  the letter e; a point or a plus sign in one is left out.

**Fairness.** The `ui` runs assume that the browser ends every request, with an answer or an error:
weak fairness of `AnswerArrives` per request, which is what `fetch` promises; nothing is assumed of the
user or of the order. The daily pass of Search Console is an "eventually" stated with a deadline
(`now - daily <= TwoDays`) because the code's own rule is a comparison of times, so no
fairness is needed for it. `AnalyticsMaintenance!FairSpec` states weak fairness of the maintenance in
behaviours where no run fails: the cron fires every hour for ever (`wrangler.analytics.jsonc`); it serves
`RawRowsExpire` (section 5).

## 4. What is proved

Every invariant and every refinement of a passing run is a theorem. A run shows it for two requests, sites or days; the theorem for **every** set of accounts,
files, jobs, tables, commits, sites and requests in flight, for all limits, windows and times, and for
behaviours of any length. The hypotheses are the named `ASSUME`s of the modules, which TLC evaluates in
every run: numbers are numbers and `None` is nothing else, plus what the code fixes, each named below.

| Module | Theorems | Beyond types of constants |
|---|---|---|
| `HumanAuth_proofs` | `Invariance`, `TypeCorrect`, `LinksAreUnique`, `ClaimsAreExclusive`, `InvitesAreCurrent`, `SentInvitesArrived`, the refinement `Implements`; `SerialPatchesKeepAdmin`, `SerialAccountsLogOut`, `SerialAccountsRenew` | Root is an account with a password |
| `FileStore_proofs` | `FileStoreTypes`, `SerialRowsHaveBytes`, `SerialOrphansHaveCause`, `ArchivedStay`; of the migration `CutoverIsComplete`, `LinksOfImportResolve`, `ReconciledIsWhole` | LabBox is finite (`DataIsFinite`) |
| `Signals_proofs` | `SignalsTypes`, `LeaseIsKept`, `ManualRunsAreLimited`, `ReportedIsStored`, `AlertsAreMailedOnce`; the refinement `SignalsLeases` and, from it, `OneRunInTime` | there is a job; finitely many observations |
| `Analytics_proofs` | `AnalyticsTypes`, `NamesAreListed`, `PurgedRolledUp`, `TotalsSettle`, `SummaryIsComplete` | finitely many events; retention, chunk and limits are positive |
| `Gsc_proofs` | `GscTypes`, `LeaseIsHeld`, `BackfillIsGapless`, `DailyPassComesRound`; the refinement `CollectionLeases` | windows and intervals are positive; a day has more crons than the longest backfill has chunks, and the daily pass is due within a day (`PaceAssumption`) |
| `Backup_proofs` | `BackupTypes`, `BackupIsSnapshot`, `BackupCoversRows`, `FreshBackupIsUsable`, `VerifiedDumpsLoad`, `DrillsAreIsolated`; of the algorithm that orders the tables `CyclesAreReported`; of the mirror `CoveredRecoverable` | the lock the setup check demands outlasts the freshness limit (`LockOutlastsFreshness`); a mirror run has a worker (`CopiersExist`); a schema is finite and no table references one that only a pending migration creates (`SchemaIsFinite`, `ParentsComeFirst`) |
| `Release_proofs` | `SchemaCovers`, `AppliedApproved`, `SuccessReleased`, `DriftTrue` | a migration file belongs to one database, and later commits keep it (`FilesHaveDatabases`, `CommitsKeepFiles`) |
| `Pages_proofs` | `PanelsAreOfSite`, `PanelsAreOfFilters`, `WorkbenchAgrees`, `ChangesBecomeVisible`; of the statement check `OneSelectIsRun` | the initial range is one of the ranges, "all hosts" is no host; a text is a sequence of symbols (`TextsAssumption`) |

`LeaseIsKept` and `LeaseIsHeld` state the exclusion of each collector, `LeaseExcludes`; the runs show it through the
refinement of `Leases`, which every early or foreign release breaks. `DrillsAreIsolated` states
`DrillsSpareProduction` for every configuration of a restore drill; it is one check before one write, and no run is spent on it.

`PaceAssumption` is about numbers the code fixes: chunks of 30 days and 24 crons a day cover 720 days, the
retention leaves 472 days behind the reconciled ones, and the daily pass is due after 20 hours. Without it `DailyPassWhenSmooth`
is false: every chunk moves the clock the daily pass goes by, so a longer history would hold the pass up for longer.

**Promises of one request at a time.** `auth_serial` and `app_data` check five promises with a single
request in flight, and section 5 shows how overlap breaks them. The proofs say how much overlap they bear:

- `SerialPatchesKeepAdmin`: `Spec /\ []PatchesSerial => []SomeActiveAdmin`. It is enough that no two PATCH requests
  are between their count of the administrators and their write; logins, resets and invitations may overlap at will.
- `SerialAccountsLogOut` and `SerialAccountsRenew`, under `AccountsSerial`: no two requests in flight about *one* account.
- `SerialRowsHaveBytes` and `SerialOrphansHaveCause`, under `FilesSerial`: no two requests in flight about *one* file.

Each hypothesis admits the behaviours of the serial run and many more, and none of the five holds without
it. `ArchivedStay` and all other theorems need none.

**The inductive invariants.** Hardly any of the properties is inductive: a step acts on locals read several steps
before, and the property says nothing of them. Each proof adds what is left of those locals.

- `HumanAuth`: `Inv` adds `LocalsOK` and `RowsOK`. The account and the link a request names still exist, the link belongs
  to the account, a claimed link is still used, a mailed link was mailed; an absent account is empty and inactive,
  without which creating an account could resurrect a link. The heart is `ValidatedInviteIsCurrent`: a validated
  invitation still unused belongs to an account without a password *because* every statement that sets a
  password through a link spends all the account's links in the same batch. `Implements` maps each action to
  a step of `SetupLinks` or a stutter under `Inv`. For the serial promises, `AdminInv` says that a PATCH past its count
  still leaves an administrator, `SessionInv` that what a login verified and a PATCH read is still so.
- `FileStore`: `TypesOK /\ StoresAgree`; a pending insertion has its bytes in place, a pending deletion has removed them.
- `LabboxMigration`: `MigrationInv`. What an export has collected agrees with LabBox unless somebody wrote (`ExportOK`); what an
  import no longer has to insert is there (`ImportOK`); all CFLab has comes from a snapshot some import
  began with (`PastOK`), from which equal cardinalities give equal sets.
- `SignalsCollector`: `Inv` says per run that it has the lease unless it outlived it, that its counter and the rows under its id
  differ by the chunk at hand (`AddedOf`), and that the alerts on its list are its own and unmailed (`MailOf`).
- `AnalyticsMaintenance`: `Inv` is about ingestion and purge: a run's cutoff is in the past and what it has not rolled up is
  still on its list. `TotalsOK` adds the counts: a day that lost raw events has a total equal to
  all it ever stored, unless a purge stopped half way. `TotalsSettle` is the day-by-day statement between it and the sum.
- `GscCollector`: `Inv`. What a collection planned and no longer has to do is stored (`WindowsOK`), the rows it works with are
  current (`ReadOK`), and one collection at a time is inside unless they overlapped (`OneInside`).
  For the lease, `Owned` adds that whoever is inside and not late owns the row. `SmoothInv` is the invariant of the daily pass,
  claimed while `trouble` is empty: collections are alone and every tick begins with a cron. Either the backfill is at work
  in the first day, every property having gone one chunk further down with every tick (`Reached`), or all are complete and
  the clock shows a daily pass; `PaceAssumption` says that the chunks end before the first day does.
- The refinements `SignalsLeases` and `CollectionLeases` map every step to a step of `Leases` or a stutter; the one that matters is
  the release by a run that is late: its statement names the owner and must change nothing.
- `D1Backup`: `BackupInv`. The dump in the making is one moment and its counter is beyond it (`DumpOK`), so is every stored one
  (`StoredOK`), and an object whose lock has not run out is there (`LockedOK`). For `VerifiedDumpsLoad`, `LoadInv`: every row in the
  database has the rows it references (`SchemaOK`), the tables listed come after those they reference (`OrderOK`), whatever
  tables a migration has added since they were listed, and the rows read keep their references (`RowsOK`).
- `FileMirror`: `MirrorInv`. Every listed key of lower rank than the keys taken so far is mirrored or in the hands of a worker
  that holds what is in production (`MirrorSoFar`); a worker that is done says that nothing is left to take. What the run found
  mirrored when it began may have expired since, but not if it is in production and sat still (`StillHeld`).
- `Release`: `Inv`. The databases before the one at hand are done (`GateDone`), and the Analytics Worker is behind its upload only
  while the primary Worker serves that very revision (`ReleaseOrder`), which is why a drift check of two
  requests tells the truth.
- Pages: what is *on its way* agrees with the header as what is shown does (`DashboardInv`, `WorkbenchInv`); in the signals page a
  part is current or will be loaded again after the server has stored the change (`SignalsUiInv`).
- `SqlStatement`: `SqlInv`, or the text is one of the two excepted. Where the tokenizer stands, the reference is outside of every literal and comment with no pair of
  symbols half read (`Ready`), or has run into the end in a line comment; the tokens are those of the text so far, and every
  symbol before the index is in one token or blank (`Read`). Each kind of token keeps it: `LineReads` and `BlockReads` walk up a
  comment, `QuoteRuns` comes down from the end of the text as `QuoteEnd` does, and `NumberReads` is where a sign
  at the end of a number must not begin a comment. At the end the rules over tokens
  are the rules over symbols (`JudgedReads`, `ReadsJudged`), and the modes of the part that is cut out are those
  it has in the text (`CutModes`), so it passes the same reading (`ExecutedReads`).

**Induction over data.** The induction theorems of the library take a predicate as a parameter, which the provers cannot instantiate.
`LeastNatural` takes the well-founded order of the naturals instead, whose theorem (`WFMin`) is about sets; from it follow
`SetInduction`, `UpwardInduction` and `DownwardInduction`, and with them that a recursive function exists (`ReadingExists`,
`EndingExists`) and what its values are. `Backup_proofs` does the same for the loops of `orderTablesByDependencies`: `Interval`
is the induction, `LoopExists` says that the states of a loop exist, `SortedLists` that a finite schema has an alphabetical
listing, `PassKeeps` what one pass over it does, and `CyclesAreReported` that the passes place every
table unless some tables reference each other in a circle, which `Acyclic` states without the algorithm.

Each of them was checked by TLC as an invariant of the component's run before it was proved.

**What the proofs found.** `Gsc_proofs` did not go through until overlapping collections were excepted from
`BackfillLeavesNoGap`: once a collection has outlived its lease and another one took over, it may write back the cursor it
computed from the row it read at its start, over one the other has written since. TLC shows it with two
properties and chunks of one day; with the sizes of `gsc` it could not happen, so the run alone had called the
property true. `trouble` now records an overlap. In `Release`, the conditions of `Verdict` and of `ReadAnalytics` overlap, and a
`CASE` leaves open which one wins; they follow the order of the code now.

**Only model-checked:**

- `ControlsComeBack` and the other liveness properties: fairness and `ENABLED` are out of this prover's reach;
- the properties of section 5, which do not hold.

## 5. Where code and text disagree

Three runs show it, each with the line it quotes in `PROJECT.json`: `gsc_starved`, `ui_switch` and `sql_comments`. For six more the
property is in its module, and TLC refutes it once one line of a configuration is changed:

| Property | Change | What happens |
|---|---|---|
| `HumanAuth!SomeActiveAdmin` | `auth_serial` with `Requests = {r1, r2}` and `CHECK_DEADLOCK FALSE` | two PATCH requests count each other's administrator and leave none (`routes/admin-users.ts:140`) |
| `FileStore!RowHasBytes` | `app_data` with `Requests = {r1, r2}` | the loser's compensation deletes the winner's bytes (`routes/files.ts:74`) |
| `AnalyticsMaintenance!TrendsSurvive` | `analytics` with this invariant | a purge cut short lets the next roll-up replace a total by an undercount (`analytics/maintenance.ts:30`) |
| `AnalyticsMaintenance!RawRowsExpire` | `analytics` with `FairSpec`, without symmetry | more expired days than one run takes are never rolled up (`analytics/maintenance.ts:29`) |
| `D1Backup!LedgerMatchesSchema` | `backup` with this invariant | a migration between `scripts/backup/d1-export.mjs:93` and `:100` is in the ledger of a dump without its table |
| `Release!UnchangedIsUnchanged` | `release` with this invariant | "production is unchanged" after migrations were applied, or after an upload whose step failed (`scripts/ci/release-summary.mjs:52`) |

Others were met while modelling and are recorded here:

- `routes/auth.ts:64` verifies a password and inserts the session later; a password change in
  between revokes the sessions there are, and the old password's session appears after it
  (`docs/AUTH.md:53`). `SessionsHaveCurrentPassword` therefore holds one request at a time only.
- `routes/admin-users.ts:147` revokes sessions depending on `row.active` as it was read: a deactivation that
  overlaps a reactivation may leave usable sessions behind. `InactiveHasNoSession` likewise.
- `routes/files.ts:106`: a deletion that dies between object and row leaves a row without bytes, and a
  repeated upload of the same bytes is answered with success without restoring them
  (`files.ts:60-62`). `RowHasBytes` excludes half-deleted rows for that reason.
- `docs/API.md:95`, `docs/API.md:130` and `docs/ARCHITECTURE.md:72` call the deletion of a record permanent;
  `routes/records.ts:78-87` archives it.
- `docs/BITCOIN-SIGNALS.md:393` says the lease makes overlapping runs impossible; it does for ten
  minutes. `LeaseExcludes`, a theorem of both collectors, says exactly that.
- `bitcoin-signals/alerts.ts`: an alert recorded by a run that dies before mailing is never mailed, since later
  evaluations find it recorded. No text promises otherwise.
- `analytics/gsc-collector.ts:586`: a daily run stores a null cursor, so the next backfill or full run begins the
  history again, also of a property that had reached the retention floor. Work is repeated;
  no day is lost (`BackfillLeavesNoGap`).
- `analytics/gsc-collector.ts:631`: a collection that outlives its lease may still write the cursor it computed
  from the row it read at its start, over one its successor has written. `BackfillLeavesNoGap` excepts overlaps.
- `analytics/gsc-collector.ts:644`: a cursor the retention floor has overtaken leaves the property incomplete
  for ever, which keeps the backfill pending.
- `fetchWindow` says that a window is stored completely or not at all; its reports are
  written by separate batches. The cursor moves only after all of them, so nothing is skipped.
- `analytics/reporting.ts:57`: raising the retention moves the cutoff before days whose raw rows are gone, and
  the summary no longer reads their totals. `SummaryCountsAll` names it as an exception.
- `analytics/collector.ts:50-55`: concurrent requests with new names count before any of them inserts;
  the registry can exceed its limit by one name per request in flight.
- `scripts/backup/r2-mirror.mjs:65` counts an object that is mirrored already against `--limit`.
- `docs/BACKUP-RESTORE.md:120` says of a replaced object "any earlier version preserved". The mirror keeps a version until the
  lifecycle rule removes it, 400 days after the PUT that stored it (`BACKUP-RESTORE.md:132`). A later run that finds the object
  skips it (`r2-mirror.mjs:75-78`) and renews neither its age nor its lock: the copy of a file that sat in production for 13 months
  expires when it is due, however recently a manifest named it, and if the file is replaced before the next daily run, its
  old version is gone. `CoveredUntilExpiry` promises a version until its expiry only; one that is still in production is
  stored again by the next run.
- `scripts/backup/verify-setup.mjs:67` does not look at whether a lock rule is enabled; `FreshIsUsable` and
  `CoveredUntilExpiry` assume it is.
- `scripts/migrate/import-cflab.ts:84` advises `--update`, but `lib.ts:208` then plans the differing record as an
  insertion, and the `INSERT` of a row that exists fails: such an import stops there. A file whose metadata is malformed keeps a
  rewritten URL without a row; `LinksResolve` excepts it.
- `console/sql.ts:5` says that the tokenizer removes comments. A number takes a dash that follows e or E (`sql.ts:128`), in a
  hexadecimal number too, where SQLite knows no exponent: of `0xe--` the number is `0xe-`, the second dash is a token, and
  what follows is read as if no comment had begun. A quote in that comment opens a literal SQLite does not see, so
  from there on the two disagree about what is text and what is SQL. `sql_comments` shows the comment; `AcceptsOneSelect`
  and `OneSelectIsRun` except these texts and say nothing about them. What the comment of the module adds is still in place:
  the derived table with its outer limit, and the check of the rows written afterwards (`sql.ts:15-17`).
- `console/sql.ts:12-13` says that placeholders are refused. A colon is one only before a word (`sql.ts:177`); before a number
  (`:1`), which SQLite takes for a parameter as well, it is accepted. The statement then expects a value nobody
  binds. `AcceptsOneSelect` excepts it.
- `analytics-ui/analytics.js:89`: a 401 of a request sent by an earlier session signs the new one out.
- `console/page.js:478` marks a section as loaded before its request succeeds, so a failed one is not tried
  again by opening it.
- `bitcoin-signals/dashboard.js:388`: a collection reloads the radar and the settings and not the arbitrage section, whose measured
  venues, basis and persistence stay as they were loaded although a collection is what changes them. `ChangesAreShown` excepts the
  whole section.

## 6. What is not modelled, and why

- Memberships and app access, machine tokens, the settings of Bitcoin Signals: statement-level CRUD;
  the settings route merges into what it read and promises no more.
- Hashes, digests and random tokens are taken as ideal: verification is equality, a new link
  is a link never seen before. Rate limits are a request that stops.
- Proxy policy: a pure function without state.
- Provider parsing, market model, statistics, report rows beyond which days are stored, the HTML and
  the account pages: no state and nothing for a model checker to interleave. In the analytics page also
  the live-session card with its timer; in the signals page the model form.
- An upload whose `INSERT` takes effect and is reported as failed: `routes/files.ts:73-76` then deletes the bytes of the row it
  has just stored. In `FileStore` a failed `INSERT` stored nothing, and `RowHasBytes` and its theorem rest on that.
- In a console statement, the letters a to f and x that a number takes from a word glued to it or to its sign (`1from`,
  `0xe-date`): in `SqlStatement` words begin with other letters. SQLite refuses a number glued to letters.
- A change of a Site's timezone, which can move the current day back.
- A Search Console cursor overtaken by the floor: with the real windows it takes three weeks
  without a collected chunk, with the sizes that fit a run a single day. `gsc` uses sizes at which one
  day cannot do it; the consequence is described above.
- Rollbacks of Workers, the local test mode of the importer, and what an operator does with a
  recovery report.

## 7. Plan

Done: every module of section 2, and the proofs of section 4. The order was by how much of the
system rests on it: accounts guard everything, files are the only data in two stores, the scheduled
jobs and the backup run unattended, a release and the migration change everything at once, and the
pages are what people act on.

Next, in this order:

1. `AnalyticsUi`: type correctness of the whole dashboard.
2. The apps, tokens and memberships, composed with the sessions of `HumanAuth`.
