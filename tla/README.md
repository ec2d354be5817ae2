# operations-api: models, checks and proofs

TLA+ modules for the operations platform in this repository, TLC configurations
that check them on small instances, and TLAPS proofs for every instance. Modules
follow the source: actions carry the names of the handlers, comments name the
code, and `PROJECT.json` maps every definition to the lines it stands for.

## 1. The system

An ASP.NET Core API (`Controllers/`, `Services/`, Dapper over PostgreSQL), a set
of Python sync and alert jobs (`sync/`) that Azure DevOps pipelines start on
schedules (`devops/pipelines/`), a browser frontend (`frontend/`), and SQL
migrations (`database/`) whose constraints, indexes and functions carry part of
the logic. The parts meet only in the database: there is no message queue, and
nothing but row locks, unique indexes and foreign keys orders one part's
statements against another's. Most service methods are several statements, each
committing on its own; only a few open a transaction, at READ COMMITTED.

| Component | State | Operations | What makes it hard | Correct when |
|---|---|---|---|---|
| Attestation (`AuditingService.SubmitAttestationAsync`, `CampaignService.CloseAsync`) | campaigns, packets, decisions | load, submit, close | overlapping transactions that do not see each other; a lost connection; row locks | an answer is stored whole and once; a campaign closes for a recorded reason |
| Reminders (`CampaignService.Remind*`, `SendDueRemindersAsync`) | `reminder_sent_at`, `email_log` | remind all, remind one, daily tick | a slow mail batch between a SELECT and its stamps; restarts; refused mails | the scheduler nudges once; only delivered mails are stamped |
| Launch (`CampaignService.LaunchAsync`, `AutoLaunchDueAsync`) | campaigns, packets, subjects, `auto_launch_log` | launch, scheduled launch, invites | checks before the transaction; two launches; a cut between commit and mails | one open campaign per application; everybody on the roster is routed |
| Application lifecycle (`AuditingService`) | `shared.applications`, bindings, nominees | patch, archive, restore, delete, bind, nominate | check-then-act against launches | archived means read-only and without an open campaign; history survives deletes |
| Sync tracking (`sync/common.py` `SyncContext`) | `system.sync_status`, `sync_history` | start, breaker check, complete, fallbacks | failing tracking, kills, skips that count as failures | failures count, the breaker opens at its threshold and lets a recovered sync run |
| Disk monitoring (`sync/disks`, `alert_disk_breaches.py`) | `disk_snapshots`, `disk_current`, `monitoring.alerts` | snapshot, refresh, page, resolve | cooldown, post-then-record, a stale view | a critical disk is paged at most once per cooldown and closed when it recovers |
| Licensing (`LicensingService`, `alert_licence_expiry.py`) | licences, `licensing.alerts` | create, patch, renew, delete, alert | a renewal between the alert's read and its record | every threshold of every term alerts once |
| Patch exclusions (`PatchExclusionService`, `alert_patch_exclusion_expiry.py`) | exclusions, alert log | exclude, extend, remove, alert | re-exclusion, the seven-day window | an expired hold is raised |
| Server inventory (`sync/servers`) | `shared.servers` | upsert, deactivate | the churn guard, a truncated source | a server missing once is not deactivated |
| Patching (`sync/patching`, `PatchingService`) | cycles, schedule rows | import, complete, edit | delete and insert, savepoints per row | counts agree with rows |
| Unmatched servers (`database/005`, `ServerService`) | unmatched, aliases, scan failures | resolve, ignore, alias, record | record racing resolve | an unresolved name is pending |
| Certificates, EOL, Confluence (`sync/certificates`, `sync/eol`, `sync/confluence`) | their tables | import | pagination, parsing | imports are idempotent |
| Alerts and mail (`sync/alerts`, `EmailService`, `AlertsService`) | Teams cards, SMTP | post, send batch | partial delivery | nothing is raised twice or lost |
| AD directory (`sync/auditing`, `AdDirectoryService`) | `ad_users`, memberships | import, search | groups missing from the extract | rosters follow the directory |
| Console data (`op-boot.js` `runFetches`, `api.js`, `op-app.js`) | the loaded lists, the error list, the DEMO ribbons | boot wave, retry, change of business unit, page filters, refreshes, offline edits | overlapping waves whose answers and failures land in any order | demo or local rows carry their ribbon; "API online" means what it says |
| Disks page (`op-pages.js`) | filters, loaded list and summary | filter, reset, reload | filters read twice, by the API and by the page; late answers | table and strip are what the controls promise |
| Server detail page | one cached bundle, one loading slot | open, leave, load, retry | one slot for every load; a load that ends for a page already left; addresses spelled differently that name one server | "loading" ends |
| Licensing page | the loaded licence, the open form | renew, edit, add, set status, remove, reload | writes given up that the API applies; rows changed before the API is asked | a quiet page shows what is stored |
| Patch Management page | `pmState`: wizard and bulk form, and the copy on the screen | wizard steps, submit, bulk, renew, release | elements and closures of an older render; a second click | a form sends what it shows; an answer is shown |
| Directory pickers | text, last query asked, last query answered | type, pick, bind | overtaken answers; a query is asked for once | the last query's answer is kept |
| Auditing page | the loaded application, two forms | register with groups, edit, archive, launch, close, reload | a registration of several calls, each of which may fail | a registration binds what was chosen; a quiet page shows what the API has |
| Console shell and read-only pages (`op-app.js`, rest of `op-pages.js`) | sort and filter settings | render | none: derived from the data above | what is drawn follows the data |
| Deployment (`devops/pipelines`, `database/007`) | `schema_migrations` | migrate, deploy, roll back | partial failure | a rollback leaves a running version |

## 2. Modules

Every module models whole handlers. A step is what one database statement, or one
transaction whose intermediate rows nobody can see, does; what a handler read
earlier and uses later is kept in variables of its own, so that other steps can
make it stale. A request of the console is a record that carries what was asked and
how far it has come; the API may serve it, refuse it or be given up on (15 seconds)
at any time. A `MaxFaults`-like constant bounds how often a connection, host or
agent is lost; the lost process loses its local variables and the database keeps
what was committed. Definitions whose name has a suffix after an underscore
(`MaySubmit_Partial`) are faulty variants of the definition without it: with them in
its place a property of the module fails, which shows that the property depends on it.

| Module | Models | Run by |
|---|---|---|
| `Attestation` | submission and closure of packets | `MCAttestation` |
| `AttestationRecord` | what the tables promise, one atomic step per answer | refined by `Attestation` |
| `AttestationProofs` | theorems about `Attestation` | TLAPS |
| `Reminders` | reminders beside `Attestation` (EXTENDS it, shares its tables) | `MCReminders` |
| `RemindersProofs` | theorems about `Reminders`, from those about `Attestation` | TLAPS |
| `CampaignLaunch` | launch, auto-launch, application lifecycle, AD sync | `MCCampaignLaunch` |
| `CampaignLaunchProofs` | theorems about `CampaignLaunch` | TLAPS |
| `SyncTracking` | `SyncContext`: status row, history, breaker | `MCJobs`, `MCSyncTracking` |
| `SyncTrackingProofs` | theorems about `SyncTracking` | TLAPS |
| `DiskAlerts`, `LicenceAlerts`, `ExclusionAlerts` | the three alert jobs that keep state, with the services and syncs that change what they read | `MCJobs`; `LicenceAlerts` also by itself |
| `JobsProofs` | theorems about those three and about the four jobs side by side | TLAPS |
| `Console` | waves, refreshes, error list and ribbons of the browser console | `MCConsole` |
| `DisksPage`, `ServerDetail`, `LicencesPage`, `ExclusionsPage`, `AdSearch`, `AuditingPage` | one page, or picker, of the console each | `MCConsole`; `ExclusionsPage` and `AuditingPage` also by themselves |
| `LicencesPageProofs`, `AuditingPageProofs` | theorems about these two pages | TLAPS |
| `ConsoleProofs` | theorems about `Console`, the other pages, and the seven modules side by side | TLAPS |

### Attestation

| Code | Model |
|---|---|
| `campaigns.status`, `.closed_by_packet_id` | `status`, `closedBy` |
| `attestation_packets.submitted_at / submitted_by_sam` | `submitter` (`None` is NULL) |
| `attestation_decisions` | `decisions`, a function from subjects to verdicts |
| an open transaction of `SubmitAttestationAsync` | `pc`, `target`, `caller`, `form`, `closes` |
| `LoadPacketAsync`, the identity, view and decision checks | `SubmitLoad`, `MaySubmit` |
| the claim `UPDATE ... WHERE submitted_at IS NULL` | `SubmitClaim`, or `SubmitLosesClaim` when it matches no row |
| decision INSERTs and the closure UPDATE | `SubmitClosure`, `ClosureApplies` |
| commit, or rollback and loss of the connection | `SubmitCommit`, `SubmitFails` |
| `CampaignService.CloseAsync` | `Close` |

PostgreSQL runs these transactions at READ COMMITTED: a statement sees what is
committed plus its own transaction's writes, and an UPDATE waits for the
transaction that holds its row. The first is modelled by writing the tables only
in `SubmitCommit` (with `ClosureApplies` counting the own packet as answered); the
second by the guards `PacketFree` and `CampaignFree`. The closure UPDATE
takes a row lock only if its WHERE clause matches, so a submission that does not
close holds none. An UPDATE that waited re-evaluates its WHERE clause on the
new row version; here it runs when the row is free, on the state it then finds.
The subquery `NOT EXISTS` is evaluated with the statement's snapshot, which for a
waiting statement is older than the model's. For the row it can only differ when a
concurrent closer committed, and then the campaign is closed and the UPDATE
matches nothing either way.

### Reminders

`RemindSelect`, `RemindCampaign` and `RemindPacket` are the two statements of the
operator's handlers, `TickSelect` and `TickCampaign` those of the scheduler.
`Deliver` is `SendBatchAsync`: the relay accepts any subset of the batch. A turn of
the loop after it is two statements that commit apart: `LogResult` writes `email_log`
and `StampReminder`, on success, `reminder_sent_at`; a crash may fall between them.
`shortDue` are the campaigns that LaunchAsync stamps
beforehand because their due period is too short to be nudged in. The dates
(`soon`) are any set of campaigns, on any tick. Submissions and closes are the
actions of `Attestation`, unchanged.

### CampaignLaunch

`LaunchRead`, `LaunchCheckOpen`, `LaunchReadRoster`, `LaunchPlan`, `LaunchPersist`,
`LaunchInvite` and `LaunchEnds` are the statements of `LaunchAsync` in their order; the
transaction is one step because nobody sees its rows before the commit and its
keys make conflicting writers wait (`InsertRefused`), while each invite's `email_log`
row is a step of its own. `TickSelect`, `TickLaunch`,
`TickRefused` and `LogAutoLaunch` are `AutoLaunchDueAsync`. The edits read
(`ArchiveCheck`, `DeleteCheck`, `EditCheck`) and write (`ArchiveWrite`,
`DeleteProbe`, `DeleteHard`, `DeleteSoft`, `EditWrite`) in separate steps, as the
code does. `AdSync` is the effect of `sync_auditing.py`. Packets are functions from
recipients to the subjects they vouch for.

### SyncTracking

`StartSync` is `__enter__`, `CheckCircuitBreaker` the breaker, `Work` the body of a
sync, `CompleteSuccess`, `CompleteError` and `RecordSkip` what `__exit__` writes,
`TrackingFails`, `FallbackUpdate` and `FallbackFails` its two fallbacks. Time is an
integer clock in units of the schedule; `last_failure_at` is kept as its age up to
the timeout, beyond which the code does not distinguish it.

### DiskAlerts, LicenceAlerts, ExclusionAlerts

Each job is: read (one or two queries), post (`http_request`, which may time out with
its card delivered and is tried again), record (one or two commits), with a fault
possible between any two. A disk is `critical` or `below`, tagged with a scope the
queries look at; a licence has crossed a threshold; an exclusion is held or due. The
services' writes (`Create`, `Patch`, `RenewRead`, `RenewCommit`, `Exclude`, `Extend`,
`Remove`, ...) happen between any two steps of a job. `overtaken` remembers the
thresholds a run marked as sent after a renewal had begun another cycle, which is what
`SentMeansSentThisCycle` is violated by and what `ThresholdIsAnnounced` excepts; that
one asks for a card of the cycle the licence is in at last, not for one of any cycle.
The jobs share no table with each other or with the tracked sync, so `MCJobs` lets a
behaviour choose one of the four instead of multiplying their states.

### Console

| Code | Model |
|---|---|
| the globals a feed fills (`SERVERS`, `DISKS_DATA`, ...) | `data[f]`: where the rows come from (`seed`, `live`, `edited`) and for which business unit |
| the error list of `api.js` and the rail's "API online" | `apiErrors` |
| `window.DEMO_WIDGETS` | `demo` |
| one run of `runFetches`, its unsettled promises | `waves[w]`; `pending`, and `doomed` for feeds of several calls of which one has failed |
| `OC_API.retry`, the rail's business unit | `Retry`, `SetBu`: error list and ribbons emptied together, the older wave goes on |
| `fetchServers`, `fetchDisks`, ... and the reload after a write | `AskForPage`, `AskAfterWrite`, `AskForApp`, then `AskArrives`, `AskFails` or `AskMisread` |
| `offlineRenew` and its siblings | `EditOffline` |

An answer of another shape (`null`, no array) marks the widget but records no error:
`FeedMisread`, with `misread` remembering it for `OnlineMeansLive`, which would not hold
of such a feed. This repository's API never answers in that way. A `.then` that throws
on a body it cannot map is left out.

The 22 feeds are listed by name; those that need several calls survive one failure or
not (`SurvivesOne`, `DoomedByOne`), and four have no ribbon (`UnmarkedFeeds`).

### The pages

- `DisksPage` has the filters as the controls show them (`diskState`), the queries
  whose answers are loaded (`listed`, `summed`), and both readings of the filters:
  `Answer` is the API's, `applyDiskFilters` the page's second pass over the answer.
  A wave asks for list and summary apart and under the default filters.
- `ServerDetail` has `_serverDetailLoaded` and `_serverDetailLoading` under their
  names, `route` for the address bar as it is written and `view` for what the last
  render drew. Cache and slot go by `ParsedId[route]`, the number `parseInt` finds in it,
  so that '42' and '042' are one server; the end of a load compares the addresses
  themselves (`stillOnSamePage`). `askedAs` remembers the address each server was last
  asked for from.
  `renderServerDetailPage` is the function of that name; every action that renders
  goes through it. `Finish` is the end of `getServerDetail`.
- `LicencesPage` is about one licence: `stored` is the API's, `row` the loaded one.
  A call goes from `sent` to `applied` or `refused` and to `read` when the API answers
  its reload; `Unanswered` gives it up and edits the row, while the call stays out as
  `given_up` until the API has applied it or not. `Effect` is shared by the API and by
  the page's offline fallback, which the code keeps alike.
- `ExclusionsPage` separates `pm` (`pmState`) from `seen`, the copy the visible
  elements and closures were rendered from. `Shows` renders; `Detached` is what
  `RERENDER_SHELL` does to a handler that waits: its own renders are no longer seen.
- `AdSearch` is both pickers: `liveQ` and `liveFor` are the last query asked and the
  last answered, `Draw` is a render, which asks for a query unless it was the last
  one asked.
- `AuditingPage` is about one application: `apiApp` is the API's, `rowApp` the loaded
  one. A registration is one call that passes through `sent`, `written`, `read`,
  `bind`, `bound` and `read_again`, with a failure possible at each; the other writes
  use the first three. Reloads of the list clear or set the ribbon, those of one
  application only clear it.

## 3. What the runs check

| Run | Instance | Shows |
|---|---|---|
| `attestation` | an `all_packets` campaign with two managers (one of whom vouches for two people), an `any_packet` campaign with two nominees, two requests, one lost connection | the safety properties, the inductive invariant, the refinement of `AttestationRecord`, and that no request waits for ever |
| `attestation_skew` | the same | **violated** `LastSubmissionCloses`: the last two answers overlap, each misses the other's claim, nobody closes the campaign |
| `reminders` | one campaign, two packets, one submission at a time, an operator, the scheduler, three batches, one fault | nudged once, stamped only when mailed, stale reminders bounded, mails accounted for |
| `launch` | one application, two people, two operators and the scheduler, two campaigns, two edits, one fault | one open campaign, no orphan, complete routing, everybody and nobody else invited |
| `launch_archive_race` | no fault | **violated** `ArchivedHasNoOpenCampaign`: archive checks, launch commits, archive writes |
| `launch_tick_lost` | two applications | **violated** `TickContinues`: the log row of a hard-deleted application aborts the tick |
| `sync_hourly` | scheduled every unit, timeout 2 | **violated** `Recovers`: each skip restarts the cooldown it waits for |
| `jobs` | a tracked sync scheduled every 2 units, timeout 2, threshold 2, with a forced slot and two faults; one disk and two overlapping runs; one licence, two runs, one renewal; two servers with two exclusions each | the breaker counts and opens as documented and the sync recovers; bounded duplicates, no page closed without a recovery, nothing that stays due goes unannounced |
| `licence_renewal` | one run, one renewal, no fault | **violated** `SentMeansSentThisCycle`: a run overtaken by a renewal marks the new cycle's threshold as sent |
| `console` | see below | ribbons and "API online" are honest; the disks table is what its controls promise; "loading" is awaited; quiet Licensing and Auditing pages show what the API has; the wizard sends what it shows; the last query's answer is kept; a registration without an error binds its groups |
| `wizard_stranded` | one server, one write | **violated** `AnswerIsShown`: a failed write renders the shell before the handler reports, and the message goes to an element nobody sees |
| `app_without_bindings` | two groups, two calls | **violated** `DoneMeansBound`: the reload between registering and binding fails, the groups are skipped and the form closes as after a success |

The seven violated properties quote a comment, a schema or a test of the repository.
`PROJECT.json` gives the line of the code and the line of the promise for each, and
the hazards of the code with the properties that watch them. Four hazards are in the
models and watched by no property, since nothing in the repository says what should
happen: the synthetic disks behind an empty answer and the late older answer
(`TableAgrees` is about an answer to the filters shown that found something), the
members left in a group that emptied (`RoutingCovers` asks only that whoever is on the
roster is routed), and a skip recorded after another run has succeeded
(`SkipOnlyAfterThreshold` is about the one agent the pipelines have).
`CreatedWithItsGroups` is about registrations that ran alone and without an error; the
reload that fails in the middle of one is `DoneMeansBound`.

### Bounds

Every unbounded counter of the system is bounded by a constant in a guard
(`MaxFaults`, `MaxBatches`, `MaxCampaigns`, `MaxEdits`, `MaxWindows`,
`MaxRenewals`, `MaxExclusions`, the `...Faults`, and in the console `MaxWaves`,
`MaxAsks`, `MaxFetches`, `MaxLoads`, `MaxRetries`, `MaxCalls`, `MaxExCalls`,
`MaxSearches`, `MaxAudCalls`), and histories only count what those allow.

- Two requests are enough for every conflict between statements of the same table:
  the code has no step that waits for two others. A third could only join a queue
  on a row lock. The theorems hold for any number of requests.
- The two campaigns of `attestation` differ in the closure mode, the only thing the
  code looks at; the packets of one have two subjects and one subject, so partial
  and complete forms differ.
- Two edits and two campaigns let an application be deleted, launched and
  edited around one launch, and be launched again after its cadence passed.
- `jobs` sets the sync's interval and timeout equal, the boundary case of the
  comparison `elapsed >= timeout`; `sync_hourly` is the schedule of the disk sync
  relative to its timeout.
- In `jobs` one licence and one disk suffice because every query and every
  recorded row is about one of them; two servers are there because a bulk
  exclusion and one card are about several. `Expired = 2` stands for one notice and
  the final threshold: the code treats the three notices alike.

- `console` has two waves over three feeds (`auditing`, whose ribbon an answer also
  clears, `exclusions`, which takes the business unit, and `licences`, which may be
  edited offline) and one refresh: the second wave is what overtakes the first, and a
  refresh what lands between them. Three disks differ in environment, owner, business
  unit and use, with a fourth in the demo seed; four requests are a boot wave's two and
  two filters. Two servers, one of them unknown to the API, share the one loading
  slot, with three loads and a retry, under four addresses: two spellings of one
  server, one of the other, one that is no number. The Licensing and Auditing pages get three calls
  each: one given up, one that overlaps it, one that finds its traces. The wizard has one
  server and two writes, the second being the click on a page still on the screen. The
  pickers have two queries and three searches. No page has a step that waits for
  two others. A behaviour runs one page: they share no state but the error list and
  their ribbons, of which each keeps its part (1.4 million states in all).

Deadlock checking is off where the system may stop: when the bounds are used up, when
every packet is answered or when the user does nothing more. `sync_hourly` is checked
for deadlock: `SyncTracking` has a clock that never stops.

### Fairness

- `Attestation`: weak fairness of each open transaction's own steps. Nothing in the
  handler waits for a user; it waits only for row locks, which is what
  `RequestsFinish` is about. Requests need not arrive and connections need not fail.
- `SyncTracking`: time passes, the schedule starts its runs, a run that is not
  killed goes on. Forced runs, resets, faults and the upstream system's state are
  free.
- Alert jobs: the cron schedule keeps starting the job and a started run goes on
  until a fault ends it; for exclusions, weeks pass. Weak fairness is enough, since
  only the run itself, or a fault the bound limits, disables its next step.
- `MCJobs` states both for the job its behaviour runs (`MCFairSpec`).
- `Reminders` and `CampaignLaunch` are checked for safety only.
- The console has none: users need not act and the network need not answer. That
  "loading" ends is stated as a safety property, that somebody is still expected.

## 4. What is proved

Eight modules hold proofs, for every value of the constants under the named
assumptions of the modules (shapes of the tables, natural bounds), which TLC evaluates
in the runs. Where a run checks the same property, the run is the small instance of
the theorem.

| Module | Theorem | Says |
|---|---|---|
| `AttestationProofs` | `Invariance` | `Spec => []IInv` |
| | `TypeCorrect` | `Spec => []TypeOK` |
| | `AnswersAreComplete` | `Spec => []RecordComplete` |
| | `FirstAnswerCloses` | `Spec => []AnyAnswerCloses` |
| | `ClosureIsJustified` | `Spec => []ClosureJustified` |
| | `Refinement` | `Spec => ImplementsRecord` |
| `RemindersProofs` | `RemindersTypeCorrect` | `ReminderSpec => [](TypeOK /\ ReminderTypeOK)` |
| | `NudgedAtMostOnce` | `ReminderSpec => []NudgedOnce` |
| | `StampsAreEvidence` | `ReminderSpec => []StampMeansMailed` |
| | `LateMailsBounded` | `ReminderSpec => []LateRemindersBounded` |
| | `MailsAreLogged` | `ReminderSpec => []EveryMailLogged` |
| | `RecordBesideReminders` | `ReminderSpec => ImplementsRecord` |
| `CampaignLaunchProofs` | `LaunchTypes` | `Spec => []TypeOK` |
| | `OneOpenCampaign` | `Spec => []OneOpenPerApp` |
| | `NothingOrphaned` | `Spec => []NoOrphans` |
| | `RoutingIsComplete` | `Spec => []RoutingCovers` |
| | `EverybodyInvited` | `Spec => []InvitedUnlessCutOff` |
| `SyncTrackingProofs` | `SyncTypes` | `SyncSpec => []SyncTypeOK` |
| | `FailuresAreCounted` | `SyncSpec => []EveryAttemptCounts` |
| | `HealthyIsReset` | one agent: `SyncSpec => []HealthyMeansReset` |
| | `SkipsAreEarned` | one agent: `SyncSpec => SkipOnlyAfterThreshold` |
| `JobsProofs` | `DiskPagedOnce` | `DiskSpec => []PagedOncePerWindow` |
| | `PagesResolvedAfterRecovery` | `DiskSpec => ResolvedAfterRecovery` |
| | `ThresholdsFireOnce` | `LicenceSpec => []ThresholdFiresOnce` |
| | `ExclusionAnnouncedOnce` | `ExclusionSpec => []AnnouncedOncePerWeek` |
| | `JobsTypeCorrect` | `MCSpec => []TypeOK`: the types of the four jobs |
| `ConsoleProofs` | `ConsoleTypes` | `ConsoleSpec => []ConsoleTypeOK` |
| | `RibbonsHonest` | `ConsoleSpec => []SeedIsFlagged` |
| | `OnlineHonest` | `ConsoleSpec => []OnlineMeansLive` |
| | `LoadingEndsInView` | `DetailSpec => []LoadingIsAwaited` |
| | `SearchTypes` | `SearchSpec => []SearchTypeOK` |
| | `AnswersKept` | `SearchSpec => []LatestAnswerKept` |
| | `TableIsTheAnswer` | `DisksSpec => []TableAgrees` |
| | `SendsWhatIsShown` | `ExclusionsSpec => SentAsShown` |
| | `ConsoleTypeCorrect` | `MCSpec => []TypeOK`: the types of the seven modules |
| `LicencesPageProofs` | `QuietRowsAreStored` | `LicencesSpec => []QuietRowIsStored` |
| `AuditingPageProofs` | `QuietAppsAreCurrent` | `AuditingSpec => []QuietAppIsCurrent` |
| | `RegistrationBindsAll` | `AuditingSpec => CreatedWithItsGroups` |

In every module one lemma per action (or per kind of action) shows that it preserves
the inductive invariant, one step lemma puts them together, and the theorems are drawn
from it. Hardly any of the properties is inductive by itself; what is added is what
the code knows between two of its steps:

- **Submission** (`IInv`). That a commit writes a complete record depends on what the
  transaction validated steps before, and that the first answer of an `any_packet`
  campaign closes it depends on the lock the closure UPDATE has held since.
  `SessionsSound`: an open transaction works for the packet's recipient with a full
  form, and once it has claimed the packet nobody else has submitted it (the claim's
  `WHERE submitted_at IS NULL` and its row lock). `LocksExclusive`: two transactions
  never hold the same row. `ClosuresSound`: a transaction that closes still may, because
  its lock keeps the campaign active; an `any_packet` submission that does not close
  found it closed. `HandClosed`: a campaign closed by hand is closed. `Refinement` maps
  every step to a step of `AttestationRecord` or a stutter: only `SubmitCommit` and
  `Close` change the tables.
- **Reminders** (`ReminderIInv`). A reminder step leaves the tables of `Attestation`
  alone, so that `IInv` and the refinement carry over (`RecordBesideReminders`). The
  counts are bounded through what each sender is about to do. `NudgesSound`: a packet
  that was nudged and is neither stamped nor about to be had its send cut off, which
  cost a fault; that the tick reads packets of one batch only while it has none out is
  what keeps the second nudge away. `LateSound`: after the answer no sender selects the
  packet again, so each late mail uses up one of the senders that had selected it
  (`AboutToMail`); their number bounds the mails. `EveryMailLogged` is inductive with
  `BatchesSound`: a mail leaves the batch when it is logged, and at most one logged mail
  of a sender waits for its stamp (`AboutToLog`).
- **Alert jobs.** All three post before they record, and all three invariants count the
  same way: until the announcement is on record, each one sent belongs to a run that
  stands between its post and its record, or cost a fault; once it is on record, only
  runs that had read before can announce again, and each does so once (`PagesSound` with
  `AboutToPage` and `HavePaged`, `CardsSound`, `FiringsSound`). The licence job differs:
  a run whose post failed writes 'failed' over the row another run has marked 'sent', and
  with that opens a round in which every run may fire again. `EarlierRounds` counts the
  rounds that are over, `FailuresPaid` says that each failing run has cost a fault, and
  the bound is a product, where disks and exclusions have a sum. `RowsSound` (a row that
  a run has read as recovered has seen its disk recover) makes `ResolvedAfterRecovery`
  a fact about one step.
- **Launch** (`LaunchInv`). `ActorsSound` says what a request has read: a configuration,
  a roster with one row per member, a plan that routes all of that roster (by
  `LineManagersRoute` or `NomineesRoute`, whatever the tables are by then), the campaign
  it committed. `IdsInOrder`: campaign_ids are handed out in order, so a launch
  overwrites no campaign. `OneOpen` restates the cardinality of `OneOpenPerApp` by
  pairs. `NoEarlyInvites`: a campaign not yet launched has no invites, so that those it
  gets one by one are its own recipients'. That no campaign is orphaned rests on the foreign key alone: `DeleteHardKeeps`
  uses nothing the request read before.
- **Sync tracking.** With any number of agents only the counting of failures holds
  (`CountInv`). With one agent, as the pipelines have, a run that lasts keeps its
  'warning' (`RunIsSound`), a skip finds the counter at its threshold, and the counter
  is the number of attempts in a row that failed (`CounterIsStreak`): from this follow
  what the dashboard and the breaker promise. With two agents both fail, which is why
  the assumption is in the theorems.
- **Console.** `DoomedHasError`: a call of the latest wave that failed has left its
  error, because the list is only emptied by the start of a wave, which then is the
  latest. `SeedIsFlagged` is inductive with the types. The theorems hold for any number
  of feeds, business units, waves and refreshes.
- **Server detail.** `SlotIsLoading`: as long as the slot names a server, a load of it
  is out. The slot may be emptied early, never late. `LoadingIsAwaited` is kept only for
  an address written as when its server was last asked for: for any other spelling it is
  false of the code (section 5).
- **Disks page.** `TableAgrees` follows from the types alone, state by state: where the
  filters loaded are the filters shown, the page's second pass repeats the API's
  conditions. It rests on `"none"`, the business unit of a list never loaded, being no
  business unit (`DisksAssumption`).
- **Exclusion wizard** (`WizardInv`). `DraftSound`: a draft with servers is past its
  reason only with a reason told, and no draft is at the confirm step without a date.
  It is kept because a click works on the step that is seen, and the draft behind the
  visible page is the one it was rendered from or an emptied one (`DraftBehind`): a stale
  page can be stepped back on, which may leave an empty draft at any step, but such a
  draft has no servers, and a submission without servers sends nothing.
- **Licensing and Auditing pages** (`LicQuietInv`, `AudQuietInv`). A call that had none
  beside it when it was made stays the only one (`OneLicCall`, `OneAudCall`), so what it read for its reload is
  still what the API has, and a call given up has left its error. For the registration,
  `AppIsThere` and `BoundSoFar` follow the groups it has bound through its loop.
- **Directory pickers.** `LatestAnswerKept` is inductive with the types: the answer
  kept is the one to the last query asked, or that query is still out.

Only model-checked:

- liveness (`RequestsFinish`, `Recovers`, and what the alert jobs announce and clear):
  liveness under fairness is outside the prover's reach;
- the seven violations, which are counterexamples.

Every other property of a run is the subject of a theorem. The counting arguments need
`Operators`, `DiskRuns`, `LicenceRuns` and `ExclusionRuns` to be finite
(`SendersAssumption`, `DiskAssumption`, `LicenceAssumption`, `ExclusionAssumption`): any
number of agents or requests, but not infinitely many at a time. `LastSubmissionCloses`
and its like are false of the code and have no theorem.

## 5. Divergences without a run

Met while modelling; each is a single statement or literal, where a run would show no
more than the line itself:

- `CampaignService.cs:197` stores `launch_kind` 'manual' for every campaign, also for
  those of the scheduler, for which `020-auditing-schema.sql:101` has 'auto'.
- A nominee who loaded an `any_packet` campaign before another's closing commit is still
  accepted, although `CampaignService.cs:471` and the controller's 409 speak of the first
  answer deciding. `ClosureJustified` says that the late one does not rewrite what
  closed the campaign.
- While '#servers/42' loads, '#servers/042' finds the loading slot taken by the same
  number (`op-pages.js:3515`, `3528`) and shows "Loading"; when the load ends
  `stillOnSamePage` compares the addresses as written (`op-pages.js:3540`) and draws
  nothing, so that "Loading" stands with no load out until something else renders.
  `view.shows = "loading" => \E l \in loads : l.id = view.id`, the same promise for every
  address, fails in the model in four steps: open '42', the server answers, open '042',
  the load ends. `LoadingIsAwaited` therefore speaks of an address still written as when
  its server was last asked for.
- A retry empties the server detail's ribbon while the made-up bundle stays cached and
  shown (`RetryWave` of `ServerDetail`). The branch of `getServerDetail` that tells a 404
  from an outage (`op-boot.js:1041`) is never taken: `api()` has recorded either
  as an error before it is looked at.
- An empty answer of `/disks` is shown as the synthetic disks of the bundle, without a
  ribbon (`liveDisks` of `DisksPage`).
- The ribbon of the auditing list is cleared by the reload of one application
  (`op-boot.js:1529`); `SeedIsFlagged` leaves that list out.
- The bulk form's button is switched by typing without a render, while its handler looks
  at the state of the last render: it may be lit and do nothing, or send an older text
  (`TypeBulkReason`, `BulkSubmit` of `ExclusionsPage`). The launch button of the Auditing
  page is dead in the same way after its name was typed.
- The draft of the application's edit form survives "Back" (`Edit` of `AuditingPage`).
- The licence figures of the health cards count the state 'expiring', the rows carry
  'expiring-soon' (`op-app.js:217`, `541`, `840`).

## 6. Not modelled

`PROJECT.json` lists every component with its reason. In short:

- Handlers that only read (`CertificateService`, `EolService`,
  `DiskMonitoringService`, `HealthService`, `AlertsService`, the list and summary queries
  of the other services) have no state of their own; the cards of the health, spike,
  sync-failure, certificate and patch-cycle jobs are formatted from what they read and
  nothing is stored.
- Parsing, formatting, string distance, mail bodies and the mapping of API rows to the
  console's rows are data. So are the demo bundles: what matters of them, that they are
  not the API's, is the origin `seed` of `Console`.
- Hosting and authorisation are stateless per request.
- Of the console: the shell, the health cards and the read-only pages (certificates,
  end of life, patching, servers) derive what they show from `Console`'s data and keep
  only sort and filter settings; of the Auditing page, changes by other users, the
  attestation form, rosters and the resolution of owner names.
- Server inventory, patch schedule imports, unmatched names, certificates, end of life
  and the deployment pipelines have state and are in the plan below. The Confluence
  import is one upsert transaction that copies the wiki.

## 7. Plan

Done: submission, reminders, launch, tracked syncs, alert jobs, the console's data and
six of its pages. In order of what the code risks, what is left:

1. `Inventory`: `sync_server_list.py` over days of extracts (the 50% churn guard, the
   floor, the upsert, the 24-hour grace with runs a little early or late, failed
   days), with `shared.servers` as the state. Properties: a server missing once stays
   active; a truncated extract deactivates nobody; one gone for good is deactivated.
2. `Unmatched`: `resolve_server_name`, `record_unmatched_server`, resolve, ignore and
   alias against that inventory. Properties: a name that does not resolve is pending,
   or was ignored; a resolved one resolves again.
3. `PatchCycles`: both importers, their savepoints and counts, completion by date and
   by hand. Properties: the counts agree with the rows, an import replaces exactly its
   own rows, a completed cycle stays completed. Composed with 1 and 2, as the importers
   read the inventory.
4. `Certificates`, `Eol`: the imports and their deactivation rules, on the same
   inventory.
5. `Deployment`: backup, migrate, stop, copy, start, gate, rollback, with a failure
   anywhere. Properties: a script that is applied is not run again; a rollback
   finds a backup that ran.
6. The Auditing page beside other users and the scheduler: `AuditingPage` composed with
   `CampaignLaunch`, and the attestation form with `Attestation`.
7. Abstract specifications: an alert as "due, announced, settled", refined by the
   three jobs; the launch as one atomic step, refined by `CampaignLaunch`.
8. Theorems: the refinements of 7. What is safety among the checked properties is proved.
