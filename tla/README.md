# A TLA+ model of PushRelay

PushRelay receives webhooks and timed events, matches them against rules and
delivers messages to chat channels and HTTP endpoints. It is one Go process
over one SQLite file, with a React console for its administrator. The modules
in this directory model its core: what is kept in the database, what goroutines
keep in memory between two database calls, and what can come between them; and
the console, what a tab keeps between an answer of the server and the next
click.

Paths below are relative to `src/`; `store` is `internal/store`, `app` is
`internal/app`. `PROJECT.json` maps every definition to the lines it models.

## 1. The system

### Components

| Component | State | Operations | Correct when |
|---|---|---|---|
| Delivery queue and workers (`app/worker.go` 17-114, `store/resources.go` 388-476) | `delivery_jobs`, `delivery_attempts`, `events.payload_enc`; in memory the claimed job, its attempt number, the payload read with it | ClaimJob, send, FinishAttempt, finalizeEventPayload, RetryJob, Cleanup, cascades | a job is sent until accepted or dead, by one worker at a time, its log complete, its payload kept while needed and masked after |
| Scheduler (`app/worker.go` 116-172, `app/resources.go` 406-512) | `schedules`; in memory the list loaded by a pass | poll, store event, mark run; save, delete | an event for each occurrence, none lost, none twice |
| Webhook ingestion (`app/hook.go`, `store/resources.go` 326-386) | `events`, `delivery_jobs`; in memory the source and the groups read | find source, check, match rules, store, mask | a key is accepted once per window, a body is masked as its source says |
| Database connection (`store/store.go` 19-37) | one connection and its waiters | every store call | every call ends and gives its connections back |
| Rules, groups, channels, templates (`app/resources.go` 43-404) | their tables, foreign keys with cascades | list, save, delete | edits leave what refers to them consistent |
| Sources (`app/resources.go` 220-363) | `webhook_sources`, encrypted signing secret | save, rotate, delete | an edit does not undo a rotation |
| Runtime settings (`app/resources.go` 572-651, `store/settings.go`) | table `settings`, a cached copy in `Server.settings`, a flag in the channel service | read, save | cache, table and flag agree |
| Accounts (`app/auth.go`, `app/account.go`, `store/store.go` 66-273) | `admins`, `sessions`, `admin_recovery_codes` | set-up, login, logout, password, two-factor set-up | one administrator; a recovery code is used once; two-factor state is consistent |
| Pocket ID login (`app/pocketid.go`) | `oauth_states`, `admins.pocketid_subject` | start, callback | a state is used once, the first identity stays bound |
| Recurrence (`internal/schedule`) | none | Parse, Next | Next is the first occurrence after a time |
| Conditions and redaction (`internal/rules`) | none | Parse, Match, RedactWithFields | evaluation agrees with the boolean reading of the tree |
| Channels (`internal/channels`) | none but the private-target flag | Validate, Send | success means that the platform accepted |
| Console: gate, session, shell (`web/src/App.tsx`, `pages/auth.tsx`, `lib/api.ts`, `components/app-shell.tsx`) | route, CSRF token in `sessionStorage`, session cookie, query cache | set-up, login, logout, fetch, navigate, reload | the token sent is that of the session on display |
| Console: resource pages (`pages/channels.tsx`, `templates`, `groups`, `sources`, `rules`, `schedules`) | dialog forms, copies of six lists, the clipboard | create, delete, test, preview, rotate | lists show what is stored, an address on display or copied works |
| Console: account page (`pages/account.tsx`) | dialogs, secret and recovery codes shown once | user name, password, second factor | the codes on display are in force |
| Console: activity page, dashboard (`pages/activity.tsx`, `dashboard.tsx`) | polled copies | poll, retry a delivery | they catch up with the workers |
| Console: settings page (`pages/settings.tsx`) | a form filled once | edit, save | an untouched form is what is in force |
| Message templates, crypto, configuration, console text, presentation of the pages | none that outlives a call or a page | render, encrypt, print | not modelled |

### How they interact

A webhook handler and the scheduler both end in `AcceptEvent`, which stores an
event and a job for every enabled binding of its target groups in one
transaction. Worker goroutines poll the jobs. The administrator's handlers edit
the tables that all of them read. Nothing but the database is shared, and it has
one connection (`SetMaxOpenConns(1)`): transactions do not interleave, and what
goes wrong goes wrong between two of them. That is where the modules have their
actions: **one action is one transaction or one message**, and all the state
that a goroutine carries from one to the next is a variable.

The console speaks to the handlers through `api()`, which adds the token the
tab holds at that moment; the browser adds the cookie, which tabs share. It
keeps what it was answered in the query cache, which the gate and all pages
share. A call has three moments, sent, served and answered, and a fetch has
three as well; anything may come between them, the page being left included.

### What is hard

* A worker sends for up to 20 s and waits for the connection before and after;
  its lease on the job is 5 min and `FinishAttempt` does not look at it.
* A redelivery by hand, a saved target group, a deletion or a retention purge
  may come at any moment of a delivery.
* The process may stop anywhere. A shutdown waits for HTTP requests and not for
  workers or the scheduler.
* A payload is masked by whoever finishes the last job of an event, from a
  copy read when the job was claimed.
* An event and the next run of its schedule are written in two transactions.
* A handler reads its source, its rules and the bindings at three moments.
* A login, a change of the password and every step of the second factor read the
  account, decide, and write later.
* A page shows a copy that a fetch, a handler of a write or another page
  brought, and its handlers run even when the page was left. A fetch under way
  when a write is answered may be dropped, or may land an older value later.

`PROJECT.json` lists each of these, and more, as a hazard at its line, with the
properties that watch it.

## 2. The modules

| Module | Models |
|---|---|
| `DeliveryQueue` | the queue, its workers, and everybody who touches a job |
| `QueueContract` | what the queue promises, with no worker, lease or payload in it |
| `DeliveryQueueProofs` | theorems about `DeliveryQueue`: for any timing, within the lease, and the refinement |
| `Scheduler` | the scheduler's passes and the edits between their steps |
| `Agenda` | what the scheduler promises those who keep schedules, with no pass, batch, transaction or crash in it |
| `Recurrence` | the next run of a rule, its preview, and the life of a rule |
| `RecurrenceProofs` | theorems about `Recurrence`: that the next run is the first, and that a preview goes on from a run, on any calendar |
| `Ingest` | the hook handler, requests side by side, and edits between its steps |
| `Inbox` | what ingestion promises senders, with no rule, row, edit or retention in it |
| `ConnectionPool` | who holds and who waits for a connection |
| `Accounts` | set-up, login, sessions, the second factor and Pocket ID |
| `Administration` | saving the settings and the sources |
| `AccountsProofs`, `AdministrationProofs` | theorems about the two |
| `SchedulerProofs`, `IngestProofs`, `ConnectionPoolProofs` | theorems about the three, with the refinements of `Agenda` and `Inbox` |
| `ConsoleTab` | one tab: route, query cache, calls under way, session |
| `ConsoleResources`, `ConsoleAccount`, `ConsoleActivity`, `ConsoleSettings` | its pages, each extending `ConsoleTab` with the part of the server it talks to |
| `Console` | gate, login, shell and other tabs, and the composition of them all |
| `ConsoleProofs` | theorems about `Console`: shape, token, settings form, copies; then recovery codes, stored rows, addresses |
| `MC*` | values of the constants for TLC |

### DeliveryQueue

`status`, `attempts`, `wait`, `lockAge` are the columns `status`, `attempts`,
`run_after - now` and `now - locked_at` of `delivery_jobs`; `log` is
`delivery_attempts`; `policy` and `payload` belong to `events`. `pc`, `held`,
`try`, `snap`, `outcome` and `elapsed` are the local variables of `processJob`
and are lost in a `Crash`. A worker goes

    idle -ClaimJob-> claimed -BeginSend-> sending -SendReturns-> finish
         (PrepareFails: claimed -> finish)
    finish -FinishAttempt-> settle -ReadPolicy-> replace -ReplacePayload-> idle

and `RemoteAccepts` is the moment, unknown to the worker, at which the channel
takes the message. `FinishFails` and `FinalizeFails` are database errors (both
are dropped by the code). `RetryJob`, `SaveGroup`, `DeleteBindings`,
`PurgePayloads` and `DeleteOldEvents` (the two statements of `Cleanup`) are the
other writers. Payloads are abstracted to what was done to them: `raw`,
`redacted`, `null`. The policies `metadata` and `none` are written alike.

Time is relative: `Tick` ages locks and shortens waits by one unit. It may not
pass the deadline of a worker: `SendTimeout` while it sends, `HoldLimit` from
claim to last write. `HoldLimit` is not in the code. It stands for the send plus
the waits for the connection, which the code bounds by nothing (`ConnectionPool`
shows a wait without end); whether it exceeds the lease decides which
properties hold, so runs and theorems say which of the two they assume.

`accepted`, `interfered`, `disturbed` and `missed` are history: they are written
and never read by an action, and let a property say "unless somebody
requeued it by hand".

### QueueContract

The queue as its user sees it: a job is `queued`, `delivered`, `dead` or not
there. It leaves `queued` by an accepted message, by `MaxAttempts` failures one
after the other, or by removal. `DeliveryQueue` implements it under the mapping
`PhaseOf` (pending and processing are `queued`); claims, takeovers, crashes and
payloads stutter. `EndLate` is the part of the contract that a reader should
look at: a job that was queued again by hand while an attempt was under way
may be ended by that old attempt.

### Scheduler

`row` is the table `schedules`, `pass` the list a pass has loaded and `stored`
whether the event of its first item is already in the database. A recurrence is
the set of minutes at which it falls due. `edit` is the row that a save has
computed and not yet written, so that a save, a pass and a deletion may overlap
in every order.

`Agenda` is what is left of it for those who keep schedules: the planned runs, the
occurrences that had their event, and for a *tidy* schedule (saved once, never cut
between its two transactions) the rule that one event at its time or later comes
before the next plan, which is the first occurrence still to come. Under the mapping
`plan` is `row` without its payload, `held` the occurrences of the ghost `runs` that
have an event, and `loose` the schedules saved again or cut short (`Resaved`,
`repeated`): of these it says only that a run lies ahead and that an enabled
schedule has one. Passes, loaded lists, drafts of saves and failures stutter.

### Recurrence

`NextRun` is `schedule.Next`, with an operator for each of its loops; the
behaviours are the life of one rule, `Init` the save that gives it a start and a
first next run, `Run` a pass of the scheduler that comes when it comes.
`Scheduler` has the transactions around these two steps and takes the occurrences
as given. A moment is a number of minutes in UTC and a zone an offset before and
after one change of its clock. `Date` is `time.Date` with what it does to a local
time that does not exist, since the loops call it for midnights and `Candidate`
exists because of it. `NextIsFirst` compares the loops with a rule read on paper:
`Falls` says of a day whether it is one of the rule's, without searching. The
calendar is the constant `FirstDay`, the day on which each month begins; the bounds
`Months`, `MinTime` and `MaxTime` end it, and `ReachAssumption` says that a rule
that looks ahead stays inside. `Preview` is `previewSchedule`: the rule without the
start that a save adds, counted each time from the result before, which
`PreviewGoesOn` compares with the next run of the schedule itself.

### Ingest

A request goes `new -> found -> routed -> (mask) -> answered`, or is refused.
`seen` and `groups` are what it read on the way. A condition is the set of the
requests it matches. Refusals (address, size, signature, content type, method)
are one action, possible before the source is found and after.

`Inbox` is what the senders of webhooks may rely on: `Accept`, `Confirm` (an
event stored before it is answered for), `AnswerRepetition`, and `Forget` for a
deleted source. Under the mapping `accepted` is the ghost `kept` (when a request's
event was committed), and `answer` the reply of a request once it is `answered`:
a reply that a crash takes away is none. Rules, edits,
crashes, masking and clean-up are not visible, so the refinement says that none
of them may break the window, answer a request twice, or answer with an event
that has not been stored.

### ConnectionPool

`owner` is the pool. A call waits, runs and gives back; a listing of the target
groups keeps its first connection while it waits for a second one. The choice of
the waiter to be served is random in `database/sql`, hence strong fairness.

### Accounts

`admin`, `codes`, `sessions`, `states` are the tables `admins`,
`admin_recovery_codes`, `sessions` and `oauth_states`. Requests to the account
handlers run side by side; `op` says what each is for, and it goes

    new -> (authed) -> (consume) -> write | issue -> done     (password, factor)
    new -RedeemState-> exchange -Identify-> (bind) -> issue -> done   (Pocket ID)

`seen` is the row that the handler read at the start and decided on. Passwords,
secrets, codes, sessions and states are named by the request that made them,
which makes "opened with the password before" expressible; `Earlier` stands for
what was there before. Whether a password or a TOTP code is right is the
client's doing: `ReadAccount` has the paths of a right one and `Refuse` is the
rest. `created`, `used`, `confirmed`, `hurried` and `overtaken` are history.

### Administration

`table`, `cache` and `flag` are the settings in their table, in
`Server.settings` and in the channel service; `source` is `webhook_sources`. A
save of the settings goes `new -> save -> cache -> flag -> done`, a request about
a source `new -> write -> answer -> done`. `draft` is the whole record that will
be written, computed from the copy in use or from the row that was `seen`.
Fields that no property tells apart are one, `rest`. The answer to a create, a
rotation or an edit is a step of its own since it alone shows what was made
(`shown`), and may be lost (`cut`). `void`, `stale` and `mixed` are history.

### ConsoleTab

What the pages share. `page` is the route, `view` the local state of the page on
display (its `useState` calls; leaving a page loses it). `copy` is the query
cache: for each query the value known, whether it failed, and its fetch, which
is `idle`, `stale` (to be fetched), `sent` or `read` (the server has answered,
the answer has not landed). `Written` is `setQueryData`, which leaves a fetch
under way alone; `Invalidated` is `invalidateQueries`, which drops it if the
query is mounted and else lets it land. `calls` are the mutations: `mine` says
that the page that sent a call is still there. `csrf` and `cookie` name
sessions, `alive` the sessions the server accepts.

A behaviour takes one tour of `Tours`: the pages a user moves between, whether
the account has a second factor, and how many calls, events and disturbances
there are. Disturbances are what other tabs and the network do, reloads, and
refetches of data that is there (focus, mounting again). `excused` is the
history the properties need to leave out the copies that are behind for such a
reason; nothing reads it but the properties.

### ConsoleResources, ConsoleAccount, ConsoleActivity, ConsoleSettings

Each page has the actions of its buttons and fields (those that enable a button
or that a property reads), what the server does with its calls (`Serve...`), and
the handler of each answer. In `ConsoleResources` the six lists share these
three, with `Remaining` and `KeysHold` for the cascades and the foreign keys;
`muddled` names the sources whose token another tab, a lost answer or two
rotations at a time have changed. In `ConsoleAccount` a secret and a set of
recovery codes are named by the call that made them. In `ConsoleActivity` the
`Workers` go on meanwhile. In `ConsoleSettings` the form is mounted once from
whatever copy there is.

### Console

`Route` and `Display` are the gate: what is rendered for a path and the copies
of the set-up status and of `/auth/me`; `Effect` is its `useEffect`, which takes
the token from the copy. `Go` is the navigation. A login has the server's short
answer written over the copy of `/auth/me`. `OtherTabLogsIn` changes the cookie
and leaves this tab's token; `SessionEnds` is another tab's logout or expiry.

## 3. What is checked

| Run | Question | Bounds |
|---|---|---|
| `deliveryqueue_safety` | do lease, log, payloads and contract survive two disturbances of any kind? | 2 workers, 1 event with 2 jobs, 2 attempts, `HoldLimit = LeaseTime` |
| `deliveryqueue_late` | what holds when a worker outlives its lease, and does every job settle? | 2 workers, 1 job, 2 attempts, `HoldLimit > LeaseTime` |
| `deliveryqueue_save_group` | *(violated)* does a queued job survive the saving of its group? | 2 workers, 1 job |
| `scheduler_passes` | is every step one of `Agenda`, one event per occurrence, no run lost, no due schedule starved? | 3 schedules, batch of 2, a single and a repeated recurrence, 3 disturbances |
| `recurrence_runs` | is the next run the first one the rule names, on every day, in every month and over every change of the clock, and does a preview show it? | some 300 rules, 9 zones, 3 moments of saving, days of 4 minutes, weeks of 3 days, years of 2 months, passes up to 5 minutes late |
| `ingest_requests` | is every step one of `Inbox`, is a key accepted once per window, and are routing and masking right, while requests of one key overlap and rules, sources and groups change? | 3 requests (two alike), 2 sources, 2 rules, 2 groups, window and retention of 1, 3 moments, 1 disturbance of any kind |
| `ingest_body` | *(violated)* is a body that is not to be stored gone when there is nothing to deliver? | 1 request, 1 rule |
| `connectionpool_service` | do all callers give connections back, and is a worker served? | 1 worker, 2 requests, 2 groups, pools of 1 and 2 |
| `accounts_requests` | do one administrator, one-time codes, second factor and sessions survive any overlap of requests? | 3 requests of any kinds, 2 identities |
| `administration_requests` | do settings, sources and their credentials survive saves that overlap? | 3 requests of any kinds, 1 source to begin with |
| `connectionpool_listing` | *(violated)* is a listing of the groups answered? | the same, the pool of 1 that the code has |
| `console_pages` | do session, copies, forms and what is shown once stay right on every page, and do polled pages catch up? | 19 tours of one to three pages, up to 3 calls, 1 disturbance or none, up to 2 events, 2 sessions |

**Why these bounds.** Two workers are enough for every race on a job: a third
could only do again what the second did. Two jobs of one event are what the
finalisation needs ("the last one masks"). Two attempts give a first, a last and
a retry in between; `MaxAttempts` enters the code only in one comparison. With
the time unit a whole lease, one tick past a claim puts a lock at its limit and
two put it beyond. `Quota` bounds how many disturbances a behaviour has, whatever
their kinds; two of them reach every pair (a crash and then a redelivery, a
redelivery and then a purge). In `Scheduler` the third schedule does not fit the
batch of two, and three disturbances allow a save, a second save and a failure.
In `Recurrence` the code's arithmetic does not depend on how long a day, a week or
a year is, as long as weeks and months do not fit each other; months of 2, 3 and
4 days give a day that some months lack and a leap day, changes by a quarter of a
day a midnight and a clock time that are skipped or come twice on either side of
Greenwich, changes by a whole day one that is skipped or comes twice, and a pass may be more than a day late. In `Ingest` two requests race and the third belongs to another source with the
same key, whose row is not varied; the clock runs past window and retention, and
one disturbance may be a crash, a failed write, an edit or a deletion. The two
alike requests are symmetric. In `Accounts` three requests are a
change, one that overlaps it, and one that uses what they left; likewise in
`Administration`. In `Console` two pages meet only through the lists and sessions they share:
each tour is a set of pages that do, with two or three calls where calls can
overlap, or one call and one disturbance; the recovery codes need three calls (a
set-up and two enablings). Together the tours come to 281,359 states and about
a minute and a half. Tours that come to the login page start with nothing loaded
and have the gate's queries run; the others start in a session that the gate has
seen, with the lists loaded. The theorems of section 4 hold for all values of the
constants of every module.

The type invariants of all modules are theorems (`Recurrence` has no state but a rule
and two moments).

**Deadlock** is checked where the system cannot stop. `Scheduler`, `Recurrence`,
`Ingest` and `Console` switch the check off: their clocks, request sets and calls
are bounded, a rule may have no next run, and a user may stop clicking.

**Fairness.**
* `DeliveryQueue`: workers poll every second and every call of theirs returns
  (a send has a timeout), so each worker step is weakly fair. `ClaimJob` is fair
  per worker and not per job: that no job waits forever follows from the
  order by `run_after`. `Tick` is fair. Nothing obliges an acceptance, a failure,
  an event or an administrator.
* `Scheduler`: each step of a pass. Edits and failures are not fair, and neither
  is the clock.
* `Recurrence`, `Accounts` and `Administration` have no liveness properties and no fairness.
* `Console`: the three queries with an interval (`refetchInterval`) are asked for
  again and again while they are mounted, answered or refused, and landed. No
  click, call or other query is fair. The premise of `PollsCatchUp` is a page
  that stays on display in a session that lives.
* `ConnectionPool`: statements end; a waiter is served in the end (strong, the
  pool picks at random). `ImpatientSpec` adds that the client of a listing that
  hangs gives up.

**What the violated runs show.**
* Saving a target group deletes its bindings and inserts them again; the
  foreign key takes the jobs with the old ones. Renaming a group loses whatever
  waits for it.
* An event that a rule matched, whose group has no enabled binding, is masked by
  neither the handler (a rule matched) nor a worker (there is no job). The body
  stays until the payload retention, also under the policy not to keep it.
* `ListGroups` runs a second query while the rows of the first are open, on a
  pool of one connection. With one group in the table the listing waits for
  itself, and everybody else for it, until the client hangs up.

Some limits of the code are no run and should be known: the purge of payloads
looks at the age of an event and may take the payload of a job still queued; a
dead job counts as complete, so that the death of the last job of an event masks
its payload, and erases it under the policies `none` and `metadata`: such a dead
letter can still be queued by hand, and dies again after five attempts that find
nothing to send; and `EndLate`, above. The same holds of the account: a login that is past the
check of the old password opens its session after the change (`overtaken`), a
second set-up may replace the secret that another request is enabling, which is
then on without having been confirmed (`hurried`), a set-up may switch off a
factor that was enabled after it began, and a recovery code is spent also on a
request that is refused afterwards. Saves of the settings that overlap may leave
table, copy and channel flag apart until the next start (`mixed`); an edit of a
source that overlaps a rotation puts the old token back, and one that overlaps a
deletion brings the source back (`stale`). The properties name these exceptions.
The console has exceptions of its own: two rotations of one source at a time may
leave the older address in the clipboard (`muddled`); a list that a deletion
shortened by a cascade is not refetched; a settings form filled from a copy that
is being fetched stays as it was (`behind`); a user who opens the dialog again and
switches the factor off while its set-up is under way may be shown codes that are
void; a reload loses the answer of a rotation, and with it the new address; and the answer of a login, which the
login page writes over the copy of `/auth/me`, has no `pocketid_linked`, so that
the account page shows a bound account as not bound until a refetch.

Recurrence rules have three limits. Where the clock is set forward at midnight
west of Greenwich (Havana, Santiago), the code takes the day for the one before
and passes it over, or the month if it is its first (`MidnightMissed`). A
`start_at` in the future holds runs back to the beginning of its day (daily,
weekly), its month or its year, and not to its moment. And the preview
(`app/resources.go` 500) of a weekly rule with an interval of two and two weekdays
shows it in every week, though it runs in every second one; so `PreviewGoesOn`
leaves out named weekdays with an interval, and runs on a day whose midnight is
skipped.

## 4. What is proved

The theorems about the queue hold for any number of workers, events, bindings and
jobs, any attempts, delays and limits, and any quota; those about accounts and
administration for any number of requests and identities; those about the
scheduler for any finite set of schedules, any recurrences and batch; those about
ingestion for any requests, sources, rules, groups, window and retention; those
about the pool for any callers and any number of connections; those about the
console for any tours, any rows that were there before, any numbers of calls,
sessions, events and disturbances; that about recurrence for any lengths of days,
weeks, months and years, any rules, and any zones whose clock is set once. They assume
what the modules assume of their constants, which the runs evaluate:
`JobAssumption`, `UniqueJobAssumption`, `PolicyAssumption`, `TimingAssumption`,
`QuotaAssumption`, `AccountsAssumption`, `RowAssumption`,
`AdministrationAssumption`, `RecordAssumption`, `RecurrenceAssumption`,
`LimitAssumption`, `SchedulerQuota`, `ScheduleAssumption`, `IngestAssumption`,
`RetentionAssumption`, `NoneAssumption`, `PoolAssumption`, `TabAssumption`,
`RowsAssumption` (rows have ids of their own, and those that are there fit
together), `EventsAssumption`, `DaysAssumption`, `CalendarAssumption`,
`ZoneAssumption` (no clock is set by more than a day), `RuleAssumption` and
`ReachAssumption` (the calendar does not end before the loops do, and the months
and years that the loops look at cover the days of the property: 1200 months, 100
years and 3660 days in the code).

**Without an assumption on the lease** (`DeliveryQueueProofs`). `CoreInvariant`
is inductive. It joins the properties to what they need:
`WorkersHoldJobs` (a worker that is not idle holds a job of a stored event, an
attempt that exists, and believes in a success only if the channel accepted),
`AbsentJobsAreEmpty`, `NothingBeforeTheEvent`, and `EmptyHanded` (a worker that
found no payload holds a job of an event that has none to mask; without it
`ReadPolicy` could skip an event that is still raw). From it: `TypeOK`,
`AttemptsLeft`, `SuccessWasAccepted`, `LogMatchesJob`, `PolicyApplied`, and the
action property `PayloadStaysMasked`. These hold however late a worker is.

**With `HoldLimit <= LeaseTime`** (second part of `DeliveryQueueProofs`).
`LeaseInvariant` is inductive relative to `CoreInvariant`. Its heart is
`LeaseHeld`: a delivery nobody interfered with still has its lock, the age of
the lock is the time since the claim, and no attempt was counted meanwhile.
As the elapsed time never exceeds `HoldLimit`, nobody else can claim the job.
`FinalisersComeLast` says that a worker about to replace a payload left no job
that needs it. From it: `OneWorkerPerJob`, `CompleteHistory`,
`PayloadKeptWhileNeeded`, `DeliveredStaysDelivered`.

**Refinement** (third part, same assumption): `Spec =>
KeepsContract`. The one step that needs the invariants is the end of an attempt:
by `LeaseHeld` the job is processing and the attempt the next one, so the end is
the contract's `Succeed` or `Fail`; if the job was interfered with it is
`EndLate`.

**Accounts** (`AccountsProofs`). `AccountsInvariant` joins all its properties to
what they need. `UsedIsGone`: a code or state that let a request through is in no
table and is never made again, since its maker is done (`NamesAreDone`); hence
`UsedOnce`. `CallbacksAreBound`: a callback that will get a session has the
bound identity, and a bound identity is never replaced; hence
`SessionsOfTheBound`. `LoginsSawThePassword`: a login past its check saw the
current password or was overtaken; hence `PasswordEndsSessions`.
`EnablingIsConfirmed`: while a request is enabling, the secret is confirmed, gone
or hurried; hence `FactorIsConfirmed`.

**Administration** (`AdministrationProofs`). `CopiesFollow`: without overlap one
save at most is between its writes, and the copies it has passed are its draft;
hence `SettingsAgree`. `DraftsAreValid` gives `EnabledIsConfigured` since a save
writes the whole record. `TokensBelong`: a token is in no row but that of its
source, and in none before its maker has written; without it a rotation could void
the token of another source. `CredentialsKnown` says of drafts what
`CredentialsWereShown` says of rows.

**Scheduler** (`SchedulerProofs`). `SchedulerInvariant` follows what a schedule
was loaded, edited and stored with. `EditsHaveNextRun` (a save under way that
enables has computed a next run) gives `EnabledHasNextRun`, which the run checks as
part of `KeepsAgenda`: no step of the agenda enables a schedule without a next run. A
schedule is plain if it was saved once and never cut between its two transactions; then
`PlainIsAsLoaded` (what a pass has loaded is still the row, unless deleted) and
`EventsLieBehind` (an occurrence that has an event lies before the next run, but
for the one a pass has just stored) are inductive together, and give
`OneEventPerOccurrence`: the run that a pass stores is the next run of the row,
which has no event yet. `StoredHasEvent` gives the action property `NoRunIsLost`.
That NextRun is the least later occurrence uses the well-foundedness of the naturals.

`SchedulerIsAnAgenda` is the refinement, `Spec => KeepsAgenda`. It needs one
invariant more, `RulesFollowed`: the next run of every row, loaded item and draft is
an occurrence of its own recurrence. A `StoreEvent` is then a run of the agenda: for
a tidy schedule the loaded item is the row (`PlainIsAsLoaded`) and has no event yet
(`EventsLieBehind`). A `MarkRun` plans the next run: for a tidy schedule the first
after now (`NextRunIsNext`) and after an event (`StoredHasEvent`). Cuts and second
saves make a schedule loose, and other steps stutter (`SameAgenda`).

**Recurrence** (`RecurrenceProofs`). `NextRunsAreFirst` is `Spec => []NextIsFirst`.
The invariant, `RuleInForce`, says little more than that the next run is what
`NextRun` computes for a stored rule; the weight is on the algorithm.
* The clock: `DateReads` says that `time.Date` finds a local time if there is one,
  and what it makes of one there is not. From it, `DayFromIsNear`: the day the code
  takes for a midnight is this one, unless that midnight is skipped west of
  Greenwich; then it is a day next to it. That is the exact place of the
  exception `MidnightMissed`.
* The calendar: a day lies in one month (`DayInItsMonth`, `MonthIsOne`), later days
  in no earlier one (`MonthsInOrder`). These go by the least month that fails, since
  induction is out of the provers' reach.
* Soundness: what a place of a loop has is the candidate of a day that the rule
  names (`OnDayIsNamed`, `OnMonthIsNamed`, `OnYearIsNamed`).
* Completeness: a named day is the place of some index that the loop reaches, and
  all that the places before have comes no later (`DayIsFound`, `MonthIsFound`,
  `YearIsFound`; `CandidatesInOrder`, which is where a clock set by more than a day
  would do harm). `FirstFoundIsFirst` joins them.
* The preview: `PreviewsGoOn` is `Spec => []PreviewGoesOn`. The run lies on a day the
  rule names, so what was counted from the start to there is a multiple of the
  interval, and counts from either agree further on (`CountsAgree`, `WeeksAgree`);
  each place of each loop then finds the same (`DaysGoOn`, `MonthsGoOn`, `YearsGoOn`).
  A month that the code takes for the one before the run's is past
  (`EarlierMonthIsPast`), since the clock shows later days no earlier.

The proof asked for two corrections of the model. A rule's `month` beyond the
twelfth led into the next year, where the code's candidate has the wrong year and
is dropped; weekdays beyond the week were taken as given, where the code leaves
them out, so that a rule with no other is one on the weekday of its start. Such rules
were not in the run and now are.

**Ingest** (`IngestProofs`). `KeptIsRemembered`: an event that was stored is
still in the table, under its source, or older than the retention, unless its
source was deleted; with `RowsAreTheirs` (a row has the key, source and time of
its request) and a retention as long as the window, the look-up of
`StoreEvent` finds every event inside the window; hence `KeyAcceptedOnce`, and
`AnswerNamesOwnEvent` since a row it finds was stored. `NothingBeforeItsTime`
and `JobsFollowRoutes` (jobs go to groups the request was routed to, and
first_match routes to one) give `FirstMatchIsOneGroup`. `UnmatchedIsMasked` is
inductive with them.

`IngestionIsAnInbox` is the refinement, `Spec => KeepsInbox`. It needs one fact
more, `RepliesFollow`: a request that has not reached its store has no event, and
one that is masking has its own and replies with it. A `StoreEvent` then is an
`Accept`, since by `KeptIsRemembered` an empty look-up means that nothing the
request repeats is inside the window, or that its source was deleted
(`WindowIsClear`); an `AnswerDuplicate` is an `AnswerRepetition`, since the row
found is that of an accepted request inside the window (`RowsAreTheirs`).

**ConnectionPool** (`ConnectionPoolProofs`). `HoldsOwn`: at each place of its
call a caller owns as many connections as the place needs, and they are its
own. It gives `NothingLeaks` for pools of any size, and `ListingNeedsTwo`: in a
pool of one no listing ever comes to read a group's bindings. That is what the
run `connectionpool_listing` finds, without its bounds.

**Console** (`ConsoleProofs`). A step is of the session or
of one page, and what it may do to calls and copies is said once for each
(`PageEffect`, `SessionEffect`, `CopiesGoOn`); the rest of the proofs argues from
these effects and not from some eighty actions. Everything rests on `Shape`: the
type invariant, the calls sent are the first ones and name what their page may
send (`CallsOK`), a call is of the page on display only if that page sent it
(`MineHere`), and answers, copies and forms are records of the right kind.

* `TokenIsPageSession` is inductive given `Shape`.
* `SettingsForm`, for `UntouchedFormIsCurrent`: while a form is not behind, at
  most one save is under way, it is the form's, and what it answers is in force.
  Without it the answer of an older save could be taken for the last.
* `CopiesInv`, for `CopiesFollowWrites`. That property speaks of a tab at rest,
  so it is far from inductive. The invariant says when a copy may differ: a list,
  the set-up status or the settings only while a write of it has been served and
  not answered; the name and the factor in the copy of `/auth/me` only while a
  renaming or a switching has been. Of a fetch that was read and that no write
  overtook it says the same, since it may land at any moment, and of one under
  way for `/auth/me` that it was sent in the session of the cookie.
* `FactorInv`, for `ShownCodesInForce`. `OneEnable`: a secret is switched on by
  one call at most. `CodesKept`: nothing under way is about the secret whose
  codes are on display or being made.
* `RowsInv`, for `RowsFit`. The form of a group is filled from copies that may
  be old, so the invariant is about all rows that anyone knows of (`Seen`: table,
  copies, fetches, and saves under way): one id has one type everywhere.
* `AddressInv`, for the two properties about addresses. An address works, or its
  source is `muddled`, wherever it is: in the open dialog, in the answer of a
  creation or a rotation, and on the clipboard unless a rotation has been served
  and not answered; and a source that a second call rotates is muddled when the
  call is sent (`CallsKeepAddress`).

What kept a first attempt from being inductive led back to the code. A
second factor can be switched off while its set-up is under way (the dialog's
buttons wait for their own call only), and a reload loses the answer of a
rotation; the runs were too small for either to matter, and the model now has
them as exceptions of `ShownCodesInForce` and `CopiedAddressWorks`. Secrets of
accounts set up before the tour needed a name no call has (`FirstSecret`).

**Only model-checked:** the liveness properties (`EveryJobSettles`,
`DueRunsHappen`, `WorkersAreServed`, `PollsCatchUp`), since fairness and ENABLED
are beyond the prover.

## 5. What is not modelled

The evaluation of conditions and the redaction (section 6); cron expressions, which a library
computes; message text,
encryption, HTTP details, configuration and migration. The wording of refusals
and the order of the checks within one are abstracted; so is how old an event is
when a purge takes it, against a retention of days. Several events in one queue
are left to the proofs: jobs of different events meet only in the order of
claims.

Of the console: wording (`lib/i18n.tsx`), theme, sidebar, widgets and layout;
the pages of the provider during a Pocket ID login; the settings' other fields.
The channel types and the Pocket ID status of the login page never change and
are constants. A call that the network breaks was either served and loses its
answer, or never arrived, which looks like a refusal. The retries of a failing
query are part of one fetch; the removal of copies that no page used for five
minutes is left out. Reloads and other tabs' logins happen on the tours that come
to the login page. The deliveries a page retries are not those of
`DeliveryQueue` but three states of them, and the cascades are those of its
lists: what a handler does inside is the business of the modules above.

## 6. What is left

Every module of section 2 is done, and each property of a passing run is proved but
for those that section 4 names. Not modelled are two parts that are pure functions of
one value: `internal/rules` (the evaluation of a condition, which `Ingest` takes as
the set of requests it matches, and the redaction) and the reading of a platform's
answer in `internal/channels` (which `DeliveryQueue` takes as accepted or not).
