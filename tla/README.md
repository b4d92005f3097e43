# Verification of the BACnet supervisor

TLA+ models of the supervisor (backend services in `src/backend/app`, live
client in `src/frontend/src/api`), checked with TLC on small instances and, for
the most important properties, proved with TLAPS for every value of the
constants.

## 1. The system

| Component | State | Operations | Talks to |
|---|---|---|---|
| Alarm machine (`alarms/machine.py`) | state, `pending_since` | `update`, `acknowledge` | called by the engine |
| Alarm engine (`alarms/engine.py`, `store.py`, `runner.py`, `main.py`) | runtimes of the rules, one asyncio lock, rows of `alarm_event` | `load`, `on_value`, `on_device_status`, `on_bacnet_event`, `tick`, `acknowledge`, `_persist` | PostgreSQL, Redis pub/sub, notifier |
| Notifier (`alarms/notifier.py`) | sliding windows, digests, queue | `submit`, `flush_due`, `_deliver` | SMTP, webhooks |
| Alarm API (`api/routes/alarms.py`) | `alarm_rule` | create, update, delete, acknowledge | engine, through Redis |
| Write path (`api/routes/write.py`, `api/commands.py`, `collector/writer.py`) | stream `cmd.write`, its consumer group, one subscription per request | `write_point`, `send_and_wait`, `Writer.run/process/execute` | device, `audit_log` |
| Poller, registry, discovery, settings (`poller.py`, `registry.py`, `discovery.py`, `config_sync.py`) | objects of devices and points, `device.online` | poll cycles, discovery, replacement of the registry, hot reload | devices, PostgreSQL, Redis |
| COV manager (`cov.py`) | subscriptions, deadlines of points | subscribe, renew, fall back to polling | device, poller |
| Recorder (`recorder.py`, `collector/store.py`) | buffers, rows of `sample` and `point_latest` | `handle`, `flush` | PostgreSQL, Redis |
| WebSocket (`api/routes/ws.py`), live client (`frontend/src/api/live.ts`) | subscriptions, one socket | subscribe, snapshot, live values, reconnect, refresh | Redis, `point_latest`, browser |
| Synoptics (`api/routes/synoptics.py`, `synoptic_expr.py`) | versions, slugs; expressions | create, save, restore, delete; check | PostgreSQL |
| Users (`api/routes/users.py`, `api/deps.py`, `auth/cli.py`) | accounts | create, update, delete, authorise | PostgreSQL |
| Login (`api/routes/auth.py`, `auth/lockout.py`, `auth/tokens.py`) | counters and locks in Redis, sessions | login, refresh, unlock | PostgreSQL, Redis |

What is hard here: every service awaits in the middle of its operations;
PostgreSQL and Redis can refuse, or accept and lose the answer; pub/sub loses
what nobody listens to; streams deliver again what was not acknowledged; Docker
restarts a service whose task failed; discovery replaces objects other tasks
hold; the API checks and commits in separate statements. `PROJECT.json` lists
each hazard at its line, with the properties that would catch it.

## 2. Modules

- `AlarmMachine`: the pure machine as operators. `waited` is
  `now - pending_since` in units of the delay.
- `AlarmLifecycle`: the abstract specification of `alarm_event`: a rule has at
  most one open alarm and a row follows the arrows of the diagram in
  `machine.py`; orphans may be closed and a rule removed with its history.
- `AlarmEngine`: the alarm service, shown to implement `AlarmLifecycle`. One rule
  watches one source. An operation under the lock fills `todo`, the runtimes to
  update; a transition to record is a `job` with the two awaits of `_persist`:
  the commit, then the publication with the notification. `world` is the truth
  about the source; `inbox` the subscription. Faults: `db` (a write is refused),
  `commit_lost` (committed, the answer is lost), `publish`, `close_orphan` (load
  is abandoned half-way), `crash`. `GrowsOld`: the last valid reading of a stale rule
  is too old again, after a value that was handled late. `AlarmEngineProofs` holds
  its theorems,
  `MCAlarmEngine` definitions for TLC.
- `WriteCommands`: one command from the request to the device and back. `id`,
  `lastId` and `pel` are the Redis stream and its consumer group; `step` is where
  `process` stands on the first entry of `batch`. Implements `SetPoints`. Theorems
  in `WriteCommandsProofs`.
- `SetPoints`: the abstract specification of the write path, without clock,
  cursor, batches, crashes or mailboxes: commands are served one after the other
  in the order of the stream, none once it is settled, a command is settled after
  its answer, and "ok" comes after execution, trace and answer.
- `Notifier`: the notification queue; notifications are numbered in the order of
  `submit`. `recent` is the deque of `_route`, which drops its first entries once
  they are older than the window; `alone` is the history of what left alone. Theorems
  in `NotifierProofs`.
- `Collector`: the tasks that share one device. `dev` is the object in the
  registry; `detached` says that the object a cycle or a reload holds has been
  replaced by `Registry.replace` since, and the cycle carries the old one's state
  on. `db`, `heard` and `shown` are what the database, the subscribers and the
  points' last readings say. Theorems in `CollectorProofs`, with those on `Cov`.
- `Cov`: the deadlines that the COV manager and the poller move. `subs` is what
  the device itself remembers, `active` and `expires` what the collector believes,
  `interval` the setting that `PointConfigSync.reload` changes.
- `PointValues`: the abstract specification of a point in the database: values
  were read, `point_latest` never goes back, a written sample stays.
- `Recorder`: `handle` on both sides of its publication, `flush` on both sides of
  its transaction; implements `PointValues` (`Implements`). `stored` holds the
  `stored_*` of every `PointState` of the point since the start, the last one in the
  registry; `Replace` is `Registry.replace`, and each handler keeps the object it
  fetched before the await (`fetched`), which it judges and updates. Readings are
  numbered by timestamp, `max_interval_s` counts them. Theorems in `RecorderProofs`.
- `LiveFeed`: server and client of the WebSocket for one point, over the database
  `PointValues` promises. Theorems in `LiveFeedProofs`.
- `Synoptics`: the handlers statement by statement. A transaction's locks are read
  off its `pc`. Theorems in `SynopticsProofs`.
- `Accounts`: user administration, statement by statement; ids tell an account
  from one created again under the same login. Theorems in `AccessProofs`, with
  those on `LoginGuard`.
- `LoginGuard`: concurrent logins, every Redis call a step, keys with the time
  they have left.
- `Expressions`: the recursive descent of `synoptic_expr.py` and the language of
  its grammar described without it (this module is the only one with RECURSIVE
  operators).
- `MCApi` (Synoptics, Accounts, LoginGuard, Expressions), `MCCollector`
  (Collector, Cov), `MCValues` (Recorder, LiveFeed): parts of one service that
  share no state are checked in one run. These modules extend their parts, whose
  names therefore differ (`CollectorInit`, `AccountsNext`, `feedVars`). The variable
  `part` picks the part a behaviour runs and the others stay as they start, so that
  state spaces add up; the properties and the fairness are those of the modules.

Definitions whose comment begins with "Mutant of" are plausible bugs of the
definition that follows. They are used by no specification; replacing the
definition by its mutant must make the property named in `PROJECT.json` fail.

### Correspondence and abstraction

- `AlarmEngine.Load` is one step: PostgreSQL reads of `load` that see different
  moments are equivalent to a load before or after the edit, as the next load
  (alarm.rules or the minute timer) repairs both. Its initial evaluation is not:
  it is the `todo` that follows.
- Conditions are Boolean: `evaluate_value`, `is_stale` and
  `is_abnormal_event_state` decide `world`; a reading without information changes
  nothing and is not modelled. A `value` rule may have no row in `point_latest`
  yet (the set `known` of `Load`). Delay, kind and channels of a rule are
  constants; edits of a rule switch it between enabled and disabled.
- Timestamps, values and names carried by alarms and messages are left out; so
  is the layout of digests (an e-mail lists 50 alarms, a webhook 200).
- `PersistFails` also stands for a failing `user_login` in `acknowledge`.
- In `WriteCommands`, role, existence, writability and limits are one Boolean
  `allowed`, which may be withdrawn at any time; the device may obey, refuse, or
  obey without the answer arriving. `Revoke` is one-way because a right given
  back before the check equals one never withdrawn. The stream is not trimmed
  (`maxlen` 10 000); the value read after a write (`_refresh`) is a reading of
  `Collector` and `Recorder`.
- In `Notifier` a failed send may have reached its recipient. The channels of one
  rule name at most two recipients, each once.
- In `Collector` the points of the device do not change, each batch of a cycle is
  one point, and the settings of a point are one version number. The offline
  device is probed through one point. A `comm_lost` loop is one step. The status
  row a discovery writes is `Upsert`. What a detached object is left with dies
  with it, except the row and the message it still writes.
- In `Cov` time advances by ticks longer than an exchange; what is due is done
  before the next tick. Lifetime 0 (a subscription without end), the limit on
  subscriptions and a subscription under way while the registry is replaced are
  left out. A discovery restores `supports_cov`, as `load_devices` reads it again.
- In `Recorder` another status, or a missing value, is a value further away than
  the deadband. A flush asked by a full batch is the flush of the timer. The buffer
  is cut on a failed flush only, as in the code. The point stays in the registry: of
  one that disappears `handle` drops the readings.
- In `LiveFeed` a refused handshake reaches the client as 1006. Reordering inside
  a connection does not happen (TCP); a drop loses what it carried. Back-off
  delays are one timer. The listeners of alarms matter only as a reason to stay
  connected.
- In `Synoptics` a statement sees the rows committed before it (READ COMMITTED),
  an UPDATE or DELETE waits for the row and an INSERT for the unique index and the
  foreign key. Names are not compared: any save or restoration may change the
  name. In `Accounts` a change writes the columns that differ from the row that
  was read, as the ORM does. In `LoginGuard` a password is the number of its hash.

## 3. Runs

| Run | Shows |
|---|---|
| `engine_safety` | `EngineInv` (types and consistency), `MemoryMatchesRow`, `NotifiedMatchesRow` and refinement of `AlarmLifecycle`, two rules (polled value, comm_lost), delay, two refused writes or crashes, four edits or source changes |
| `engine_faults` | `OpenAlarmTaken` under all five faults: while a condition lasts, an open alarm ends in the hands of the engine, the one a lost commit left included (stale and bacnet_event rules) |
| `engine_liveness` | lasting conditions raise, lasting returns clear (polled value, no delay) |
| `writes` | two concurrent writes: refinement of `SetPoints`, truthful answers, no missed result, repetition only after a crash, stream order, everything handled and, until a database call fails, traced |
| `notifier` | order, completeness and rate of messages over digests, retries, crashes, and every notification leaves memory |
| `api` | synoptics: whole histories, accepted documents kept, old bases refused, no circle of locks; accounts: the last administrator is lost only by requests that cross; logins: a session was opened with the password in force, a lock is deserved; expressions: the parser accepts its grammar |
| `collector` | the collector ends by holding the device as it is, tells the last change, gets every setting and marks lost points; offline is deserved; points under COV are read again in time, subscriptions are renewed in time and made again after silence, refusal or reject |
| `values` | the recorder implements `PointValues`, holds its samples, gives back the history within the deadband and settles; the live client has one way to a connection while somebody listens and no socket otherwise, and the widgets settle on the last reading |
| `delayed_raise` (violation) | with a delay, one refused insert and the alarm is never raised: the rollback restores the state PENDING without `pending_since` |
| `late_write` (violation) | a write reported 504 is executed afterwards |
| `lost_save` (violation) | a save that crosses another is accepted on top of work its author never saw, where `base_version` promises a 409 |
| `expired_feed` (violation) | a connection that drops around the expiry of the access token never comes back |

Some properties hold under a condition, which is the part of the question a
reader should know: `OfflineDeservedUntorn`, `HeardSettles` and `PointsLost`
exempt a cycle that ended on a replaced object (`torn`), `HeardSettles` and
`PointsLost` a failed call or a restart (`failed`), `PointsLost` a reading of a device
held offline (`revived`); `LatestSettles` exempts readings that were judged out of
order (`crossed`). `HistoryFaithful` asks of every reading a sample that stands for it,
and that it be the last one before it except for the readings in `excused`: those that
crossed another, and those judged after a sample kept out of order or on a replaced
object, until the next sample. Samples that a stop or a crash drops, or the limit of
the buffer, are `lost`, of which `SamplesHeld` and `LatestSettles` say nothing.
`FeedSettles` exempts a snapshot that is behind what was published (`lag`), a widget that joins a point
already subscribed (`late`: nothing is sent to it before the next change) and a
`_pump` that died, `AdminLostOnlyByCrossing` requests that cross. Each of these is
a history variable that only its event sets, and the runs reach both sides.

Bounds. Two rules are enough for what rules share (the lock, `load`); three or
four alarm ids let a rule have a closed, an open and a retried alarm; two faults
let a fault strike the recovery of another. A queue of one message loses no
interleaving that matters: the engine reads one message at a time and a polled
value is repeated. Two commands give order and batches (`Count` 2: both are
pending at a crash); the clock passes both the API timeout and the age limit. In
`Notifier`, three notifications fill a threshold of one and a digest of two, two
failures exhaust the attempts and the clock goes past one window. In `Collector`
two points give a cycle that fails half-way, and the four budgets let a device
come and go, alone, around discoveries, around failures, and settings change
around a discovery and a failure. In `Cov` one of three points is never under COV,
the safety period is two intervals, a lifetime two safety periods, a setting may
exceed the safety period, and three mishaps let a return follow a loss and meet a
refusal or a reload. In `Recorder` four readings
drift through two deadbands and fill a buffer of two twice; three handlers at once and
one replaced object let one judge on the old object between two on the new one; two
events let a failed flush be followed by a crash, a stop, a discovery or another
failure. In `LiveFeed` two
widgets, four changes and two troubles let a listener leave and return during a
reconnection. Three requests on synoptics let a save, a restoration and a deletion
meet. Two requests of administrators and a use of the tool cross. Three attempts
pass a limit of two failures. Five lexemes of eight classes reach each level of
the grammar inside parentheses. Alarm ids are interchangeable, which the symmetry
sets use in runs without liveness.

Deadlock is checked for the engine and the collector, which never stop; the other
models end when their bounded inputs are used up.

Fairness. Engine: each task of `main.run` makes progress and asyncio's lock is
first come first served, hence strong fairness of the operations that compete
for it (`OnMessage`, `Tick`, a `Load` that has something to load) and of the
poller's readings; Docker restarts the service, hence weak fairness of the
startup; a silent source's last value grows old again. Writer: its task runs and is restarted. Notifier: worker and flush loop
run, a send ends (SMTP and HTTP have timeouts), time passes. Collector: the
poller's, discovery's and the reload's tasks go on (weak fairness of each task,
not of each step); discovery comes back at its interval only after a whole cycle
(`calm`), since an hour separates two of them. Cov: both loops turn, an exchange
ends (`_call` has a deadline), time passes. Recorder: handlers resume and the
flush timer fires; nothing says a flush succeeds, but failures are finite.
LiveFeed: browser and server go on, timers fire; a refresh that fails is a
trouble, never fair. Synoptics: PostgreSQL grants a lock that is free.

## 4. Proofs

Every invariant and every action property that holds in a run is also a theorem, for
every value of the constants that the assumption of its module allows, except
`GrammarExact`; so are the refinements of `AlarmLifecycle`, `PointValues` and
`SetPoints`. The liveness properties are outside the prover's reach, but their safety
cores are proved where they have one: the state in which nothing moves any more is
the one the property awaits, or somebody can always move.
The assumptions say what the constants are (finite sets, natural numbers, subsets of
one another); where a theorem needs more of the settings or of the faults, the
hypothesis is named in its statement (`CleanFaults`, `SafetyFirst`, `ProbeFirst`). The bounds of the
runs are constants of the theorems, which thus hold for any of them.

`AlarmEngineProofs`, for all sets of rules and alarms, kinds, delays and bounds:

- `TypeCorrect`, from `EngineAssumption` only.
- `HeldAloneHolds`: under all faults, the alarm the engine holds for a rule belongs
  to that rule and no other alarm of the rule is open, so an update never goes to a
  closed alarm beside an open one. A step writes rows in one of five ways
  (`RowSteps`), which gives the lemma that a rule has one open alarm at most; what
  the engine holds then depends on who sets `event`: `load` and the retry after a
  refused insert take the open alarm there is (`HeldTaken`), an insert and a
  reopening find none (`HeldInsert`, `HeldUpdate`). It is the safety side of
  `OpenAlarmTaken`.
- `EngineInvHolds`, `MemoryMatchesRowHolds`, `RefinesLifecycle`: when the only
  faults are refused writes and crashes (`CleanFaults`: a lost commit, a refused
  publication or a half-closed orphan leave memory and row apart, see section 5).
  `MemoryMatchesRow` is not inductive: a job records an arrow of the diagram and
  its rule is loaded (`JobOK`), a runtime holds an alarm exactly when its settled
  state is open (`HoldsAlarm`), the alarm it holds is its own (`EventOwned`), a
  deleted rule has no rows (`DeletedGone`), what is to be updated is loaded
  (`TodoLoaded`). One lemma per operation, then `RefinesLifecycle` maps each
  write of a row to a step of `AlarmLifecycle`.
- `NotifiedMatchesRowHolds`, under `CleanFaults` too: `NotifiedMatchesRow` is
  inductive next to `EngineInv`; a row changes at a commit whose job has yet to
  publish, and a job publishes the state it committed.

`WriteCommandsProofs`, for any number of commands, timeouts and faults:

- `WriteTypeCorrect`; `StreamInvHolds`: ids are distinct, the batch is a prefix of
  the pending entries, and all of them once new entries are read (this uses
  `FirstIsPrefix`, on the cardinality of what precedes an entry).
- `WritesInStreamOrderHolds`: from `OrderInv`, what was executed precedes all that
  is pending.
- `ExecutedAgainOnlyAfterCrashHolds`, from `RepeatInv`.
- `TruthfulAnswerHolds`, from `AnswerInv`: a verdict "ok" implies execution, and
  after the audit step a trace, in the collector, in the mailbox and in the
  answer.
- `HandledIsTracedHolds`: without assumption on the faults; the property itself
  speaks of the time until a database call fails, which the count of faults and of
  crashes tells.
- `ResultsNotMissed`, from `ResultInv`: what was answered had been sent, and
  `send_and_wait` subscribes before it sends.
- `HandledIsAnsweredHolds`, from `AckedInv`: only `Xack` makes an entry done with
  (`HandledSteps`; a batch that is read joins the pending entries at once,
  `ReadNewHandles`), and `process` acknowledges after it published. With the
  previous one, `NobodyWaitsInVainHolds`. `HandledForGoodHolds`: nothing happens to
  an entry after that.
- `WritesImplementSetPoints` (`Spec => ImplementsSetPoints`). The entry that is being
  processed is the first that is not done with (`TurnOfCurrent`, from `StreamInv`:
  the batch is the beginning of what is pending, and all that was delivered is
  pending or done with); a repetition after a crash is another turn of the same
  command. Clock, crashes, reads of the group, withdrawn rights and answers other
  than "ok" are stuttering steps.
- `WriterNeverStuckHolds`, the safety core of `EveryCommandHandled`: as long as an
  entry is not done with, the guard of one of the steps of the Writer holds
  (`WriterCanStep`, written out since ENABLED is out of reach; TLC finds it
  equivalent to `ENABLED WriterStep`). It needs a first entry in every set of
  entries, hence a least number in every set of numbers (`LeastNumber`).

`NotifierProofs`, for any number of recipients, channels, attempts and failures:

- `NotifierTypeCorrect` and `NotifierInvHolds`. A notification on its way to a
  recipient is in its digest, in a job of the queue, in the job under way or in a
  message that arrived. These four places form one line (`Ordered`): whatever is
  behind was submitted later. The job under way repeats a message that arrived
  without its answer, or is later than it (`SendingOrdered`).
- `OrderKeptHolds` follows from the line, `NothingForgottenHolds` from `Kept`: what
  was asked is in one of the places or was given up.
- `NotFloodedHolds`: until a failure `recent` is the end of what left alone and the
  rest is out of the window (`Windowed`). Dropping the old first entries is dropping
  all the old ones since the times are in order (`Sorted`, `OlderFirst`).
- `ArrivesOnceHolds`: until a failure nothing is sent twice, since a job then holds
  only what is later than all that arrived (`SendsNew`, from `Ordered`). With
  `NothingForgotten` a notification goes exactly once where nothing fails.
- `SomethingToDoHolds`, the safety core of `EverythingLeaves`: what waits is with the
  worker or in a digest due within a window from now. New submissions do not put a
  digest off, since `recent` holds no time after now (`Timely`).

`CollectorProofs`:

- `OfflineDeservedHolds`, for any number of points, cycles, discoveries, reloads,
  failed calls and restarts. It needs that the registry counts no more failures than
  there were cycles without answer (`CountDeserved`), which only the end of a cycle on
  a replaced object breaks; `Registry.replace` keeps or forgets the count, and never
  raises it.
- `RenewedInTimeHolds`, from `Fresh`: as long as the device stayed, the lifetime the
  collector counts is the one the device counts, and a subscription accepted while
  the device is held offline is younger than its last probe, which forgets it. This
  needs `default_interval_s < lifetime_s` (`ProbeFirst`): with equality TLC lets such
  a subscription expire just before the probe.
- `RereadInTimeHolds`, from `Waits`: a point is read within the longest of its
  intervals and `safety_poll_s`, or no poll has come since its last subscription,
  whose age either deadline tells (`Postponed`). This needs
  `safety_poll_s + renew_before_s < lifetime_s` (`SafetyFirst`): with equality a
  renewal may meet the safety poll at the same tick and put it off again. The bound is
  reached: TLC finds a point unread for all of it.
- Both hypotheses are met by the defaults and `config/collector.yaml` (30 < 3600,
  300 + 300 < 3600), and nothing validates them. With a shorter lifetime (the test
  harness uses 60 s, `backend/tests/harness.py:71`) each turn of `service` renews, and
  such a point never becomes due while the device accepts. `CovAssumption` itself only
  leaves out a renewal that is due again as soon as it is made, in which the ticks of
  the model have no meaning.

`RecorderProofs`, for all values, deadbands, limits and bounds
(`RecorderAssumption`):

- `SamplesHeldHolds` and `RecorderImplements` (`Spec => Implements`, the
  refinement of `PointValues`), from `RecorderInv`: types, every number in
  memory, in the batch or in the database is a reading that was taken (`Taken`),
  a closed batch is empty (`Closed`), and `SamplesHeld` itself. `Taken` is what
  bounds `point_latest` by the readings; that it never goes back is the condition
  of the upsert. The step that cuts the buffer uses that a sequence is its cut
  and its last `MaxBuffered` elements.
- `HistoryFaithfulHolds`, from `FaithInv`: a reading is judged once (`Judging`);
  handlers hold objects of this start, a later handler never an older object
  (`Objects`); and unless the last sample was kept out of order or on a replaced
  object, the object in the registry knows the last sample, and so does the object of
  every handler that no newer reading has overtaken (`Reference`). A replacement, a
  failed flush and a restart leave it so.
- `LatestHeldHolds` and `QuietSettledHolds`, the safety core of `LatestSettles`: the
  last reading is being published, in the buffer, in the batch or in `point_latest`,
  unless an older one was buffered after it or a restart lost it; the buffer is not
  older than the batch (`Pending`), so a batch put back never hides a newer value.
  Hence, once nothing is published, buffered or flushed, the database is as
  `LatestSettles` awaits it.

`LiveFeedProofs`, for any number of widgets, readings, changes and troubles:

- `OneWayBackHolds`, from `WayInv`: one way while somebody listens; without listeners
  no socket (`Released`), though a refresh that `disconnect` cannot stop
  (`live.ts:157`) may go on and set a timer. It is not inductive: a close the client
  has yet to see belongs to its socket (`Announced`), a connection the server holds
  to a socket of the client (`Held`), and `retry` tells that a timer runs
  (`Cancellable`).
- `ShownWhenQuietHolds`, the safety core of `FeedSettles`: when no request, value or
  snapshot is under way, every listener that is not `late` shows the last published
  value, or `lag` says that the row was behind. The inductive invariant `FeedInv` follows
  a value on its way (`OnTheWay`): the queue of the subscription is in order (`Sorted`)
  and newer than what the snapshot's task has sent (`Ahead`), the last published value
  ends it or was sent, unless none came since the subscription (`Caught`), a snapshot
  brings what was published at the subscription (`Brought`), and what was sent last is
  last on the connection or on the screen (`Arrived`); meanwhile the requests under way
  alternate and end with what the listeners want (`Agreed`).

`SynopticsProofs`, for any number of requests: `SynopticTypes`; `HistoryIsWhole`,
`AcceptedStored` and `OldBaseIsRefused`, from one invariant. The number a request
computed is free or was taken until its insert, and the next one after it
(`Numbered`); the row lock of a new version keeps other versions and deletions away
until the commit (`Locks`); a synoptic is addressed by who created it or after its
creation (`Owners`); what is to be written, and was, is in the rows (`Writes`).
`LocksInOrder` and `SomebodyAlwaysMoves` are the safety core of
`EveryRequestAnswered`: who waits for a row lock waits for a request nearer to its end
in one order of four levels (`Level`), so there is no circle and, while a request is
in its handler, one of them waits for nobody. `WaitsFor` writes the waits of the guards
out; TLC finds every request that waits for nobody enabled.

`AccessProofs`:

- `SessionsProved`, for any number of logins: the hash a login read is the one of the
  password it was given, and the stamp of the session is read with it (`Proved`).
- `LocksDeserved`: while Redis answers, the counter is the number of a set of failures
  no older than its key (`Counted`), and a key without expiry is about to get one
  (`Timed`). An attempt counts once, hence cardinalities.
- `LastAdminCrossed`, for any number of accounts, requests and uses of the tool: until
  another change is committed, a request that was checked holds the row as it is, and
  what `Forbidden` refused is refused still (`Uncrossed`); its commit then leaves an
  active administrator (`KeepsAdmin`).

Only model-checked: the liveness properties themselves (fairness and ENABLED are
outside the prover's reach), and `GrammarExact`, on a recursive definition
(`Expressions`), which compares the parser with its grammar over bounded inputs: the
library's induction theorems cannot be instantiated by the provers, and only the least
element of a set of numbers is available (`LeastNumber`). The four violation runs are
counterexamples of TLC.

## 5. Disagreements met while modelling that no run states

The models contain these behaviours; the properties above exempt them.

- `engine.py:218` rolls a transition back when only the publication failed, though
  the row holds it ("rien n'a changé : on pourra réessayer", `engine.py:220`).
- `engine.py:159`: a device back online while nobody is subscribed keeps its
  comm_lost alarm active (`docs/QUESTIONS.md:133`: the restart "rattrape l'état
  courant").
- `alarms.py:368`: an alarm raised between the count and the deletion disappears
  while open (`docs/QUESTIONS.md:130`).
- `writer.py:68`: a failing database leaves a processed command out of the audit
  log (`docs/QUESTIONS.md:42`, "toute tentative [...] est tracée").
- `users.py:139`: two administrators who demote each other at once leave none
  ("il en reste toujours un", `users.py:133`).
- `poller.py:174` on an object that discovery replaced: its count of failures is
  lost, or a device is announced offline twice (`SPEC.md:262`, "3 cycles
  consécutifs").
- `recorder.py:54` fetches the `PointState` before the await of line 59, and lines
  67 to 71 judge and update it. If discovery replaces the registry meanwhile
  (`registry.py:66`), the update is lost with the old object and the next readings are
  judged against an older sample: one further than the deadband from the last sample
  may be left out, until the next sample is kept ("conserve le suivi des points
  connus", `registry.py:50`; "si la valeur ou le statut change de plus que la
  deadband", `recorder.py:24`).
- `cov.py:60`: a renewal puts the safety poll off, so a point may go unread for
  twice `safety_poll_s` (`SPEC.md:269`, "toutes les 5 min"), for more when its interval
  is longer, and for ever when
  `lifetime_s` is not above `safety_poll_s + renew_before_s` (section 4).
- `ws.py:87` ("aucune mise à jour perdue"): `point_latest` lags behind what was
  published by up to `flush_s`, so a client may be sent an older row after a newer
  value, or miss a value published before it subscribed until the next change.
- `ws.py:128`: when `_pump` dies with an error of Redis nobody notices; the
  connection stays open with frozen values and is not closed at expiry.

## 6. Not modelled, and the plan

Planned: the safety cores of the liveness properties of the collector (a registry that
holds a device as it is stays so), and an abstract specification of the accounts.

Left out: the stream `cmd.alarm` (the same code shape as `cmd.write`) and the
thresholds with hysteresis of `rules.py` (pure, unit-tested); appearing and
missing points in discovery; the COV manager on replaced objects; field checks of
synoptic documents; undo and redo in the editor (one user, no concurrency); BACnet
encoding and the bacpypes3 stack, value normalisation, message wording, rendering
of widgets, read-only routes, database migrations, the simulator and deployment
files, which hold no concurrent state of their own.
