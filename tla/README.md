# Verification of the forwarding and advertising service

TLA+ models of the backend under `src/backend/app`, the TLC configurations that
check them on small instances, and proofs of their main invariants for every
size of the instance, checked by TLAPS. Paths below are relative to
`src/backend/app` unless they start with `docs/`.

## 1. The system

Customers connect a Telegram account or a bot, forward messages by rules, and
post ads to groups. Five kinds of process share one Postgres database and one
Redis: the HTTP API, the customer bot, listeners, workers, and a scheduler.
They talk through rows: a job, a target or a control task is claimed with
`FOR UPDATE SKIP LOCKED`, leased for a while, and reclaimed if the lease runs
out. Most transactions stay open across a call to Telegram and decide on rows
read before it; that is where most of the hazards come from.

| Component | State it keeps | Operations | What makes it correct |
|---|---|---|---|
| Broadcast delivery (`services/broadcast.py`, `repositories/broadcasts.py`) | an ad's status and pause reason, one target row per group | send, schedule, pause, edit, resume, cancel, retry, select groups, delete; claim, load, attempt, settle; flood pauses | a group gets the ad once a round; rows tell what was posted; a stop holds; a round ends, once |
| Forwarding (`services/dispatch.py`, `services/delivery.py`, `repositories/jobs.py`) | a rule with its version, a job per message and destination | dispatch, claim, deliver, stale check, retry, dead letter, reclaim | one copy per destination; nothing is sent past an edit; no job is stuck |
| Rules (`services/rules.py`, `api/v1/rules.py`) | draft, active, paused or disconnected; filters; destinations | create, validate, activate, pause, edit, delete | an edit is seen by the jobs queued before it |
| Listener (`listener.py`, the intake half of `adapters/bot.py`) | a lock per connection in Redis, the poll's offset, album buffer, queue | acquire, renew, release; poll, buffer, flush, dispatch; cancel, shut down | one reader per connection; no update is forgotten; somebody takes over |
| Auto-reply (`services/autoreply.py`, `repositories/autoreply.py`) | settings, a log of who was answered when | claim an entry, send, give it back, purge | one answer per person and cooldown; a failed send costs nothing |
| Worker (`worker.py`) | in-flight tasks, heartbeats | claim loops, a transaction per row, control tasks | a crash loses nothing that the reclaim does not find |
| Scheduler (`scheduler.py`) | none of its own | reclaim, flood resume, scheduled ads, health, retention | every sweep does what no one else will |
| Safety and suspension (`services/safety.py`, `services/users.py`) | connection status, failure counts, `User.is_active` | pause a connection or a rule, suspend, reinstate | nothing is sent for a connection or account that was stopped |
| Connections (`services/connections.py`, `repositories/connections.py`) | connection status, account id, stored token or session; sign-ins in each process's memory | sign in with code and password, add a bot, health check, disconnect, safety pause | an active connection has its credentials; one connection per account; the cap holds; a lost session is noticed |
| Customer bot (`adminbot/handlers.py` and others) | conversation step and data, buttons of old messages | composing, editing and starting ads, pickers, sign-in, users, settings | a running ad is one that validates; one draft; a button does what its screen said |
| Access requests (`adminbot/auth.py`, `repositories/access_requests.py`, `services/users.py`) | accounts, requests and their decisions | gate, record, decide, suspend | operators are asked once; an operator remains; nobody is let in unasked |
| Notifier (`adminbot/notifier.py`, `repositories/admins.py`) | an outbox with dedupe keys | notify, drain | a person gets an alert, once |
| Control tasks and sync (`services/sync.py`, `repositories/chats.py`, `repositories/jobs.py`) | control task rows, chats, access | queue, claim, synchronise, check one chat, report | a command ends once and is told; rows say what Telegram showed |
| Archive (`services/archive.py`) | operators' settings, accounts' switches, looked-up details | choose, switch, archive a round | where and whose copies; a long wait is obeyed (not in the code, section 5) |
| Pacing (`security/ratelimit.py`, `worker._pace`) | token buckets in Redis | acquire, sleep, send | no more tokens than the rate gives |
| Admission (`worker.py`) | leased rows per connection | claim, count, hand back | ceilings per connection |
| API plumbing (`api/deps.py`, `security/auth.py`) | sessions, idempotency keys | authenticate, replay, commit after the response | a repeated request acts once; signed out is out |
| Adapters, views, discovery, crypto, configuration | see the note of each in `PROJECT.json` | | |

What is hard here: two workers at one row after a lease ran out; rows read
before a call to Telegram and used after it; counts taken inside one of two
concurrent transactions; replies that get lost; updates repeated by Telegram;
crashes between a post and its commit; screens older than what they show; customers, sweeps and safety pauses
that write the same row as a task in flight; locks that expire under their
owner. `PROJECT.json` lists these hazards, each at its line.

## 2. Modules

| Module | Models | Proofs |
|---|---|---|
| `Broadcast` | one ad on one connection, its targets, the delivery tasks, the sweeps, the customer, the operator | `BroadcastProofs` |
| `Forwarding` | one rule on one connection, its jobs, dispatch, delivery, edits, reclaim | `ForwardingProofs` |
| `Listener` | the intake of one bot connection by competing processes | `ListenerProofs` |
| `AutoReply` | the automatic reply of one connection | `IntakeProofs` |
| `Intake` | `Listener` and `AutoReply` composed: the consumer answers, then dispatches | `IntakeProofs` |
| `Connections` | one customer's connections: sign-ins, bots, health checks, safety pauses, disconnection | `ConnectionsProofs` |
| `ControlTasks` | the commands queued for one connection, the chats' rows, the runs that write both | `ControlTasksProofs` |
| `LeasedQueue` | abstract: what a queue of leased rows promises; `ControlTasks` implements it | `ControlTasksProofs` |
| `Compose` | one customer's ads before and between rounds: conversation, pickers, validate, start | `ConnectionsProofs` |
| `Notifier` | the outbox of alerts and its drains | `OutboundProofs` |
| `Access` | the gate, access requests, accounts, suspension | `ServicesProofs` |
| `Archive` | the archive's settings and one archived round at a time | `ServicesProofs` |
| `Api` | sessions and idempotency keys under requests that commit after their response | `ServicesProofs` |
| `Pacing` | the token buckets of one connection | `OutboundProofs` |
| `Admission` | the claims within the ceilings of a connection | `ConnectionsProofs` |
| `MCBroadcast`, `MCForwarding`, `MCIntake`, `MCCompose` | budgets, symmetry and constant functions for TLC | |
| `MCServices` | `Connections`, `ControlTasks`, `Compose`, `Notifier`, `Access`, `Archive`, `Api`, `Pacing`, `Admission`, for safety | `ServicesProofs` |
| `MCLiveness` | `Broadcast`, `Connections`, `ControlTasks`, `Compose`, for liveness | |

Conventions. A variable, action or helper has the name of its column or
function where it has one; a quantified action of the module is one operation
of the code, and `map` in `PROJECT.json` names its lines. A definition ending
in a word like `Forgotten`, `Again`, `Kept`, above the one it resembles, is
that definition with a plausible bug; the runs of `PROJECT.json` are repeated
with it to show that the property notices. `Budget` bounds, per kind, how many
`command`s (of the customer), `crash`es, `stall`s (a lease or lock expires
under a live owner) and `outage`s (a connection, account or transaction fails)
a behaviour may have; what mends things costs nothing. Ghost variables
(`posts`, `disturbed`, `stopped`, `muddled`, `top`, `last`, `taken`, `dropped`) are read by no
guard of an action other than the ones that bound them.

### 2.1 Broadcast

State: the ad (`bstatus`, `reason`), a row per group (`status`, `tries`,
`flooded`), the connection (`conn`), whether an adapter can be built for it
(`token`), the account (`active`), and per delivery
task where it is in its transaction (`at`), what it loaded (`saw`), what
Telegram answered (`answer`), whether it counted itself the last (`last`).

A task is one transaction in steps: `Claim` (committed on its own) → `Load`
(`worker.process_broadcast_target` reads target, ad and connection) →
`Attempt` (only `User.is_active` is read afresh; Telegram answers) → `Count`
(`settle` flushes its own row, which locks it, and counts unfinished rows
under READ COMMITTED: its own as flushed, the others as committed) → `Record`,
`Settle` or `LoseSession`, the commit. It may also find its row deleted
(`Abandon`) or die (`Crash`: the transaction is rolled back, the post stays).
`adapter_for` runs before any guard of `execute_target`: for a bot whose token was
deleted it raises, and the row stays leased with no attempt counted (`NoAdapter`).
The ORM writes an attribute only if it changed (`Written`), so a task may
overwrite a newer status, or not. Bulk writers (`Cancel`, `Sweep`, ...) wait
for a row a task has flushed (`Free`); nobody locks the ad's row.

`Sweep` is the reclaim and the flood resume of `reclaim_loop`, one transaction;
`WaitEnds` lets a long wait run out; `StartScheduled` is the scheduled-ad loop.
The customer's commands are the bot's buttons, with the guards they have (most
have none). `"lost"` is an answer the adapter classes as transient although the
message may be there.

Abstractions: one ad; text limits are `validate`'s yes or no; short delays
(stagger, backoff, waits under the pause threshold, the repeat gap) only delay
a claim and are invisible; so are pacing and in-flight ceilings;
`attempt_count` saturates at `MaxAttempts`; `posts` at 2; a customer's command
is atomic with the suspension check before it; `lease_owner` is never compared
by the code and is left out. The lock that a failure counter takes on the
connection's row would order some commits that the model leaves unordered.

### 2.2 Forwarding

A job is the pair message and destination, which is what its idempotency key
encodes. Three kinds of transaction read first and write later: a dispatch
(`Hear`, then `Dispatch` or `Forget`), an edit (`OpenEdit`, then `SaveEdit` or
`DropEdit`), and a delivery (`Claim`, `Load`, `Check`, `Attempt`, `Commit` or
`LoseSession`). Any update may be heard again at any time. `Stale` is
`_handle_stale_job`: a job of an older version is held against the rule as it
is now, and against keywords never passes, since its text is not kept.
`TooManyFailures` may count any subset of the failures of the last hour, since
they age out at any time. Editors are concurrent PATCH requests; nothing locks the
rule between an edit's reading and its commit, so two that overlap may write the
same version, or a lower one: `muddled` remembers the versions that two texts
share or may come to share. `NoAdapter` is as in `Broadcast`.

Abstractions: one rule, so one job per message and chat; media filters,
forward-mode edits, the purge after 30 days, pacing, in-flight ceilings are
left out. In forward mode of a user account the message's `random_id` makes a
second copy vanish, so `"lost"` is as good as `"error"` there; copy mode and
bots have no such token, and the model takes that case. Whether a chat may be
posted to is regained freely and lost at the cost of an outage.

### 2.3 Listener, AutoReply, Intake

A run is one call of `run_connection` with its buffer, queue and consumer. It
is hosted by a process (`LISTENER_ID` is per process, so two runs of one
process have the same lock value). `Start` is `acquire`, the new adapter and
`_restore_cursor`; nothing in the code ever stores `bot_update_offset`, so the
offset starts at none. `Request` is `get_updates` reaching Telegram, which
confirms everything below its offset; `Receive` handles the batch (there is no
await in it that suspends, the queue being unbounded); two outstanding requests
conflict. `Close` is the first half of `release()` (stop the renewal, read the
key), `Release` the second (delete it). A run that failed or was cancelled is
`"ended"`, but its album timer and its consumer go on until their process dies;
its identifier is used again only once it has nothing in memory, so `Runs`
bounds how many are alive at once. `Expire` is the key's time to live: free
when nobody renews, a `stall` otherwise. `Stop` and `Exit` are SIGTERM and the
end of `run()`. `NoAnswer` is a reply that failed: it costs an outage and the message
stays with its consumer.

`AutoReply` is `handle_incoming` as a transaction: `Hear` (the early returns),
`Claim` (one conditional upsert, which locks the person's entry), `SendText`,
`Finish` (commit, or `release_reply_slot`), `RollBack`. Time is counted in
ticks much longer than a transaction; an age stops at `Forever`, which also
stands for no entry and for one parked in 1970. `answering` merges the
connection's status, the switch, the text and `_is_advertising`.

`Intake` composes them: `Consume` takes a message and begins its reply,
`Forward` dispatches once the reply is over, `ProcessEnds` takes both down. A
step of `Intake` is a step of `Listener`, of `AutoReply`, or of both.

Abstractions: the update stream of a user account (Telethon's own) and
`note_links` (best-effort counts) are left out; `jobs` records which messages
got jobs, whose life `Forwarding` models; `reply_count` only decides whether a
released entry is deleted or parked, which are the same to `Claim`; a Redis
outage is a start that does not happen or a key left to expire.

### 2.4 Connections

A request of the bot or the API, a queued command and a pass of the health loop
are tasks: each reads a row, waits for Telegram and commits, and others run in
between. `connStatus`, `account` and `cred` are columns of
`telegram_connections`; `login` is `_PENDING_LOGINS`, which belongs to a process
and is lost with it; `talk` is the bot's conversation. `whose` and `accepted`
are Telegram's. A task writes what it decided to the row as it is by then
(`torn` remembers where that row had changed meanwhile); the unique index on the
account id may refuse its commit. `_enforce_connection_cap` counts before the
insertion (`late` remembers what overlapped). Telegram may stop accepting a
session and accept it again (`MaxOutages`), and either process may restart.

### 2.5 ControlTasks and LeasedQueue

A run is one transaction of `process_control_task`: it waits for its turn, reads
its task (whatever its status is by then), asks Telegram, reads the chats' rows,
and writes both. Nobody renews its lease and it does not look at its task again
before it writes, so a lease that runs out under it (`overrun`) gives the
command to a second run. `Wrote` is the ORM's rule: an attribute is written only
if it differs from what was read. `truth` is what Telegram shows of a chat,
`Verdict` what the code makes of it; `learned` remembers what the last run was
shown that nobody interfered with (`mixed`). `RefusePosting` is a delivery that
closes a chat. That the task's connection is gone altogether is left out
(`worker.py:186-189`: the command fails, and nobody is told). `LeasedQueue` knows an item's place only -- new, waiting, taken,
ended -- and which leases were overrun; `Place` maps the statuses to it.

### 2.6 Compose

`flow` is the conversation's state and data, `picker` the keyboards that stay in
the chat, `been` the statuses whose screens the customer may still tap. A picker
toggles by an index into the list the conversation holds at that time. A name is
handled in two steps (`naming`), since handlers run at the same time. `validate`
is modelled in full (`Validate`), wording aside. What the worker does to an ad
is reduced to the statuses it may give (`RoundEnds` and the like); `Broadcast`
has the rest.

### 2.7 Notifier, Access, Archive, Api, Pacing, Admission

`Notifier`: a row per dedupe key; a drain claims, sends and commits as one
transaction, so that what it sent is sent again if it dies. `Access`: an update
passes the request's, the gate's and the handler's transaction; a suspension may
come between. `Archive`: any operator may write their own settings row; the
deployment's is the one with a destination written last. `store_round` walks the
groups to look up, sends the copy, then the index. `Api`: `get_session` commits
after the response was sent, so a client may retry before the commit; the
insertion of a key waits for one that is not committed. Signing out is a single step,
though its commit, too, comes after its response. `Archive` has its type invariant only:
what its texts promise of long waits the code does not keep (section 5). `Pacing`: the script is
atomic but is given a time the caller read earlier, so a bucket's time may go
back; Redis may lose a bucket or not answer. `Admission`: leasing, counting and
handing back are one transaction, which others see when it commits.

Abstractions: texts, titles and layout; the order and limit of the notifier's
batches; the details of a lookup; the expiry of an idle bucket (it is full by
then); of a request only what sessions and keys see.

## 3. Runs

Deadlock is not checked: an ad that completed, a queue that drained or a
connection nobody writes to really stops.

| Run | Instance | Shows |
|---|---|---|
| `broadcast_rounds` | 2 groups, 2 tasks, 2 commands and a crash, or a command and a stall or an outage, repeating, with unclear answers, long waits, revoked sessions | `PostedOnce`, `RecordsMatchPosts`, `SettledOnce`; the proofs' `IInv` |
| `forwarding_edits` | 1 message, 2 destinations, 2 tasks, 2 editors, 3 commands | `DeliveredOnce`, `FitsTheRule`, `VersionsTell` |
| `forwarding_recovery` | 1 job, 2 tasks, 2 commands, a crash, a stall, an outage | `IInv`, `RecordsMatchPosts`, `QueueDrains` |
| `intake_replies` | 2 processes, 2 runs, 2 updates of one person, one in an album, a crash, a failure | `OneReader`, `NothingForgotten`, `OneAnswerPerWindow`, `EntriesMeanAnswers` |
| `intake_liveness` | 2 processes, 2 runs, 1 update, a toggle, a crash, a stall | `UpdatesGetThrough` |
| `services` | one of nine modules at a time, with 2 actors each: 2 connections, 2 commands and 2 runs, 2 ads, 2 alerts and 2 drains, 2 operators and a stranger, 2 rounds, 2 requests, 2 callers, 2 workers | `ServicesTypeOK`, `ActiveHasCredentials`, `OnePerAccount`, `CapHolds`, `RowsTell`, `RunningAdsFit`, `AlertOnce`, `OperatorRemains`, `AskedAndAnsweredOnce`, `KeyedOnce`, `SignedOutIsOut`, `GrantsBounded`, `CeilingPerWorker`; and `QueueKept`: the control tasks implement `LeasedQueue` |
| `liveness` | one of four modules at a time: 2 groups, a send, a crash or an outage, long waits; 2 connections and an outage; 2 commands (a synchronisation, a disconnection) and a crash; 2 ads | `RoundDrains`, `LostIsNoticed`, `SyncIsTold`, `ScheduledAdsStart` |
| `broadcast_orphaned_round` | 2 groups, 2 tasks, one send | violated: `NoOrphanedRound` |
| `broadcast_flood_wait` | the same, with long waits | violated: `FloodWaitObeyed` |
| `toggle_means_shown` | an ad or two, 2 pickers, a group that ceases to be postable | violated: `ToggleMeansShown` |
| `broadcast_stop_overwritten` | 2 groups, 2 tasks, a send and a stop, long waits | violated: `StopsHold` |
| `forwarding_revoked_bot` | 1 job, 1 task, an activation, a disconnection with `revoke` | violated: `RetriesEnd`, under the fairness of `forwarding_recovery` |

`services` and `liveness` run several modules in one: the modules share no state
there, a behaviour is one of one of them, chosen by the initial state
(`component`), and the others keep still with everything at its initial value.
So the states are the sum of the modules' states, not their product, and what is
found of a module is what a run of its own would find.

Why these bounds. The hazards are between two actors at one row, so two tasks
on at most two rows reach every order of them: two groups are needed for a
round that somebody else still works on, two destinations for an edit that
removes one. Three commands are enough to stop, restart and stop again, or to
activate, edit and retry; `broadcast_rounds` has two, to send and to interfere, beside a
crash, and one beside an expired lease or an outage, with unclear, postponed and
revoked attempts in between. The proofs cover every budget and every answer, `"lost"` too. `MaxAttempts` of 1 or 2 puts the boundary within
reach. Two runs overlap only through two processes or a cancelled run, which
is what the lock is for. With `Cooldowns = {1, 3}`, `Retention = 2` and
`Forever = 3` ages lie below, at and above the purge, and one cooldown is longer than
the log is kept. The
proofs remove the bounds for the properties they cover. In `services` two
connections for two accounts and a cap of one reach every clash (a process that
restarts and so forgets its sign-ins is in `liveness`); `GiveUpAfter`
of 2 (3 in the code) keeps a first failure apart from the last; one chat that
is left, or is a protected channel, is enough for two runs to disagree about;
three key rows, ticks and tokens put each ceiling, capacity and window on both
sides of the boundary.

Symmetry (tasks and groups; processes and runs) is used only in runs without
temporal properties. Every property was seen violated after a small bug was
put into one definition; `mutants` lists which.

### Fairness

- `Broadcast`: each worker keeps working (`WF(Work(w))`: the loops of
  `worker.run` and Telegram's timeouts), the sweep runs every 15 s
  (`reclaim_loop`), waits end, scheduled ads start. Crashes, stalls and
  commands are not fair.
- `Forwarding`: `WF(Work(w))` and `WF(Reclaim)`, likewise. The run's Telegram
  does not ask for waits for ever, for then no queue drains. `QueueDrains` and
  `RoundDrains` are promises about connections for which an adapter can be built
  (`\/ ~token`); what the code does for the others is `forwarding_revoked_bot`.
- `Connections`: the health loop looks at every active connection
  (`health_loop`), and a task that waits for Telegram gets an answer or a
  timeout. `ControlTasks`: runs end (every call to Telegram has a timeout),
  leases nobody works under run out, `reclaim_loop` sweeps, and the claim takes
  the oldest pending command first, so each is claimed. `Compose`: time passes
  and `scheduled_broadcast_loop` looks at every ad that is due. The customer,
  outages and restarts are not fair.
- `Intake`: every event loop runs (`Works(r)`), `run()` starts missing runs
  every 10 s (`Supervises`), a key nobody renews expires, a process told to
  stop does. A request is answered if there is something to hand out.

## 4. Proofs

Nothing is assumed but the constants' named assumptions, and what a theorem
states. The assumptions say that sets which the code holds in memory or in a
table are finite where something is counted (`Conns`, `Groups`, `JobRows`,
`TargetRows`, `WorkerProcesses`), that bounds are numbers, that a command is
tried at least once (`GiveUpAfter`, three times in `worker.py:226`) and that the
values that stand for nothing (`None`, `NoAd`, `NoItem`) are none of the others.
Every safety invariant that a passing run checks is the conclusion of a theorem, with
no restriction but `~OfBot` for `RowsTell`; `PROJECT.json` lists them.

`BroadcastProofs`: `TypeCorrect`, `InductiveInvariant`, `PostsOnce`,
`RecordsTell`, `RoundsAreSettledOnce`. `PostedOnce` and `RecordsMatchPosts` are
not inductive: what a group got is known from its row only while nobody works on
it. `IInv` adds that a task whose group nothing was lost track of has the row to
itself (`UniqueInv`), leased or cancelled under it (`OwnerInv`), and that its
group holds what its answer says (`Reached`). The proof goes action by action; a
claim needs a pending row, hence one with no such task. `SettledOnce` adds
`CountInv`: a task that counted keeps its row's lock to its commit, so no two
count under one row, and whoever counts later and finds nothing must have seen
the first one's row cancelled, for it would be leased otherwise.

`ForwardingProofs`: `TypeCorrect`, `InductiveInvariant`, `DeliversOnce`,
`RecordsTell` rest on `IInv`: every undisturbed job is either `Held` by exactly
one task or `Told` by its row, and a deleted rule leaves no row (`Gone`).
`SendsFitTheRule` rests on `VersionsTellTheRule`: whoever carries the rule's
present version carries what the rule says. With two editors that is not so:
`services/rules.py:225` writes the version that was read plus one, and two PATCH
requests that overlap write the same version or step back to an older one; a job
dispatched between their commits then passes for current. The theorems hold for any
number of editors and except exactly those versions (`muddled`): an edit that finds
the rule at another version than it read muddles every version from the one it writes
to the highest there was (`top`). That these, and the versions above the present one,
stay the only doubtful ones is the invariant.

`ListenerProofs`: `ListenerTypeCorrect`, `OneReaderAtATime`,
`NoUpdateForgotten`. `OneReader` rests on `LockHeld`: until somebody stalls,
the process of a run under supervision holds the lock and hosts no second
one. `NothingForgotten` speaks of what Telegram had confirmed; `HandedOut` says
it of every run's offset, which the next request confirms. The heart of the
proof is that no step of a live process drops what it has in memory (`Kept`):
messages move from buffer to queue to consumer, and a batch enters whole, for
which `SinglesHold` counts the sequence that `Singles` makes of it.

`IntakeProofs`, of `AutoReply`: `RepliesTypeCorrect`, `EntriesAreEarned`,
`AnswersKeepTheWindow`. The log's invariant says that one transaction holds a
person's entry (`OneHolder`), that an entry's age is the answer's unless that
answer may have been purged (`Remembered`, also of the age a rollback would
bring back), and that no entry is younger than its answer (`Earned`).
`AnswersKeepTheWindow` says that between two answers to a person lies the cooldown
that was read or, if that is longer, the time the log is kept. The bot asks only for
at least one hour (`adminbot/handlers.py:2143`) while entries are purged after 30 days
(`scheduler.py:169`), so with a longer cooldown the retention is all that holds.

`IntakeProofs`, of `Intake`: `IntakeImplementsParts` shows each step of `Intake` to be a step or
a stutter of `Listener` and of `AutoReply`; `IntakeKeepsPromises` carries their
theorems over to the composition.

`ControlTasksProofs`: `TasksImplementLeasedQueue` shows every step of
`ControlTasks` to be a step of `LeasedQueue` or a stutter, under `QueueInv`: a
run whose lease did not run out under it is its command's only run and finds
the status it read (`HeldAlone`), and a lease that has run out is not held, or
is overrun (`LeasesTimed`). `TasksEndForGood` is the abstract queue's promise,
carried over. `RowsTellWhatWasShown` adds that a run nobody interfered with
holds the rows as they are (`ReadIsFresh`) and that a synchronisation lists the
chats its verdicts say the account is in (`VerdictsFit`). It assumes `~OfBot`:
a bot lists the chats its adapter has met in updates, and the adapter is built
for the task, so a bot's synchronisation finds none and deactivates every row.
`ControlTyped` holds for a bot too; its bound on the attempts needs `TriesTell`:
outside an overrun, what a run has read of its command's attempts is what the row
says, and a command that is not ended has attempts left.

`OutboundProofs`, of `Notifier`: `AlertsTyped` and `AlertsAreSentOnce`. Claims of
two drains are apart and leave their rows as they were (`ClaimsApart`), and an
alert has reached its person exactly if its row or the drain that holds it says
so (`CopiesTell`). Of `Pacing`: `BucketsTyped` and `GrantsAreBounded`. What a
bucket granted and what it still holds came from its capacity and the inflow up
to its time, once for each time Redis had it (`Balance`). Since callers give
times they read before their first wait, a bucket's time can go back and its
level below zero, but never by more than will flow in again (`LevelBounded`), so
a later call gets nothing twice.

`ConnectionsProofs`, of `Connections`: `ConnTyped`, `ActiveIsHeldOrTorn`,
`OneConnectionPerAccount`, `TheCapHolds`. The rows alone do not carry these: an
active connection has credentials because every write that makes one active, or
takes its credentials, either sees the status it decides on or marks the row torn
(`RowFits`); two active connections differ in their account because an account id,
once learned, is the connection's own and in one row only (`OneRowEach`), and
only a bot's may be unknown; and the cap holds because a creation that has
counted and that no other one has overtaken still has room (`TaskFits`: fewer
connections than the cap are open besides the late ones), until it inserts.

Of `Compose`: `ComposeTyped`, `RunningAdsAreFit`. `UntouchedFit` says it of every ad
whatever its status, since a tap on an old screen may send an ad from any: validate
accepts an ad unless it was changed since validate last did. Every tap, typed name,
picker and round is shown to keep it.
That a second draft comes from overlapping names only (`OneDraft`) needs what each
handler of a name has read. `PostableChats` is the increasing enumeration of the
groups one can post to; that a finite set of numbers has one
(`ListedInOrder`) is proved, not assumed.

Of `Admission`: `AdmissionTyped`, `EachWorkerWithinCeiling`. What a worker works on
and what it is about to admit stay within the ceiling together (`BelowCeiling`),
batches and work of two workers are apart, and so a connection's work is at most a
ceiling for each worker: a union of that many sets, counted by `UnionBound`.

`ServicesProofs`, of `Access`: `AccessTyped`, `AnOperatorRemains`,
`AccessIsAskedOnce`. An update past the gate was let in by a decision that stands
(`GatePassed`, `ToldStands`, but for decisions of rivals), and the alert of a
request belongs to the one update that made it (`OneAsks`). That an operator is
left follows since whoever suspends is active when the gate asks, is not whom they
suspend, and is `past` if suspended in between. Of `Archive`: `ArchiveTyped`. Of `Api`: `ApiTyped`,
`ACommandIsKeyedOnce`, `ASignedOutRequestIsOut`; `RequestFits` says what a request
knows of its key at each stage (one that inserts met no row, and holds the unique
index until it commits: `OneInserts`), `KeysFit` that a key without a row had no
effect. Of all nine: `ServicesTyped`, by `ServicesBehave`: a behaviour of the
composition is one of each service, so every theorem above holds of it.

The library's induction theorems take a predicate, which the provers cannot
instantiate. Where a proof needs induction over a finite set, it takes a least
counterexample (`LeastNat`) and removes an element from it: the union of bounded
sets, the bound of a set of numbers, its enumeration in order.

Model-checked only: the leads-to properties (`RoundDrains`, `QueueDrains`,
`UpdatesGetThrough`, `LostIsNoticed`, `SyncIsTold`, `ScheduledAdsStart`), which
need fairness; and the five properties that the code does not keep (section 5),
whose counterexamples TLC finds.

## 5. Where code and documents disagree

Each of these has a run whose counterexample shows it; `findings` in
`PROJECT.json` quotes the lines.

1. Two tasks that finish the last two groups together each see the other's row
   as leased; nobody closes the round (`services/broadcast.py:427`).
2. A flood-paused ad is resumed when any row is due, not when the wait is over
   (`repositories/broadcasts.py:343`).
3. A tap on a picker's older message toggles the group that has that number in
   the newer list (`adminbot/handlers.py:1980`; `views.group_picker` says the
   same list is kept so that this cannot happen).
4. A long-wait pause overwrites a pause or a cancellation made while the task was at
   Telegram, and the sweep ends it (`services/broadcast.py:597`;
   `docs/DECISIONS.md:555-556`, ADR-045).
5. A job for a bot whose token was deleted is claimed, fails before any guard, and is
   reclaimed for ever without an attempt being counted (`worker.py:81`,
   `adapters/factory.py:79-85`; `docs/OPERATIONS.md:90-100`). An ad's target meets
   the same at `worker.py:142`.

Others are in the models and have no run of their own:

- A group taken out of an ad's selection and put back within one round gets a new row
  and is posted to again (`repositories/broadcasts.py:151`; `docs/DECISIONS.md:522-524`
  "never posted to twice"). `PostedOnce` excepts it (`disturbed`).
- An ad is called completed with groups left: `settle` goes by the status it read
  before the post, and a row that was cancelled or reclaimed under its task, or
  reopened, is put back to pending after another task has counted
  (`services/broadcast.py:425-427`, `:469`; `docs/DECISIONS.md:504` "`completed` still
  means the machine finished"). TLC finds it with one outage, and with a finished ad
  that is sent again and then refused by validate.
- Two edits of a rule that overlap give one version to two texts
  (`services/rules.py:225`). `FitsTheRule` excepts such versions (`muddled`).
- A cooldown longer than 30 days is cut short by the purge of the log;
  `docs/DATABASE.md:225` says that cannot be. `OneAnswerPerWindow` says what holds.
- An ad whose reply is lost is posted again: the copy has no `random_id`
  (`adapters/user.py:661`). `PostedOnce` excepts it (`disturbed`).
- An update is confirmed to Telegram while it is only in a listener's memory,
  and is lost with it (`adapters/bot.py:218`). `NothingForgotten` excepts it.
- A control task's lease is not renewed: a synchronisation that takes longer is
  begun a second time (`overrun`), and both report. Two requests for one at the
  same time do not see each other (`pending_control_for`).
- A failing and then a healthy check lift a safety pause without the customer:
  `paused_safety` becomes `error`, `error` becomes `active`
  (`services/connections.py:286`).
- A health check makes a bot active whose token was refused at first, and whose
  account id is therefore not known (`OnePerAccount` excepts it).
- The edit of a sending ad pauses it, but the prompts, speeds and pickers of
  older messages change an ad of any status, and Resume does not validate
  (`RunningAdsFit` excepts ads so touched).
- The start time of a scheduled ad can be set back to "now": it stays scheduled
  with no start and never starts (`ScheduledAdsStart` asks for a start).
- The second try of an archive lookup takes a long wait for a failure, and the walk
  goes on (`services/archive.py:248-256`); the texts at `services/archive.py:53-55` and
  `:208-213` say that a longer wait stops it. `LookUpAgain` does what the code does.
- The ceiling for forwarding jobs does not count a connection's broadcast targets
  (`worker.py:383`), though `worker.py:400-402` says that one ceiling is shared: one
  worker with a ceiling of one job and two targets may have all three in flight.
  `CeilingPerWorker` bounds each kind by itself.
- A caller that had to wait for a token sends after its wait without taking one
  (`worker.py:59-60`, `security/ratelimit.py:120-131`): `GrantsBounded` bounds the
  tokens, and so the messages that did not wait, not all messages.
- A listener's stall longer than its lock lets two processes read
  (`listener.py:74`); `OneReader` is about the time before, and its run has no stall.
- A synchronisation that finds one pending answers without storing a response,
  so its Idempotency-Key is not bound to the answer (`KeyedOnce` excepts it).
- A dedupe key outlives what it told of: a second event under one key is not
  told (`Notify`).

`disturbed` names the losses of the positive properties of `Broadcast` and
`Forwarding`: a lost reply, a crash after the post, a lease that ran out under a
live task, a row deleted or reopened under one, an unclear attempt retried.
Everything else the code does is proved not to post twice.

## 6. Not modelled, and what is left

Not modelled because they only render, count or transform values: views, icons,
previews, the discovery of group links, encryption, redaction, configuration,
operator tools, migrations, the retention of old rows nobody reads. Of the
modelled parts: the update stream of a user account (Telethon keeps it), media
filters and several rules on one source, passwords, CSRF and the read-only
endpoints of the API, the limits on the rate of requests, which only refuse.

What would come next:

1. `Broadcast` and `Forwarding` as implementations of `LeasedQueue`: their
   places are the same, but the customer's cancellation and retry would have to
   be steps of the abstract queue.
2. `Compose` and `Broadcast` composed over one ad, so that the taps of old
   screens meet the delivery tasks step by step.
3. Pure algorithms against reference definitions: `domain/filters.py`,
   `domain/when.py`, `domain/links.py`.
