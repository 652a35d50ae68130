------------------------------ MODULE ControlTasks ------------------------------
(***************************************************************************)
(* The commands the panel and the API queue for one connection -- read its *)
(* chats, check one chat, check its health, disconnect it -- and the       *)
(* workers that carry them out (repositories/jobs.py, worker.py,           *)
(* services/sync.py, repositories/chats.py).  What came of a command is    *)
(* told by an alert in the outbox that Notifier drains.                    *)
(*                                                                         *)
(* A run is one transaction of a worker.  It is started when the command   *)
(* is claimed but waits for its turn; nothing renews its lease; and it     *)
(* writes what it computed to rows another run may have written meanwhile. *)
(* The ORM writes an attribute only if it differs from what was read.      *)
(***************************************************************************)
EXTENDS Naturals, FiniteSets

CONSTANTS
    Items,          \* control tasks
    Runs,           \* runs of process_control_task at a time
    Chats,
    Commands,       \* what the tasks may be: the kind of each, and the chat of a check
    Entities,       \* what Telegram may show of a chat to the account
    OfBot,          \* whether the connection is a bot's
    GiveUpAfter,    \* failed attempts after which a command is given up: 3
    MaxTroubles,    \* bound: changes of a chat at Telegram, refusals met by deliveries,
                    \* runs that die or fail to commit, leases that run out under a run
    NoItem

CommandKinds == {"sync_chats", "check_chat_access", "health_check", "disconnect"}

ASSUME ControlAssumption ==
    /\ OfBot \in BOOLEAN
    /\ GiveUpAfter \in Nat \ {0} /\ MaxTroubles \in Nat
    /\ NoItem \notin Items
    /\ Commands \subseteq [Items -> [kind : CommandKinds, chat : Chats]]
    /\ Entities \subseteq [listed : BOOLEAN, left : BOOLEAN, banned : BOOLEAN, channel : BOOLEAN,
                           poster : BOOLEAN, muted : BOOLEAN, admin : BOOLEAN, private : BOOLEAN,
                           protected : BOOLEAN]

VARIABLES
    taskStatus, \* control_tasks.status; "asked" while its request is not committed
    command,    \* its kind, and the chat of a check
    attempts,   \* attempt_count
    lapsed,     \* leased tasks whose lease has run out
    run,        \* each run: its command, what it read, what Telegram answered
    overrun,    \* commands whose lease ran out under a live run
    row,        \* telegram_chats: "none", "active" or "inactive"
    access,     \* connection_chat_access: may read, may post
    usable,     \* the connection has its token or session
    truth,      \* what Telegram shows of each chat
    learned,    \* what the last run nobody interfered with has told of each chat
    outbox,     \* dedupe keys of the alerts that were queued
    troubles

queue == <<taskStatus, command, attempts, lapsed, overrun>>
chats == <<row, access, learned>>
controlVars == <<queue, run, chats, usable, truth, outbox, troubles>>

ControlTaskStatus == {"pending", "leased", "succeeded", "failed"}
NoAccess == [read |-> FALSE, post |-> FALSE]
NoRun == [at |-> "free", item |-> NoItem, saw |-> "none", tries |-> 0, listed |-> {},
          verdict |-> <<>>, before |-> <<>>, had |-> <<>>, mixed |-> FALSE]
Done(k) == <<k, "sync_complete">>
GaveUp(k) == <<k, "control_task_failed">>

ControlInit ==
    /\ taskStatus = [k \in Items |-> "none"]
    /\ command \in Commands
    /\ attempts = [k \in Items |-> 0]
    /\ lapsed = {} /\ overrun = {}
    /\ run = [r \in Runs |-> NoRun]
    /\ row = [c \in Chats |-> "none"]
    /\ access = [c \in Chats |-> NoAccess]
    /\ usable = TRUE
    /\ truth \in [Chats -> Entities]
    /\ learned = [c \in Chats |-> "nothing"]
    /\ troubles = 0
    /\ outbox = {}

Trouble ==
    /\ troubles < MaxTroubles
    /\ troubles' = troubles + 1

Holds(k) == {r \in Runs : run[r].item = k}
Kind(k) == command[k].kind
(***************************************************************************)
(* The requests.  One for a synchronisation looks for another first; two   *)
(* requests at a time do not see each other.                               *)
(***************************************************************************)

\* pending_control_for: pending, or leased with a lease that still runs.
Running(k) == taskStatus[k] = "pending" \/ (taskStatus[k] = "leased" /\ k \notin lapsed)

Request(k) ==
    /\ taskStatus[k] = "none"
    /\ Kind(k) = "sync_chats" =>
           \A j \in Items : Kind(j) = "sync_chats" => ~Running(j)
    /\ Kind(k) = "check_chat_access" => row[command[k].chat] # "none"
    /\ taskStatus' = [taskStatus EXCEPT ![k] = "asked"]
    /\ UNCHANGED <<command, attempts, lapsed, overrun, run, chats, usable, truth, troubles, outbox>>

EnqueueControl(k) ==
    /\ taskStatus[k] = "asked"
    /\ taskStatus' = [taskStatus EXCEPT ![k] = "pending"]
    /\ UNCHANGED <<command, attempts, lapsed, overrun, run, chats, usable, truth, troubles, outbox>>

(***************************************************************************)
(* Claims and leases.  A batch is claimed one command after another.       *)
(***************************************************************************)

ClaimableTasksAgain == {k \in Items : taskStatus[k] \in {"pending", "failed"}}
ClaimableTasks == {k \in Items : taskStatus[k] = "pending"}

ClaimControl(r, k) ==
    /\ k \in ClaimableTasks /\ run[r] = NoRun
    /\ taskStatus' = [taskStatus EXCEPT ![k] = "leased"]
    /\ run' = [run EXCEPT ![r].at = "waiting", ![r].item = k]
    /\ UNCHANGED <<command, attempts, lapsed, overrun, chats, usable, truth, troubles, outbox>>

\* Time passes: nobody renews the lease of a control task.
Lapse(k) ==
    /\ taskStatus[k] = "leased" /\ k \notin lapsed
    /\ lapsed' = lapsed \cup {k}
    /\ IF Holds(k) = {}
       THEN UNCHANGED <<overrun, troubles>>
       ELSE Trouble /\ overrun' = overrun \cup {k}
    /\ UNCHANGED <<taskStatus, command, attempts, run, chats, usable, truth, outbox>>

ExpiredPending == {k \in lapsed : taskStatus[k] = "pending"}
ExpiredOrNot == {k \in Items : taskStatus[k] = "leased"}
Expired == {k \in lapsed : taskStatus[k] = "leased"}

ReclaimExpiredControl ==
    /\ Expired # {}
    /\ taskStatus' = [k \in Items |-> IF k \in Expired THEN "pending" ELSE taskStatus[k]]
    /\ lapsed' = lapsed \ Expired
    /\ UNCHANGED <<command, attempts, overrun, run, chats, usable, truth, troubles, outbox>>

(***************************************************************************)
(* What Telegram says of a chat.                                           *)
(***************************************************************************)

\* reading_verdict, and content protection, which the caller applies.
MayRead(e) == ~e.left /\ ~e.protected

\* posting_verdict, and the private chats _check_and_store leaves out.
MayPost(e) ==
    /\ ~e.private
    /\ ~e.left /\ ~e.banned
    /\ e.channel => e.poster
    /\ e.muted => e.admin

\* list_available_chats: an account's dialogs.  A bot lists what its adapter
\* has met in updates, and the adapter is built for this call.
Listed == IF OfBot THEN {} ELSE {c \in Chats : truth[c].listed}

Verdict(c) == [read |-> MayRead(truth[c]), post |-> MayPost(truth[c]), in |-> truth[c].listed]

\* check_source_access, check_destination_access: an error is a refusal.
Checked(c) ==
    {v \in [read : BOOLEAN, post : BOOLEAN, in : {TRUE}] :
        /\ v.read => usable /\ ~truth[c].protected
        /\ v.post => usable /\ truth[c].listed /\ MayPost(truth[c])}

\* What may be raised: adapter_for without a bot's token; the listing of an
\* account; the connection to Telegram before a check.
Raises(k) ==
    CASE OfBot -> IF usable THEN {} ELSE {"retryable"}
      [] ~OfBot /\ Kind(k) = "sync_chats" -> IF usable THEN {"retryable", "final"} ELSE {"final"}
      [] ~OfBot /\ Kind(k) = "check_chat_access" -> {"retryable"}
      [] OTHER -> {}

(***************************************************************************)
(* A run: process_control_task.                                            *)
(***************************************************************************)

\* Its turn comes: the row is read -- whatever its status is by now.
RunBegins(r, at) ==
    [run[r] EXCEPT !.at = at, !.saw = taskStatus[run[r].item], !.tries = attempts[run[r].item]]

\* synchronize asks for the list and then reads the rows; the others' rows are
\* read before Telegram is asked.
Ask(r) ==
    LET k == run[r].item  c == command[k].chat IN
    /\ run[r].at = "waiting"
    /\ \/ /\ Kind(k) = "sync_chats" /\ usable
          /\ run' = [run EXCEPT ![r] = [RunBegins(r, "listed") EXCEPT
                           !.listed = Listed, !.verdict = [d \in Chats |-> Verdict(d)]]]
       \/ /\ Kind(k) # "sync_chats" /\ (OfBot => usable)
          /\ \E v \in Checked(c) :
                run' = [run EXCEPT ![r] = [RunBegins(r, "read") EXCEPT
                           !.verdict = [d \in {c} |-> v], !.had = access]]
       \/ \E how \in Raises(k) : run' = [run EXCEPT ![r] = RunBegins(r, how)]
    /\ UNCHANGED <<queue, chats, usable, truth, troubles, outbox>>

\* find_by_peer, set_access: the chats' rows are read.
ReadChats(r) ==
    /\ run[r].at = "listed"
    /\ run' = [run EXCEPT ![r].at = "read", ![r].before = row, ![r].had = access]
    /\ UNCHANGED <<queue, chats, usable, truth, troubles, outbox>>

Wrote(old, new, now) == IF new = old THEN now ELSE new

\* upsert_discovered for the chats listed, deactivate_missing for the others.
SyncedRowKept(r, c) ==
    IF c \in run[r].listed THEN Wrote(run[r].before[c], "active", row[c]) ELSE row[c]

SyncedRow(r, c) ==
    IF c \in run[r].listed THEN Wrote(run[r].before[c], "active", row[c])
    ELSE IF row[c] = "active" THEN "inactive" ELSE row[c]

StoredAccess(r, c) ==
    [read |-> Wrote(run[r].had[c].read, run[r].verdict[c].read, access[c].read),
     post |-> Wrote(run[r].had[c].post, run[r].verdict[c].post, access[c].post)]

\* Another run's rows are not as it read them any more.
Frees(r) == run' = [s \in Runs |-> IF s = r THEN NoRun
                                   ELSE [run[s] EXCEPT !.mixed = run[s].at \in {"listed", "read"}]]

Learns(r, S, what(_)) ==
    learned' = [c \in Chats |-> IF c \notin S THEN learned[c]
                                ELSE IF run[r].mixed THEN "nothing" ELSE what(c)]

\* synchronize: its rows, its alert, its end.  A chat that another run has
\* inserted since makes the flush fail.
Synchronize(r) ==
    /\ Kind(run[r].item) = "sync_chats"
    /\ \A c \in run[r].listed : run[r].before[c] = "none" => row[c] = "none"
    /\ row' = [c \in Chats |-> SyncedRow(r, c)]
    /\ access' = [c \in Chats |-> IF c \in run[r].listed THEN StoredAccess(r, c) ELSE access[c]]
    /\ Learns(r, Chats, LAMBDA c : IF ~run[r].verdict[c].in THEN "absent"
                                   ELSE IF run[r].verdict[c].post THEN "open" ELSE "closed")
    /\ UNCHANGED usable
    /\ outbox' = outbox \cup {Done(run[r].item)}

\* recheck_chat: is_active is not written.
RecheckChat(r) ==
    LET c == command[run[r].item].chat IN
    /\ Kind(run[r].item) = "check_chat_access"
    /\ access' = [access EXCEPT ![c] = StoredAccess(r, c)]
    /\ Learns(r, {c}, LAMBDA d : IF row[d] # "active" THEN "absent"
                                 ELSE IF run[r].verdict[d].post THEN "open" ELSE "closed")
    /\ UNCHANGED <<row, usable, outbox>>

\* Health is Connections'; disconnect with "revoke" deletes the credentials.
HealthOrDisconnect(r) ==
    /\ Kind(run[r].item) \in {"health_check", "disconnect"}
    /\ usable' = (usable /\ Kind(run[r].item) = "health_check")
    /\ UNCHANGED <<chats, outbox>>

Finish(r) ==
    LET k == run[r].item IN
    /\ run[r].at = "read"
    /\ Synchronize(r) \/ RecheckChat(r) \/ HealthOrDisconnect(r)
    /\ taskStatus' = [taskStatus EXCEPT ![k] = Wrote(run[r].saw, "succeeded", @)]
    /\ lapsed' = {j \in lapsed : taskStatus'[j] = "leased"}
    /\ Frees(r)
    /\ UNCHANGED <<command, attempts, overrun, truth, troubles>>

\* The call raised: another attempt at once, or the end, and it is told.
GivesUpOn(r) == run[r].at = "final" \/ run[r].tries + 1 >= GiveUpAfter

Fail(r) ==
    LET k == run[r].item IN
    /\ run[r].at \in {"retryable", "final"}
    /\ attempts' = [attempts EXCEPT ![k] = run[r].tries + 1]
    /\ taskStatus' = [taskStatus EXCEPT ![k] =
                          Wrote(run[r].saw, IF GivesUpOn(r) THEN "failed" ELSE "pending", @)]
    /\ lapsed' = {j \in lapsed : taskStatus'[j] = "leased"}
    /\ run' = [run EXCEPT ![r] = NoRun]
    /\ outbox' = IF GivesUpOn(r) THEN outbox \cup {GaveUp(k)} ELSE outbox
    /\ UNCHANGED <<command, overrun, chats, usable, truth, troubles>>

\* The process dies or the transaction fails; nothing is written or counted.
Clash(r) ==
    /\ run[r].at = "read" /\ Kind(run[r].item) = "sync_chats"
    /\ \E c \in run[r].listed : run[r].before[c] = "none" /\ row[c] # "none"

AbandonRun(r) ==
    /\ run[r] # NoRun
    /\ IF Clash(r) THEN UNCHANGED troubles ELSE Trouble
    /\ run' = [run EXCEPT ![r] = NoRun]
    /\ UNCHANGED <<queue, chats, usable, truth, outbox>>

(***************************************************************************)
(* What else happens: chats change, deliveries are refused.                *)
(***************************************************************************)

Changes(c) ==
    /\ Trouble
    /\ truth' \in {[truth EXCEPT ![c] = e] : e \in Entities \ {truth[c]}}
    /\ UNCHANGED <<queue, run, chats, usable, outbox>>

\* execute_job, execute_target: set_access with what the check before a
\* delivery found.
RefusePosting(c) ==
    /\ row[c] = "active" /\ access[c].post
    /\ Trouble
    /\ access' = [access EXCEPT ![c].post = FALSE]
    /\ learned' = [learned EXCEPT ![c] = IF @ = "nothing" THEN @ ELSE "closed"]
    /\ run' = [s \in Runs |-> [run[s] EXCEPT !.mixed = run[s].at \in {"listed", "read"}]]
    /\ UNCHANGED <<queue, row, usable, truth, outbox>>

RunStep(r) == Ask(r) \/ ReadChats(r) \/ Finish(r) \/ Fail(r) \/ (Clash(r) /\ AbandonRun(r))

ControlNext ==
    \/ \E k \in Items : Request(k) \/ EnqueueControl(k) \/ Lapse(k)
    \/ \E r \in Runs, k \in Items : ClaimControl(r, k)
    \/ \E r \in Runs : RunStep(r) \/ AbandonRun(r)
    \/ ReclaimExpiredControl
    \/ \E c \in Chats : Changes(c) \/ RefusePosting(c)

\* Runs end (calls to Telegram time out), leases run out, the sweep reclaims
\* them, and the worker's loop claims what is pending, the oldest first.
ControlFairness ==
    /\ \A k \in Items : /\ WF_controlVars(Holds(k) = {} /\ Lapse(k))
                        /\ WF_controlVars(\E r \in Runs : ClaimControl(r, k))
    /\ \A r \in Runs : WF_controlVars(RunStep(r))
    /\ WF_controlVars(ReclaimExpiredControl)

(***************************************************************************)
(* Properties.                                                             *)
(***************************************************************************)

\* The types; a lease can only run out while its task is leased, and a command
\* nobody works on twice has one run at most (repositories/jobs.py).
ControlTypeOK ==
    /\ outbox \subseteq Items \X {"sync_complete", "control_task_failed"}
    /\ taskStatus \in [Items -> ControlTaskStatus \cup {"none", "asked"}]
    /\ attempts \in [Items -> Nat] /\ \A k \in Items \ overrun : attempts[k] <= GiveUpAfter
    /\ overrun \subseteq Items
    /\ \A k \in lapsed : taskStatus[k] = "leased"
    /\ row \in [Chats -> {"none", "active", "inactive"}]
    /\ access \in [Chats -> [read : BOOLEAN, post : BOOLEAN]]
    /\ \A r \in Runs : (run[r].at = "free") <=> (run[r].item = NoItem)
    /\ \A k \in Items \ overrun : Cardinality(Holds(k)) <= 1

\* The promise of the queue: LeasedQueue, with the statuses of the rows.
Place == [k \in Items |-> CASE taskStatus[k] \in {"none", "asked"} -> "new"
                            [] taskStatus[k] = "pending" -> "waiting"
                            [] taskStatus[k] = "leased" -> "taken"
                            [] OTHER -> "ended"]
Leases == INSTANCE LeasedQueue WITH place <- Place
QueueKept == Leases!QueueSpec

\* What the rows of the chats say is what the last run that nobody interfered
\* with was shown by Telegram, however runs failed, stalled or came to nothing
\* in between (services/sync.py, repositories/chats.py deactivate_missing).
RowsTell ==
    \A c \in Chats :
        /\ learned[c] = "absent" => row[c] # "active"
        /\ learned[c] \in {"open", "closed"} =>
               row[c] = "active" /\ (access[c].post <=> learned[c] = "open")

\* A customer who queued a synchronisation hears how it ended (worker.py
\* _report_sync_result, _report_control_failure).
SyncIsTold ==
    \A k \in Items :
        taskStatus[k] = "pending" /\ Kind(k) = "sync_chats" ~>
            Done(k) \in outbox \/ GaveUp(k) \in outbox

ControlSpec == ControlInit /\ [][ControlNext]_controlVars
FairControlSpec == ControlSpec /\ ControlFairness

================================================================================
