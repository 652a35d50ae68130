------------------------------ MODULE Connections ------------------------------
(***************************************************************************)
(* One customer's Telegram connections: signing an account in (phone,      *)
(* code, password), adding a bot, health checks, safety pauses and         *)
(* disconnection (services/connections.py and the handlers of the bot and  *)
(* of the API that call it).                                               *)
(*                                                                         *)
(* A request, a queued command or a pass of the health loop is a task.     *)
(* Each waits for Telegram between what it reads and what it commits, so   *)
(* it has two steps or more, and other tasks run in between.  A write goes *)
(* to the row as it is by then; a unique index may refuse the commit.      *)
(***************************************************************************)
EXTENDS Naturals, FiniteSets

CONSTANTS
    Conns,           \* connection ids
    Accounts,        \* Telegram accounts and bots the customer may connect
    BotAccounts,     \* those that are bots
    Tasks,           \* requests and queued commands under way at a time
    Loop,            \* the health loop of the scheduler
    None,
    MaxConnections,  \* settings.max_connections_per_user
    MaxCommands,     \* bound: what the customer asks for
    MaxOutages,      \* bound: Telegram stops, or starts again, to accept a session
    MaxRestarts      \* bound: restarts of the bot or of the API

ASSUME ConnectionsAssumption ==
    /\ BotAccounts \subseteq Accounts
    /\ Loop \notin Tasks
    /\ IsFiniteSet(Conns)
    /\ None \notin Conns \cup Accounts
    /\ {MaxConnections, MaxCommands, MaxOutages, MaxRestarts} \subseteq Nat

Fronts == {"bot", "api"}
InProgress == {"pending", "awaiting_code", "awaiting_2fa"}
ConnectionStatus == InProgress \cup {"active", "error", "paused_safety", "disconnected"}

VARIABLES
    connStatus,  \* telegram_connections.status; "none" where there is no row
    account,     \* telegram_account_id, once Telegram has told it
    cred,        \* connections with a stored token or session
    whose,       \* the account a connection's phone number or token belongs to
    accepted,    \* connections whose token or session Telegram accepts
    login,       \* _PENDING_LOGINS of the bot's and of the API's process
    talk,        \* the bot's conversation: its step and its connection
    task,        \* what each task does, and the status it has read
    torn,        \* connections written by a task that had read another status
    late,        \* connections whose opening overlapped another's, and reopened ones
    spent        \* commands, outages and restarts so far

connVars == <<connStatus, account, cred, whose, accepted, login, talk, task, torn, late, spent>>
connColumns == <<connStatus, account, cred, whose>>
ghosts == <<torn, late>>

ConnRows == {c \in Conns : connStatus[c] # "none"}
Counted == {c \in ConnRows : connStatus[c] # "disconnected"}
FreeTask == [op |-> "free", conn |-> None, front |-> None, saw |-> "none", crowded |-> FALSE]
Silent == [step |-> "none", conn |-> None]
IsBot(c) == whose[c] \in BotAccounts

ConnInit ==
    /\ connStatus = [c \in Conns |-> "none"]
    /\ account = [c \in Conns |-> None]
    /\ cred = {}
    /\ whose = [c \in Conns |-> None]
    /\ accepted = {}
    /\ login = [f \in Fronts |-> {}]
    /\ talk = Silent
    /\ task = [t \in Tasks \cup {Loop} |-> FreeTask]
    /\ torn = {} /\ late = {}
    /\ spent = [commands |-> 0, outages |-> 0, restarts |-> 0]

Uses(what, most) ==
    /\ spent[what] < most
    /\ spent' = [spent EXCEPT ![what] = @ + 1]

Begins(t, op, c, f) ==
    /\ task[t] = FreeTask
    /\ task' = [task EXCEPT ![t] = [FreeTask EXCEPT !.op = op, !.conn = c, !.front = f,
                                               !.saw = connStatus[c]]]

EndsHolding(t) == task' = [task EXCEPT ![t].op = "free"]
Ends(t) == task' = [task EXCEPT ![t] = FreeTask]

(***************************************************************************)
(* What a commit does to the rows.                                         *)
(***************************************************************************)

\* The unique indexes: one attempt in progress, one row for each account.
ClashingInAttempts(c, s, a) ==
    {d \in ConnRows \ {c} : s \in InProgress /\ connStatus[d] \in InProgress}

Clashing(c, s, a) ==
    {d \in ConnRows \ {c} : \/ s \in InProgress /\ connStatus[d] \in InProgress
                            \/ a # None /\ account[d] = a}

\* The status is written; its row must be there, and is as others left it.
Writes(t, c, s) ==
    /\ connStatus' = [connStatus EXCEPT ![c] = s]
    /\ torn' = IF connStatus[c] = task[t].saw THEN torn ELSE torn \cup {c}
    /\ late' = IF connStatus[c] = "disconnected" /\ s # "disconnected" THEN late \cup {c} ELSE late

KeepsRows == UNCHANGED <<connColumns, ghosts, accepted>>

\* Sealed tokens and sessions are stored, and deleted when revoked.
Stored(c) == cred \cup {c}
Dropped(c, revoke) == IF revoke THEN cred \ {c} ELSE cred

\* Telegram signs the account in: the client's session is valid from now on.
SignedIn(c) == accepted \cup {c}

(***************************************************************************)
(* The bot's conversation: each handler's next step.                       *)
(***************************************************************************)

TalkAfterAdd(f) == IF f = "bot" THEN Silent ELSE talk
TalkAfterPhone(f, c) == IF f = "bot" THEN [step |-> "code", conn |-> c] ELSE talk
TalkAfterCode(f, c) == IF f = "bot" THEN [step |-> "password", conn |-> c] ELSE talk
TalkAfterSignIn(f) == IF f = "bot" THEN Silent ELSE talk

\* The panel commits what a failed call to Telegram leaves: it catches the
\* exception inside the transaction.  The API does not.
CommitsFailure(f) == f = "bot"

(***************************************************************************)
(* A new connection: the checks, the insertion, Telegram's answer.         *)
(***************************************************************************)

\* _enforce_connection_cap: a disconnected connection does not count.
MayOpenIgnoringErrors == Cardinality({c \in Counted : connStatus[c] # "error"}) < MaxConnections
MayOpen == Cardinality(Counted) < MaxConnections

BeginCreate(t, f, c, a) ==
    /\ Uses("commands", MaxCommands)
    /\ whose[c] = None
    /\ \A d \in ConnRows : connStatus[d] \notin InProgress    \* else DuplicateConnectionAttempt
    /\ MayOpen                                       \* else TooManyConnections
    /\ Begins(t, "check", c, f)
    /\ whose' = [whose EXCEPT ![c] = a]
    /\ talk' = TalkAfterAdd(f)
    /\ UNCHANGED <<connStatus, account, cred, accepted, login, ghosts>>

\* The transaction is rolled back and leaves nothing of the new row.
Undo(t) ==
    /\ whose' = [whose EXCEPT ![task[t].conn] = None]
    /\ Ends(t)
    /\ UNCHANGED <<connStatus, account, cred, accepted, login, talk, ghosts, spent>>

\* The insertion waits for another one that is not committed yet.
Insert(t) ==
    /\ task[t].op = "check"
    /\ \A u \in Tasks : task[u].op # "create"
    /\ IF \E d \in ConnRows : connStatus[d] \in InProgress
       THEN Undo(t)
       ELSE /\ task' = [task EXCEPT ![t].op = "create"]
            /\ UNCHANGED <<connColumns, accepted, login, talk, ghosts, spent>>

\* The new row is committed; a creation under way has not counted it.
Opens(t) ==
    /\ late' = IF task[t].crowded THEN late \cup {task[t].conn} ELSE late
    /\ task' = [u \in DOMAIN task |->
                   IF u = t THEN FreeTask
                   ELSE [task[u] EXCEPT !.crowded = @ \/ task[u].op \in {"check", "create"}]]

\* getMe accepts the bot's token, or refuses it (then the panel keeps the row).
VerifyBot(t) ==
    LET c == task[t].conn IN
    /\ task[t].op = "create" /\ IsBot(c)
    /\ \/ IF Clashing(c, "active", whose[c]) # {}
          THEN Undo(t)
          ELSE /\ connStatus' = [connStatus EXCEPT ![c] = "active"]
               /\ account' = [account EXCEPT ![c] = whose[c]]
               /\ cred' = Stored(c) /\ accepted' = SignedIn(c)
               /\ Opens(t)
               /\ UNCHANGED <<whose, login, talk, torn, spent>>
       \/ /\ CommitsFailure(task[t].front)
          /\ connStatus' = [connStatus EXCEPT ![c] = "error"]
          /\ cred' = Stored(c)
          /\ accepted' \in {accepted, SignedIn(c)}
          /\ Opens(t)
          /\ UNCHANGED <<account, whose, login, talk, torn, spent>>
       \/ ~CommitsFailure(task[t].front) /\ Undo(t)

\* Telegram sends the code, or refuses to: the panel's handler returns from
\* within its transaction, which commits the row all the same.
StartLogin(t) ==
    LET c == task[t].conn  f == task[t].front IN
    /\ task[t].op = "create" /\ ~IsBot(c)
    /\ \/ /\ connStatus' = [connStatus EXCEPT ![c] = "awaiting_code"]
          /\ login' = [login EXCEPT ![f] = @ \cup {c}]
          /\ talk' = TalkAfterPhone(f, c)
          /\ Opens(t)
          /\ UNCHANGED <<account, cred, whose, accepted, torn, spent>>
       \/ /\ CommitsFailure(f)
          /\ connStatus' = [connStatus EXCEPT ![c] = "awaiting_code"]
          /\ Opens(t)
          /\ UNCHANGED <<account, cred, whose, accepted, login, talk, torn, spent>>
       \/ ~CommitsFailure(f) /\ Undo(t)

(***************************************************************************)
(* The code and the password of a sign-in.                                 *)
(***************************************************************************)

\* The API asks the row's status; the panel asks its conversation.
MayEnter(f, c, step) ==
    IF f = "api"
    THEN connStatus[c] = (IF step = "code" THEN "awaiting_code" ELSE "awaiting_2fa")
    ELSE talk = [step |-> step, conn |-> c]

BeginEnter(t, f, c, step) ==
    /\ MayEnter(f, c, step)
    /\ Uses("commands", MaxCommands)
    /\ IF c \in login[f] \cap ConnRows
       THEN Begins(t, step, c, f) /\ UNCHANGED talk
       ELSE /\ f = "bot" /\ talk' = Silent      \* gone, or no longer in progress
            /\ UNCHANGED task
    /\ UNCHANGED <<connColumns, accepted, login, ghosts>>

\* _finalize_user forgets the login, then the transaction commits or fails.
Finalize(t) ==
    LET c == task[t].conn
        clash == Clashing(c, "active", whose[c]) IN
    /\ login' = [login EXCEPT ![task[t].front] = @ \ {c}]
    /\ Ends(t)
    /\ IF c \notin ConnRows \/ clash # {}
       THEN UNCHANGED <<connColumns, accepted, talk, ghosts, spent>>
       ELSE /\ Writes(t, c, "active")
            /\ account' = [account EXCEPT ![c] = whose[c]]
            /\ cred' = Stored(c) /\ accepted' = SignedIn(c)
            /\ talk' = TalkAfterSignIn(task[t].front)
            /\ UNCHANGED <<whose, spent>>

WrongEntry(t) ==
    /\ task[t].op \in {"code", "password"}
    /\ Ends(t)
    /\ KeepsRows
    /\ UNCHANGED <<login, talk, spent>>

AskPassword(t) ==
    LET c == task[t].conn IN
    /\ task[t].op = "code"
    /\ \A u \in Tasks : task[u].op # "create"
    /\ Ends(t)
    /\ IF c \in ConnRows /\ Clashing(c, "awaiting_2fa", None) = {}
       THEN /\ Writes(t, c, "awaiting_2fa")
            /\ talk' = TalkAfterCode(task[t].front, c)
            /\ UNCHANGED <<account, cred, whose>>
       ELSE UNCHANGED <<connColumns, talk, ghosts>>
    /\ UNCHANGED <<accepted, login, spent>>

SignIn(t) == task[t].op \in {"code", "password"} /\ Finalize(t)

(***************************************************************************)
(* Giving up: /cancel ends the conversation, "Cancel sign-in" the row.     *)
(***************************************************************************)

CancelTalk ==
    /\ talk # Silent
    /\ Uses("commands", MaxCommands)
    /\ talk' = Silent
    /\ KeepsRows
    /\ UNCHANGED <<login, task>>

\* The button may be on an old screen: abandon asks for no status.
AbandonAttempt(c) ==
    /\ c \in ConnRows
    /\ Uses("commands", MaxCommands)
    /\ connStatus' = [connStatus EXCEPT ![c] = "none"]
    /\ account' = [account EXCEPT ![c] = None]
    /\ cred' = cred \ {c}
    /\ login' = [login EXCEPT !["bot"] = @ \ {c}]
    /\ UNCHANGED <<whose, accepted, talk, task, ghosts>>

(***************************************************************************)
(* Health checks, by the loop (active and error) or by command (any row).  *)
(***************************************************************************)

LoopCheck(c) ==
    /\ connStatus[c] \in {"active", "error"}
    /\ Begins(Loop, "health", c, None)
    /\ KeepsRows
    /\ UNCHANGED <<login, talk, spent>>

BeginHealth(t, c) ==
    /\ c \in ConnRows
    /\ Uses("commands", MaxCommands)
    /\ Begins(t, "health", c, None)
    /\ KeepsRows
    /\ UNCHANGED <<login, talk>>

\* run_health_check: what it writes over the status it read.
HealthWriteHopeful(saw, healthy) ==
    IF healthy /\ saw = "error" THEN "active" ELSE saw

HealthWrite(saw, healthy) ==
    IF healthy THEN (IF saw = "error" THEN "active" ELSE saw) ELSE "error"

\* Without a bot's token no adapter is built, and there is no answer at all.
HealthAnswers(c) ==
    {healthy \in BOOLEAN : /\ healthy => c \in cred \cap accepted
                           /\ ~healthy => c \in cred \/ ~IsBot(c)}

EndHealth(t) ==
    LET c == task[t].conn  answer == HealthAnswers(c) IN
    /\ task[t].op = "health"
    /\ Ends(t)
    /\ \/ \E healthy \in answer :
             LET s == HealthWrite(task[t].saw, healthy) IN
             IF c \in ConnRows /\ s # task[t].saw
             THEN Writes(t, c, s) /\ UNCHANGED <<account, cred, whose>>
             ELSE UNCHANGED <<connColumns, ghosts>>
       \/ answer = {} /\ UNCHANGED <<connColumns, ghosts>>
    /\ UNCHANGED <<accepted, login, talk, spent>>

(***************************************************************************)
(* Safety pauses, disconnection, and what happens outside.                 *)
(***************************************************************************)

BeginDelivery(t, c) ==
    /\ connStatus[c] = "active" /\ c \notin accepted
    /\ Begins(t, "delivery", c, None)
    /\ KeepsRows
    /\ UNCHANGED <<login, talk, spent>>

\* Telegram refused the credentials: safety.pause_connection.
PauseForSafety(t) ==
    LET c == task[t].conn IN
    /\ task[t].op = "delivery"
    /\ Ends(t)
    /\ IF c \in ConnRows
       THEN /\ Writes(t, c, "paused_safety")
            /\ UNCHANGED <<account, cred, whose>>
       ELSE UNCHANGED <<connColumns, ghosts>>
    /\ UNCHANGED <<accepted, login, talk, spent>>

BeginDisconnect(t, c, revoke) ==
    /\ c \in ConnRows
    /\ Uses("commands", MaxCommands)
    /\ Begins(t, IF revoke THEN "revoke" ELSE "disconnect", c, None)
    /\ UNCHANGED <<connColumns, accepted, login, talk, ghosts>>

\* The adapter is built for this call and is not connected, so logging out is
\* left out; and the worker forgets a login only in its own memory.
LoggedOut(c, connected) == IF connected THEN accepted \ {c} ELSE accepted

DisconnectedFromKept(saw, now) == now
DisconnectedFrom(saw, now) == IF saw = "disconnected" THEN now ELSE "disconnected"

EndDisconnect(t) ==
    LET c == task[t].conn  revoke == task[t].op = "revoke" IN
    /\ task[t].op \in {"revoke", "disconnect"}
    /\ Ends(t)
    /\ IF c \in ConnRows
       THEN /\ Writes(t, c, DisconnectedFrom(task[t].saw, connStatus[c]))
            /\ cred' = Dropped(c, revoke)
            /\ accepted' = LoggedOut(c, FALSE)
            /\ UNCHANGED <<account, whose>>
       ELSE UNCHANGED <<connColumns, accepted, ghosts>>
    /\ UNCHANGED <<login, talk, spent>>

\* Telegram ends a session or lifts a ban; the token is revoked or is not.
Outside(c) ==
    /\ c \in cred
    /\ Uses("outages", MaxOutages)
    /\ accepted' = IF c \in accepted THEN accepted \ {c} ELSE accepted \cup {c}
    /\ UNCHANGED <<connColumns, login, talk, task, ghosts>>

\* A process starts again: its logins and its open requests are gone.
Restart(f) ==
    /\ Uses("restarts", MaxRestarts)
    /\ login' = [login EXCEPT ![f] = {}]
    /\ task' = [t \in DOMAIN task |-> IF task[t].front = f THEN FreeTask ELSE task[t]]
    /\ whose' = [c \in Conns |-> IF \E t \in Tasks : /\ task[t].front = f
                                                     /\ task[t].op \in {"check", "create"}
                                                     /\ task[t].conn = c
                                 THEN None ELSE whose[c]]
    /\ UNCHANGED <<connStatus, account, cred, accepted, talk, ghosts>>

TaskStep(t) ==
    \/ Insert(t) \/ VerifyBot(t) \/ StartLogin(t)
    \/ WrongEntry(t) \/ AskPassword(t) \/ SignIn(t)
    \/ EndHealth(t) \/ PauseForSafety(t) \/ EndDisconnect(t)

Asks(t) ==
    \/ \E f \in Fronts, c \in Conns, a \in Accounts : BeginCreate(t, f, c, a)
    \/ \E f \in Fronts, c \in Conns, step \in {"code", "password"} : BeginEnter(t, f, c, step)
    \/ \E c \in Conns : BeginHealth(t, c) \/ BeginDelivery(t, c)
    \/ \E c \in Conns, revoke \in BOOLEAN : BeginDisconnect(t, c, revoke)

ConnNext ==
    \/ \E t \in Tasks : TaskStep(t) \/ Asks(t)
    \/ EndHealth(Loop)
    \/ \E c \in Conns : LoopCheck(c) \/ AbandonAttempt(c) \/ Outside(c)
    \/ CancelTalk
    \/ \E f \in Fronts : Restart(f)

\* Tasks end (every call to Telegram has a timeout), and every pass of the
\* loop looks at every active or failing connection.
ConnFairness ==
    /\ \A t \in Tasks : WF_connVars(TaskStep(t))
    /\ WF_connVars(EndHealth(Loop))
    /\ \A c \in Conns : SF_connVars(LoopCheck(c))

(***************************************************************************)
(* Properties.                                                             *)
(***************************************************************************)

\* The types; a task has a connection exactly while it is at work
\* (services/connections.py, db/models.py TelegramConnection).
ConnTypeOK ==
    /\ connStatus \in [Conns -> ConnectionStatus \cup {"none"}]
    /\ account \in [Conns -> Accounts \cup {None}]
    /\ whose \in [Conns -> Accounts \cup {None}]
    /\ {cred, accepted, torn, late} \subseteq SUBSET Conns
    /\ login \in [Fronts -> SUBSET Conns]
    /\ talk \in [step : {"none", "code", "password"}, conn : Conns \cup {None}]
    /\ \A t \in DOMAIN task : (task[t].op = "free") <=> (task[t].conn = None)

\* An active connection has the token or session it works with, unless a task
\* that had read another status wrote to its row (run_health_check and
\* disconnect write what they decided before their calls to Telegram).
ActiveHasCredentials == \A c \in Conns : connStatus[c] = "active" => c \in cred \cup torn

\* Two active connections never work with one Telegram account, except a bot
\* whose token was refused at first and that a health check made active
\* (verify_bot_connection, the unique constraint, run_health_check).
OnePerAccount ==
    \A c, d \in Conns :
        c # d /\ connStatus[c] = "active" /\ connStatus[d] = "active" /\ whose[c] = whose[d]
            => None \in {account[c], account[d]} /\ IsBot(c)

\* The customer's open connections stay within max_connections_per_user, except
\* those whose creation overlapped another and disconnected ones that a task
\* reopened (_enforce_connection_cap counts once, before the insertion).
CapHolds == Cardinality(Counted \ late) <= MaxConnections

\* An active connection whose credentials Telegram no longer accepts does not
\* stay active (health_loop looks at every active connection).
LostIsNoticed ==
    \A c \in Conns :
        connStatus[c] = "active" /\ c \in cred /\ c \notin accepted
            ~> connStatus[c] # "active" \/ c \notin cred \/ c \in accepted

ConnSpec == ConnInit /\ [][ConnNext]_connVars
FairConnSpec == ConnSpec /\ ConnFairness

================================================================================
