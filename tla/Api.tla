------------------------------------ MODULE Api ------------------------------------
(***************************************************************************)
(* Requests to the HTTP API: the session a cookie names (security/auth.py, *)
(* api/v1/auth.py), and the Idempotency-Key that makes a command safe to   *)
(* retry (api/deps.py).                                                    *)
(*                                                                         *)
(* A request is one transaction.  It commits when the dependency           *)
(* get_session leaves, which is after the response was sent: a client may  *)
(* send the next request, or the same one again, before that.              *)
(***************************************************************************)
EXTENDS Naturals, FiniteSets

CONSTANTS
    Requests,      \* requests handled at a time
    Sessions,      \* cookies of one account
    CommandKeys,   \* values of the Idempotency-Key header
    Bodies,        \* what a request asks for, as its hash tells it apart
    SyncBodies,    \* those that ask for a synchronization
    NoCookie, NoHeader, NoBody,
    MaxRequests,   \* bound: requests that arrive
    MaxFailures    \* bound: transactions that fail at their commit

ASSUME ApiAssumption ==
    /\ SyncBodies \subseteq Bodies
    /\ {MaxRequests, MaxFailures} \subseteq Nat
    /\ NoBody \notin Bodies /\ NoCookie \notin Sessions /\ NoHeader \notin CommandKeys

VARIABLES
    session,    \* app_sessions: is there a row, is it revoked, is its time over
    isActive,   \* users.is_active of the account
    keyRow,     \* idempotency_keys: state, hash
    req,        \* requests: how far, of which session and key, what they wrote
    effects,    \* commands that committed under a key, while its row lives
    syncing,    \* a synchronization is pending
    received, failures

apiVars == <<session, isActive, keyRow, req, effects, syncing, received, failures>>

NoRow == [state |-> "none", hash |-> NoBody]
NoReq == [at |-> "free", cookie |-> NoCookie, key |-> NoHeader, body |-> NoBody,
          owns |-> FALSE, writes |-> "nothing", late |-> FALSE]

ApiInit ==
    /\ session = [s \in Sessions |-> [row |-> FALSE, revoked |-> FALSE, over |-> FALSE]]
    /\ isActive = TRUE
    /\ keyRow = [k \in CommandKeys |-> NoRow]
    /\ req = [r \in Requests |-> NoReq]
    /\ effects = [k \in CommandKeys |-> 0]
    /\ syncing = FALSE
    /\ received = 0 /\ failures = 0

(***************************************************************************)
(* Sessions.                                                               *)
(***************************************************************************)

\* login, register: create_session.
OpenSession(s) ==
    /\ isActive /\ ~session[s].row
    /\ session' = [session EXCEPT ![s].row = TRUE]
    /\ UNCHANGED <<isActive, keyRow, req, effects, syncing, received, failures>>

\* logout; revoke-all, by a request that was signed in.
Revoked(S) == [s \in Sessions |-> IF s \in S /\ session[s].row
                                  THEN [session[s] EXCEPT !.revoked = TRUE] ELSE session[s]]
SignOut(S) ==
    /\ session' = Revoked(S)
    /\ session' # session
    /\ UNCHANGED <<isActive, keyRow, req, effects, syncing, received, failures>>

\* expires_at passes.
TimeOver(s) ==
    /\ session[s].row /\ ~session[s].over
    /\ session' = [session EXCEPT ![s].over = TRUE]
    /\ UNCHANGED <<isActive, keyRow, req, effects, syncing, received, failures>>

\* An operator suspends or reinstates the account.
SwitchAccount ==
    /\ isActive' = ~isActive
    /\ UNCHANGED <<session, keyRow, req, effects, syncing, received, failures>>

SessionHolds(s) == session[s].row /\ ~session[s].revoked /\ ~session[s].over /\ isActive

\* resolve_session slides expires_at; the write goes with the request's commit
\* and leaves revoked_at as another transaction has set it.
SlidWhole(row) == [row EXCEPT !.over = FALSE, !.revoked = FALSE]
Slid(row) == [row EXCEPT !.over = FALSE]

(***************************************************************************)
(* Requests.                                                               *)
(***************************************************************************)

Rest == UNCHANGED <<session, isActive, keyRow, effects, syncing, received, failures>>
Proceeds(r, at) == req' = [req EXCEPT ![r].at = at]
Finishes(r) == req' = [req EXCEPT ![r] = NoReq]

Receive(r, s, k, b) ==
    /\ received < MaxRequests
    /\ req[r] = NoReq
    /\ session[s].row
    /\ req' = [req EXCEPT ![r] = [NoReq EXCEPT !.at = "cookie", !.cookie = s, !.key = k,
                                               !.body = b, !.late = session[s].revoked]]
    /\ received' = received + 1
    /\ UNCHANGED <<session, isActive, keyRow, effects, syncing, failures>>

\* rate_limit refuses, or lets through; current_user.
CurrentUser(r) ==
    /\ req[r].at = "cookie"
    /\ \/ SessionHolds(req[r].cookie) /\ Proceeds(r, "key")
       \/ Finishes(r)
    /\ Rest

Inserting(k) == \E q \in Requests : req[q].key = k /\ req[q].owns

\* The existing row: another request (409), the stored response, or a row whose
\* request stored none, which lets this one through.
ReadsAnyKeyRow(r) == Proceeds(r, "do")
ReadsKeyRow(r) ==
    LET row == keyRow[req[r].key] IN
    IF row.hash # req[r].body \/ row.state = "completed" THEN Finishes(r) ELSE Proceeds(r, "do")

\* idempotent.
Idempotent(r) ==
    /\ req[r].at = "key"
    /\ IF keyRow[req[r].key].state # "none" THEN ReadsKeyRow(r) ELSE Proceeds(r, "insert")
    /\ Rest

\* The insertion waits for one of the same key, and fails when that commits.
InsertKey(r) ==
    /\ req[r].at = "insert"
    /\ IF keyRow[req[r].key].state # "none" THEN Finishes(r)
       ELSE /\ ~Inserting(req[r].key)
            /\ req' = [req EXCEPT ![r].at = "do", ![r].owns = TRUE]
    /\ Rest

\* The command, and store_idempotent_result.  A synchronization that finds one
\* pending answers without storing anything.
Execute(r) ==
    /\ req[r].at = "do"
    /\ req' = [req EXCEPT ![r].at = "told",
                          ![r].writes = IF req[r].body \in SyncBodies /\ syncing
                                        THEN "nothing" ELSE "effect"]
    /\ Rest

\* A refusal of the service, or an error: everything is rolled back.
RollsBack(r) == req[r].at = "do" /\ Finishes(r) /\ Rest

NotStoredResult(r, row) ==
    IF req[r].owns THEN [state |-> "in_progress", hash |-> req[r].body] ELSE row
StoredResult(r, row) ==
    IF req[r].writes = "effect" /\ (req[r].owns \/ row.state # "none")
    THEN [state |-> "completed", hash |-> req[r].body]
    ELSE NotStoredResult(r, row)

Commit(r) ==
    LET k == req[r].key  s == req[r].cookie IN
    /\ req[r].at = "told"
    /\ session' = [session EXCEPT ![s] = Slid(@)]
    /\ keyRow' = [keyRow EXCEPT ![k] = StoredResult(r, @)]
    /\ IF req[r].writes = "effect"
       THEN /\ effects' = [effects EXCEPT ![k] = @ + 1]
            /\ syncing' = (syncing \/ req[r].body \in SyncBodies)
       ELSE UNCHANGED <<effects, syncing>>
    /\ Finishes(r)
    /\ UNCHANGED <<isActive, received, failures>>

\* The connection to the database is lost, or the process dies.
CommitFails(r) ==
    /\ req[r].at = "told"
    /\ failures < MaxFailures
    /\ failures' = failures + 1
    /\ Finishes(r)
    /\ UNCHANGED <<session, isActive, keyRow, effects, syncing, received>>

\* The worker has synchronized.
Synchronized ==
    /\ syncing
    /\ syncing' = FALSE
    /\ UNCHANGED <<session, isActive, keyRow, req, effects, received, failures>>

\* retention_loop deletes rows a day old; no request takes a day.
PurgeKey(k) ==
    /\ keyRow[k] # NoRow
    /\ \A r \in Requests : req[r].key # k
    /\ keyRow' = [keyRow EXCEPT ![k] = NoRow]
    /\ effects' = [effects EXCEPT ![k] = 0]
    /\ UNCHANGED <<session, isActive, req, syncing, received, failures>>

RequestStep(r) ==
    \/ CurrentUser(r) \/ Idempotent(r) \/ InsertKey(r)
    \/ Execute(r) \/ RollsBack(r) \/ Commit(r) \/ CommitFails(r)

ApiNext ==
    \/ \E s \in Sessions : OpenSession(s) \/ TimeOver(s) \/ SignOut({s})
    \/ SignOut(Sessions)
    \/ SwitchAccount
    \/ \E r \in Requests :
          \/ RequestStep(r)
          \/ \E s \in Sessions, k \in CommandKeys, b \in Bodies : Receive(r, s, k, b)
    \/ Synchronized
    \/ \E k \in CommandKeys : PurgeKey(k)

ApiSpec == ApiInit /\ [][ApiNext]_apiVars

(***************************************************************************)
(* Properties.                                                             *)
(***************************************************************************)

\* The types; and one transaction at a time holds the insertion of a key.
ApiTypeOK ==
    /\ session \in [Sessions -> [row : BOOLEAN, revoked : BOOLEAN, over : BOOLEAN]]
    /\ keyRow \in [CommandKeys -> [state : {"none", "in_progress", "completed"},
                                   hash : Bodies \cup {NoBody}]]
    /\ effects \in [CommandKeys -> Nat]
    /\ \A q, r \in Requests : req[q].owns /\ req[r].owns /\ q # r => req[q].key # req[r].key

\* A command is carried out once for its Idempotency-Key, however often and at
\* whatever moment the client sends it again (idempotent; the stored response).
\* A synchronization is the exception: it may leave a row with no response.
KeyedOnce ==
    \A k \in CommandKeys : keyRow[k].hash \notin SyncBodies => effects[k] <= 1

\* A request that arrives after its session was revoked is never carried out,
\* whatever other requests of that session write when they commit.
SignedOutIsOut ==
    \A r \in Requests : req[r].late => req[r].at \in {"free", "cookie"}

================================================================================
