---------------------------------- MODULE Access ----------------------------------
(***************************************************************************)
(* Who may use the customer bot: the gate every update passes              *)
(* (adminbot/auth.py), requests for access and their decisions             *)
(* (repositories/access_requests.py), accounts, and their suspension by    *)
(* operators (adminbot/handlers.py, services/users.py).                    *)
(*                                                                         *)
(* An update is handled in several transactions: the request's, the        *)
(* gate's, and the handler's own, which reads rows and commits later.      *)
(* Updates are handled at the same time as others.                         *)
(***************************************************************************)
EXTENDS Naturals, FiniteSets

CONSTANTS
    People,      \* Telegram ids
    Operators,   \* settings.admin_ids
    AccessMode,  \* settings.access_mode
    Updates,     \* updates handled at a time
    Nobody,
    MaxUpdates   \* bound: updates that arrive

ASSUME AccessAssumption ==
    /\ Operators \subseteq People
    /\ AccessMode \in {"open", "request", "closed"}
    /\ MaxUpdates \in Nat
    /\ Nobody \notin People

VARIABLES
    user,       \* users.is_active, by Telegram id; "none" where there is no account
    request,    \* access_requests.status; "none" where there is no row
    update,     \* what is being handled, how far, and what its transaction has read
    working,    \* people with ads or rules that run
    alerted,    \* messages to the operators about each person
    promised,   \* people told that they were approved
    rivals,     \* people decided on by two operators at the same time
    past,       \* people acted for after they were suspended: they were past the gate
    arrived

accessVars == <<user, request, update, working, alerted, promised, rivals, past, arrived>>

AccountStatus == {"none", "active", "suspended"}
AccessRequestStatus == {"none", "pending", "approved", "denied"}

\* Buttons of operators are about somebody; the others start work of one's own.
Decisions == {"ok", "no"}
UserActions == {"sus", "allow"}
NoUpdate == [at |-> "free", from |-> Nobody, action |-> "none", whom |-> Nobody, saw |-> "none"]

AccessInit ==
    /\ user = [p \in People |-> "none"]
    /\ request = [p \in People |-> "none"]
    /\ update = [u \in Updates |-> NoUpdate]
    /\ working = {} /\ promised = {} /\ rivals = {} /\ past = {}
    /\ alerted = [p \in People |-> 0]
    /\ arrived = 0

Arrives(u, p, action, q) ==
    /\ arrived < MaxUpdates
    /\ update[u] = NoUpdate
    /\ update' = [update EXCEPT ![u] = [at |-> "asks", from |-> p, action |-> action,
                                        whom |-> q, saw |-> "none"]]
    /\ arrived' = arrived + 1
    /\ UNCHANGED <<user, request, working, alerted, promised, rivals, past>>

Goes(u, at, saw) == update' = [update EXCEPT ![u].at = at, ![u].saw = saw]
Drops(u) == update' = [update EXCEPT ![u] = NoUpdate]

(***************************************************************************)
(* The gate.                                                               *)
(***************************************************************************)

MustAsk(p) == AccessMode # "open" /\ p \notin Operators

\* access_requests.record: an insertion that leaves an existing row alone.
IsNewWhilePending(p) == request[p] \in {"none", "pending"}
IsNew(p) == request[p] = "none"
Recorded(p) == [request EXCEPT ![p] = IF @ = "none" THEN "pending" ELSE @]

\* Let in, denied, or told to wait; the operators are told of a new request.
AskToEnter(u) ==
    LET p == update[u].from IN
    /\ update[u].at = "asks"
    /\ IF ~MustAsk(p) THEN Goes(u, "throttle", "none") /\ UNCHANGED request
       ELSE IF AccessMode = "closed" THEN Drops(u) /\ UNCHANGED request
       ELSE /\ request' = Recorded(p)
            /\ IF request[p] = "approved" THEN Goes(u, "throttle", "none")
               ELSE IF IsNew(p) THEN Goes(u, "alert", "none")
               ELSE Drops(u)
    /\ UNCHANGED <<user, working, alerted, promised, rivals, past, arrived>>

\* _notify_operators; a message may not get through.
NotifyOperators(u) ==
    /\ update[u].at = "alert"
    /\ alerted' = [alerted EXCEPT ![update[u].from] = @ + 1]
    /\ Drops(u)
    /\ UNCHANGED <<user, request, working, promised, rivals, past, arrived>>

\* The rate limit, then upsert_user reads the account.
PassThrottle(u) ==
    LET p == update[u].from IN
    /\ update[u].at = "throttle"
    /\ CASE user[p] = "none" -> Goes(u, "insert", "none")
         [] user[p] = "active" -> Goes(u, "handler", "none")
         [] OTHER -> Drops(u)
    /\ UNCHANGED <<user, request, working, alerted, promised, rivals, past, arrived>>

\* Two insertions of one id: the second violates the unique index.
InsertUser(u) ==
    LET p == update[u].from IN
    /\ update[u].at = "insert"
    /\ IF user[p] = "none"
       THEN user' = [user EXCEPT ![p] = "active"] /\ Goes(u, "handler", "none")
       ELSE UNCHANGED user /\ Drops(u)
    /\ UNCHANGED <<request, working, alerted, promised, rivals, past, arrived>>

(***************************************************************************)
(* The handlers.                                                           *)
(***************************************************************************)

\* A handler of somebody suspended since the gate goes on.
Acts(u) == past' = IF user[update[u].from] = "suspended" THEN past \cup {update[u].from} ELSE past

\* Someone sends an ad, starts a rule.
StartsWork(u) ==
    /\ update[u].at = "handler" /\ update[u].action = "use"
    /\ working' = working \cup {update[u].from}
    /\ Acts(u)
    /\ Drops(u)
    /\ UNCHANGED <<user, request, alerted, promised, rivals, arrived>>

\* _require_operator; nobody suspends oneself.
AllowedToAnyone(u) == update[u].from \in Operators
Allowed(u) ==
    /\ update[u].from \in Operators
    /\ update[u].action = "sus" => update[u].whom # update[u].from

\* The handler's transaction reads the request or the account it is about.
ReadsRow(u) ==
    LET q == update[u].whom  decides == update[u].action \in Decisions IN
    /\ update[u].at = "handler" /\ update[u].action \in Decisions \cup UserActions
    /\ IF Allowed(u) /\ (IF decides THEN request[q] ELSE user[q]) # "none"
       THEN Goes(u, "read", IF decides THEN request[q] ELSE user[q])
       ELSE Drops(u)
    /\ UNCHANGED <<user, request, working, alerted, promised, rivals, past, arrived>>

\* access_decision: only a pending request is decided.
DecidesAgain(saw) == TRUE
Decides(saw) == saw = "pending"
Outcome(action) == IF action = "ok" THEN "approved" ELSE "denied"

AccessDecision(u) ==
    LET q == update[u].whom IN
    /\ update[u].at = "read" /\ update[u].action \in Decisions
    /\ IF Decides(update[u].saw)
       THEN /\ request' = [request EXCEPT ![q] = Outcome(update[u].action)]
            /\ rivals' = IF update[u].saw = "pending" /\ request[q] # "pending"
                         THEN rivals \cup {q} ELSE rivals
            /\ Acts(u)
            /\ IF update[u].action = "ok"
               THEN update' = [update EXCEPT ![u] = [NoUpdate EXCEPT !.at = "tell", !.whom = q]]
               ELSE Drops(u)
       ELSE Drops(u) /\ UNCHANGED <<request, rivals, past>>
    /\ UNCHANGED <<user, working, alerted, promised, arrived>>

TellApproved(u) ==
    /\ update[u].at = "tell"
    /\ promised' = promised \cup {update[u].whom}
    /\ Drops(u)
    /\ UNCHANGED <<user, request, working, alerted, rivals, past, arrived>>

\* users.suspend: the account, and everything of it that runs.
StoppedNothing(p) == working
Stopped(p) == working \ {p}

SuspendUser(u) ==
    LET q == update[u].whom IN
    /\ update[u].at = "read" /\ update[u].action = "sus"
    /\ IF update[u].saw = "active"
       THEN /\ user' = [user EXCEPT ![q] = "suspended"]
            /\ working' = Stopped(q)
            /\ Acts(u)
       ELSE UNCHANGED <<user, working, past>>
    /\ Drops(u)
    /\ UNCHANGED <<request, alerted, promised, rivals, arrived>>

\* users.reinstate resumes nothing.
ReinstateUser(u) ==
    /\ update[u].at = "read" /\ update[u].action = "allow"
    /\ IF update[u].saw = "suspended"
       THEN user' = [user EXCEPT ![update[u].whom] = "active"] /\ Acts(u)
       ELSE UNCHANGED <<user, past>>
    /\ Drops(u)
    /\ UNCHANGED <<request, working, alerted, promised, rivals, arrived>>

\* Throttled; a failed transaction or message; or the process ends.
Abandons(u) ==
    /\ update[u] # NoUpdate
    /\ Drops(u)
    /\ UNCHANGED <<user, request, working, alerted, promised, rivals, past, arrived>>

UpdateStep(u) ==
    \/ AskToEnter(u) \/ NotifyOperators(u) \/ PassThrottle(u) \/ InsertUser(u)
    \/ StartsWork(u) \/ ReadsRow(u) \/ AccessDecision(u) \/ TellApproved(u)
    \/ SuspendUser(u) \/ ReinstateUser(u) \/ Abandons(u)

AccessNext ==
    \E u \in Updates :
        \/ UpdateStep(u)
        \/ \E p \in People : Arrives(u, p, "use", Nobody)
        \/ \E p, q \in People, a \in Decisions \cup UserActions : Arrives(u, p, a, q)

(***************************************************************************)
(* Properties.                                                             *)
(***************************************************************************)

\* The types; in request mode an account belongs to an operator or to somebody
\* who was let in (adminbot/auth.py); and what a suspended person had running has
\* stopped, unless an action of theirs was past the gate (users.suspend).
AccessTypeOK ==
    /\ user \in [People -> AccountStatus]
    /\ request \in [People -> AccessRequestStatus]
    /\ alerted \in [People -> Nat]
    /\ {working, promised, rivals, past} \subseteq SUBSET People
    /\ \A u \in Updates : update[u].at = "free" <=> update[u] = NoUpdate
    /\ \A p \in People \ rivals :
           user[p] # "none" /\ MustAsk(p) => request[p] = "approved"
    /\ \A p \in working \ past : user[p] # "suspended"

\* Somebody can always administer the bot: not every operator is suspended,
\* unless one was suspended while an action of theirs was past the gate (the
\* gate asks for an active account, user_actions refuses oneself).
OperatorRemains ==
    Operators # {} =>
        \/ \E o \in Operators : user[o] # "suspended"
        \/ past \cap Operators # {}

\* However many updates a person sends at once, the operators are asked once;
\* and whoever was told of an approval has it, unless two operators decided at
\* the same time (record, access_decision).
AskedAndAnsweredOnce ==
    \A p \in People :
        /\ alerted[p] <= 1
        /\ p \in promised \ rivals => request[p] = "approved"

AccessSpec == AccessInit /\ [][AccessNext]_accessVars

================================================================================
