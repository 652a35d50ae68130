-------------------------------- MODULE Notifier --------------------------------
(***************************************************************************)
(* The outbox of alerts: whoever has something to say inserts a row under  *)
(* a dedupe key (repositories/admins.py), and the customer bot drains the  *)
(* rows and sends them (adminbot/notifier.py).                             *)
(*                                                                         *)
(* A drain is one transaction: it locks the rows it claims, sends them one *)
(* after the other, and commits what came of each at the end.  The person  *)
(* has a Telegram account; the order and the limit of a batch are left out.*)
(***************************************************************************)
EXTENDS Naturals, FiniteSets

CONSTANTS
    Keys,            \* dedupe keys: one for each alert that may be queued
    Drains,          \* drains that may run at a time
    MaxSends,        \* attempts after which an alert is retired: 5
    MaxEvents,       \* bound: events of one key
    MaxMishaps       \* bound: drains that die, and sends that only seem to fail

ASSUME NotifierAssumption == {MaxSends, MaxEvents, MaxMishaps} \subseteq Nat

VARIABLES
    alert,     \* admin_notifications, by dedupe key
    drain,     \* each drain: rows to send, rows it sent, rows it could not send
    events,    \* how often each key was to be told
    copies,    \* messages the person got, by key
    repeated,  \* keys that reached the person without the row saying so
    mishaps

notifierVars == <<alert, drain, events, copies, repeated, mishaps>>

NoAlert == [row |-> FALSE, sent |-> FALSE, attempts |-> 0]
Idle == [todo |-> {}, sent |-> {}, failed |-> {}]
Claimed(d) == drain[d].todo \cup drain[d].sent \cup drain[d].failed

NotifierInit ==
    /\ alert = [k \in Keys |-> NoAlert]
    /\ drain = [d \in Drains |-> Idle]
    /\ events = [k \in Keys |-> 0]
    /\ copies = [k \in Keys |-> 0]
    /\ repeated = {}
    /\ mishaps = 0

\* notify: a key that has a row already, sent or not, gets no other.
NotifyAnew(S) ==
    alert' = [k \in Keys |-> IF k \in S THEN [NoAlert EXCEPT !.row = TRUE] ELSE alert[k]]
Notify(S) ==
    alert' = [k \in Keys |-> IF k \in S THEN [alert[k] EXCEPT !.row = TRUE] ELSE alert[k]]

\* The transaction of whoever has something to say commits with these alerts.
Tells(S) ==
    /\ Notify(S)
    /\ events' = [k \in Keys |-> events[k] + (IF k \in S THEN 1 ELSE 0)]
    /\ UNCHANGED <<drain, copies, repeated, mishaps>>

Event(k) == events[k] < MaxEvents /\ Tells({k})

Unsent(k) == alert[k].row /\ ~alert[k].sent /\ alert[k].attempts < MaxSends

\* claim_unsent: FOR UPDATE SKIP LOCKED.
ClaimUnsent(d) ==
    LET free == {k \in Keys : Unsent(k) /\ \A e \in Drains : k \notin Claimed(e)} IN
    /\ drain[d] = Idle
    /\ free # {}
    /\ drain' = [drain EXCEPT ![d].todo = free]
    /\ UNCHANGED <<alert, events, copies, repeated, mishaps>>

Attempted(d, k, out) ==
    /\ k \in drain[d].todo
    /\ drain' = [drain EXCEPT ![d].todo = @ \ {k}, ![d][out] = @ \cup {k}]
    /\ UNCHANGED <<alert, events>>

Reaches(k) == copies' = [copies EXCEPT ![k] = @ + 1]

\* The person gets it, or has blocked the bot, or gets it and the answer is lost.
SendAlert(d, k) == Attempted(d, k, "sent") /\ Reaches(k) /\ UNCHANGED <<repeated, mishaps>>
Refused(d, k) == Attempted(d, k, "failed") /\ UNCHANGED <<copies, repeated, mishaps>>
Unclear(d, k) ==
    /\ mishaps < MaxMishaps
    /\ Attempted(d, k, "failed") /\ Reaches(k)
    /\ repeated' = repeated \cup {k}
    /\ mishaps' = mishaps + 1

\* mark_sent, mark_attempt: the commit.
Marked(a, d, k) ==
    CASE k \in drain[d].sent   -> [a EXCEPT !.sent = TRUE]
      [] k \in drain[d].failed -> [a EXCEPT !.attempts = @ + 1]
      [] OTHER                 -> a

MarkedSent(a, d, k) == IF k \in Claimed(d) THEN [a EXCEPT !.sent = TRUE] ELSE a

CommitDrain(d) ==
    /\ drain[d] # Idle /\ drain[d].todo = {}
    /\ alert' = [k \in Keys |-> Marked(alert[k], d, k)]
    /\ drain' = [drain EXCEPT ![d] = Idle]
    /\ UNCHANGED <<events, copies, repeated, mishaps>>

\* The process dies, or the transaction fails: nothing it did is recorded.
DrainDies(d) ==
    /\ drain[d] # Idle
    /\ mishaps < MaxMishaps
    /\ drain' = [drain EXCEPT ![d] = Idle]
    /\ repeated' = repeated \cup drain[d].sent
    /\ mishaps' = mishaps + 1
    /\ UNCHANGED <<alert, events, copies>>

DrainStep(d) ==
    \/ ClaimUnsent(d) \/ CommitDrain(d)
    \/ \E k \in Keys : SendAlert(d, k) \/ Refused(d, k) \/ Unclear(d, k)

DrainNext == \E d \in Drains : DrainStep(d) \/ DrainDies(d)

NotifierNext == DrainNext \/ \E k \in Keys : Event(k)
NotifierSpec == NotifierInit /\ [][NotifierNext]_notifierVars

\* run drains every five seconds as long as the bot runs.
DrainFairness == \A d \in Drains : WF_notifierVars(DrainStep(d))

(***************************************************************************)
(* Properties.                                                             *)
(***************************************************************************)

\* The types; an alert is in one drain at a time (claim_unsent's SKIP LOCKED).
NotifierTypeOK ==
    /\ alert \in [Keys -> [row : BOOLEAN, sent : BOOLEAN, attempts : 0 .. MaxSends]]
    /\ drain \in [Drains -> [todo : SUBSET Keys, sent : SUBSET Keys, failed : SUBSET Keys]]
    /\ events \in [Keys -> Nat]
    /\ copies \in [Keys -> Nat]
    /\ repeated \subseteq Keys
    /\ \A d, e \in Drains : d # e => Claimed(d) \cap Claimed(e) = {}

\* The person gets an alert once, unless a drain died with it or a send only
\* seemed to fail (drain_once commits what it sent at its end).
AlertOnce == \A k \in Keys \ repeated : copies[k] <= 1

================================================================================
