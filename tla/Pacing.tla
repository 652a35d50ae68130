----------------------------------- MODULE Pacing -----------------------------------
(***************************************************************************)
(* The token buckets in Redis that outbound messages pass (PacingBucket,   *)
(* security/ratelimit.py): one for the chat, then one for the connection   *)
(* (_pace, worker.py).                                                     *)
(*                                                                         *)
(* A call of the script is atomic.  It is given a time the caller read     *)
(* before the first of its two waits, so times may go backwards.  Tokens   *)
(* are counted in fractions, Unit to a token, and time in ticks.  A key    *)
(* that nobody uses for an hour is full again; its expiry is left out.     *)
(***************************************************************************)
EXTENDS Integers, FiniteSets

CONSTANTS
    Callers,                           \* items of work that are paced
    PacedChats, Overall,               \* the buckets of one connection
    Unit,                              \* fractions of a token
    ChatCapacity, OverallCapacity,     \* capacity, in fractions
    ChatRefill, OverallRefill,         \* refill_per_s, in fractions a tick
    MaxSleep,                          \* a caller sleeps 30 seconds at most
    MaxTime, MaxLosses                 \* bounds: ticks, losses of a bucket

ASSUME PacingAssumption ==
    /\ Unit \in Nat \ {0}
    /\ {ChatCapacity, OverallCapacity, ChatRefill, OverallRefill} \subseteq Nat
    /\ {MaxSleep, MaxTime, MaxLosses} \subseteq Nat
    /\ Overall \notin PacedChats

VARIABLES
    bucket,    \* tokens and time of each bucket, where Redis has them
    caller,    \* how far each caller is, and the time it read
    clock,
    granted,   \* tokens taken from each bucket
    losses

pacingVars == <<bucket, caller, clock, granted, losses>>

Buckets == PacedChats \cup {Overall}
Capacity(b) == IF b = Overall THEN OverallCapacity ELSE ChatCapacity
Refill(b) == IF b = Overall THEN OverallRefill ELSE ChatRefill
Stages == {"free", "chat", "overall", "send"}

Absent == [known |-> FALSE, tokens |-> 0, ts |-> 0]

PacingInit ==
    /\ bucket = [b \in Buckets |-> Absent]
    /\ caller \in [Callers -> [at : {"free"}, chat : PacedChats, now : {0}, until : {0}]]
    /\ clock = 0
    /\ granted = [b \in Buckets |-> 0]
    /\ losses = 0

\* What the script finds: refilled since the last call, up to the capacity.
Lower(a, b) == IF a <= b THEN a ELSE b
Tokens(b, now) ==
    IF bucket[b].known
    THEN Lower(Capacity(b), bucket[b].tokens + (now - bucket[b].ts) * Refill(b))
    ELSE Capacity(b)

Grants(tokens) == tokens >= Unit

\* The time it leaves: the caller's, token or not.
StampedWhenGranted(b, now, tokens) == IF Grants(tokens) THEN now ELSE bucket[b].ts
StampedNow(b, now, tokens) == now

\* The ticks until there is a token; the caller sleeps no longer than MaxSleep.
SleepsUntil(t, tokens, b) ==
    IF Grants(tokens) THEN t = clock
    ELSE LET wait == {n \in 0 .. MaxSleep : n = MaxSleep \/ tokens + n * Refill(b) >= Unit} IN
         t - clock \in wait /\ \A n \in wait : t - clock <= n

BeginsPaced(c, chat) ==
    /\ caller[c].at = "free"
    /\ caller' = [caller EXCEPT ![c] = [at |-> "chat", chat |-> chat, now |-> clock,
                                        until |-> clock]]
    /\ UNCHANGED <<bucket, clock, granted, losses>>

BucketOf(c) == IF caller[c].at = "chat" THEN caller[c].chat ELSE Overall
NextStage(at) == IF at = "chat" THEN "overall" ELSE "send"
Awake(c) == caller[c].until <= clock
Wakes(c, t) == caller' = [caller EXCEPT ![c].at = NextStage(@), ![c].until = t]

\* acquire: the script takes a token or tells how long to wait for one.
Acquire(c) ==
    LET b == BucketOf(c)  tokens == Tokens(b, caller[c].now) IN
    /\ caller[c].at \in {"chat", "overall"} /\ Awake(c)
    /\ bucket' = [bucket EXCEPT ![b] =
                     [known |-> TRUE, ts |-> StampedNow(b, caller[c].now, tokens),
                      tokens |-> IF Grants(tokens) THEN tokens - Unit ELSE tokens]]
    /\ granted' = [granted EXCEPT ![b] = IF Grants(tokens) THEN @ + 1 ELSE @]
    /\ \E t \in clock .. clock + MaxSleep : SleepsUntil(t, tokens, b) /\ Wakes(c, t)
    /\ UNCHANGED <<clock, losses>>

\* Redis does not answer: the caller does not wait.
Unpaced(c) ==
    /\ losses < MaxLosses
    /\ caller[c].at \in {"chat", "overall"} /\ Awake(c)
    /\ Wakes(c, clock)
    /\ losses' = losses + 1
    /\ UNCHANGED <<bucket, clock, granted>>

\* The message goes out: the token of a caller that waited is not taken.
PacedSend(c) ==
    /\ caller[c].at = "send" /\ Awake(c)
    /\ caller' = [caller EXCEPT ![c].at = "free"]
    /\ UNCHANGED <<bucket, clock, granted, losses>>

\* Redis restarts empty.
LoseBucket(b) ==
    /\ losses < MaxLosses
    /\ bucket[b].known
    /\ bucket' = [bucket EXCEPT ![b] = Absent]
    /\ losses' = losses + 1
    /\ UNCHANGED <<caller, clock, granted>>

Tick ==
    /\ clock < MaxTime
    /\ clock' = clock + 1
    /\ UNCHANGED <<bucket, caller, granted, losses>>

CallerStep(c) == Acquire(c) \/ Unpaced(c) \/ PacedSend(c)

PacingNext ==
    \/ \E c \in Callers : CallerStep(c) \/ \E chat \in PacedChats : BeginsPaced(c, chat)
    \/ \E b \in Buckets : LoseBucket(b)
    \/ Tick

PacingSpec == PacingInit /\ [][PacingNext]_pacingVars

(***************************************************************************)
(* Properties.                                                             *)
(***************************************************************************)

\* The types; a bucket holds no more than its capacity (security/ratelimit.py).
PacingTypeOK ==
    /\ bucket \in [Buckets -> [known : BOOLEAN, tokens : Int, ts : Nat]]
    /\ \A b \in Buckets : bucket[b].tokens <= Capacity(b)
    /\ caller \in [Callers -> [at : Stages, chat : PacedChats, now : Nat, until : Nat]]
    /\ clock \in Nat /\ losses \in Nat
    /\ granted \in [Buckets -> Nat]

\* A bucket grants no more than it held and what flowed in since, once for each
\* time Redis had it, however the calls of several workers interleave and however
\* old the times they give are (the script's min, its time that goes backwards).
GrantsBounded ==
    \A b \in Buckets :
        granted[b] * Unit <= (Capacity(b) + Refill(b) * clock) * (1 + losses)

================================================================================
