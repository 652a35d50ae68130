--------------------------- MODULE OutboundProofs ---------------------------
(***************************************************************************)
(* What leaves the system is bounded: the alerts of the outbox, for any    *)
(* number of alerts and of drains at a time, and the tokens that pace the  *)
(* calls to Telegram, for any capacity, rate and order of callers.         *)
(***************************************************************************)
EXTENDS Notifier, Pacing, TLAPS

-----------------------------------------------------------------------------
(***************************************************************************)
(* The outbox: an alert is sent once unless a drain died with it or a send *)
(* only seemed to fail, and it is retired in time.                         *)
(***************************************************************************)

USE NotifierAssumption DEF NotifierAssumption

(* The invariant *)

OutboxTyped ==
    /\ alert \in [Keys -> [row : BOOLEAN, sent : BOOLEAN, attempts : 0 .. MaxSends]]
    /\ drain \in [Drains -> [todo : SUBSET Keys, sent : SUBSET Keys, failed : SUBSET Keys]]
    /\ events \in [Keys -> Nat]
    /\ copies \in [Keys -> Nat]
    /\ repeated \subseteq Keys

\* A row that a drain has claimed is its own, and is as it was when claimed.
ClaimsApart ==
    /\ \A d, e \in Drains : d # e => Claimed(d) \cap Claimed(e) = {}
    /\ \A d \in Drains : \A k \in Claimed(d) : Unsent(k)
    /\ \A d \in Drains : /\ drain[d].todo \cap (drain[d].sent \cup drain[d].failed) = {}
                         /\ drain[d].sent \cap drain[d].failed = {}

\* The person has an alert once it is in its row or with the drain that sent it.
CopiesTell ==
    \A k \in Keys \ repeated :
        copies[k] = IF alert[k].sent \/ \E d \in Drains : k \in drain[d].sent THEN 1 ELSE 0

OutboxInv == OutboxTyped /\ ClaimsApart /\ CopiesTell

-----------------------------------------------------------------------------
LEMMA OutboxInvInit == NotifierInit => OutboxInv
  BY DEF NotifierInit, OutboxInv, OutboxTyped, ClaimsApart, CopiesTell, NoAlert, Idle, Claimed

\* Another row of a key that has one changes nothing.
LEMMA EventKeeps ==
  ASSUME OutboxInv, NEW k \in Keys, Event(k)
  PROVE  OutboxInv'
<1> USE DEF OutboxInv
<1>1. /\ alert' = [j \in Keys |-> IF j = k THEN [alert[j] EXCEPT !.row = TRUE] ELSE alert[j]]
      /\ events' = [j \in Keys |-> events[j] + (IF j = k THEN 1 ELSE 0)]
      /\ UNCHANGED <<drain, copies, repeated>>
  <2>1. /\ Notify({k}) /\ UNCHANGED <<drain, copies, repeated>>
        /\ events' = [j \in Keys |-> events[j] + (IF j \in {k} THEN 1 ELSE 0)]
    BY DEF Event, Tells
  <2>2. \A j : j \in {k} <=> j = k
    OBVIOUS
  <2>3. QED
    BY <2>1, <2>2 DEF Notify
<1>2. OutboxTyped'
  <2>1. \A j \in Keys : [alert[j] EXCEPT !.row = TRUE] \in
                            [row : BOOLEAN, sent : BOOLEAN, attempts : 0 .. MaxSends]
    BY DEF OutboxTyped
  <2>2. alert' \in [Keys -> [row : BOOLEAN, sent : BOOLEAN, attempts : 0 .. MaxSends]]
    BY <1>1, <2>1 DEF OutboxTyped
  <2>3. events' \in [Keys -> Nat]
    BY <1>1 DEF OutboxTyped
  <2>4. QED
    BY <1>1, <2>2, <2>3 DEF OutboxTyped
<1>3. \A j \in Keys : alert'[j].sent = alert[j].sent /\ (Unsent(j) => Unsent(j)')
  BY <1>1 DEF OutboxTyped, Unsent
<1>4. ClaimsApart' /\ CopiesTell'
  BY <1>1, <1>3 DEF ClaimsApart, CopiesTell, Claimed, OutboxTyped
<1>5. QED
  BY <1>2, <1>4

LEMMA ClaimUnsentKeeps ==
  ASSUME OutboxInv, NEW d \in Drains, ClaimUnsent(d)
  PROVE  OutboxInv'
<1> USE DEF OutboxInv
<1> DEFINE free == {k \in Keys : Unsent(k) /\ \A e \in Drains : k \notin Claimed(e)}
<1>1. /\ drain[d] = Idle /\ drain' = [drain EXCEPT ![d].todo = free]
      /\ UNCHANGED <<alert, events, copies, repeated>>
  BY DEF ClaimUnsent
<1>2. /\ drain'[d].todo = free /\ drain'[d].sent = {} /\ drain'[d].failed = {}
      /\ \A e \in Drains \ {d} : drain'[e] = drain[e]
      /\ drain[d].sent = {}
  BY <1>1 DEF OutboxTyped, Idle
<1>3. OutboxTyped'
  BY <1>1 DEF OutboxTyped
<1>4. Claimed(d)' = free /\ \A e \in Drains \ {d} : Claimed(e)' = Claimed(e)
  BY <1>2 DEF Claimed
<1>5. ClaimsApart'
  BY <1>1, <1>2, <1>4 DEF ClaimsApart, Unsent
<1>6. \A e \in Drains : drain'[e].sent = drain[e].sent
  BY <1>2
<1>7. CopiesTell'
  BY <1>1, <1>6 DEF CopiesTell
<1>8. QED
  BY <1>3, <1>5, <1>7

\* A send moves the row within its drain.
LEMMA AttemptKeeps ==
  ASSUME OutboxInv, NEW d \in Drains, NEW k \in Keys,
         SendAlert(d, k) \/ Refused(d, k) \/ Unclear(d, k)
  PROVE  OutboxInv'
<1> USE DEF OutboxInv
<1>1. PICK out \in {"sent", "failed"} :
          /\ k \in drain[d].todo
          /\ drain' = [drain EXCEPT ![d].todo = @ \ {k}, ![d][out] = @ \cup {k}]
          /\ UNCHANGED <<alert, events>>
          /\ \/ out = "sent" /\ Reaches(k) /\ UNCHANGED repeated
             \/ out = "failed" /\ UNCHANGED <<copies, repeated>>
             \/ out = "failed" /\ Reaches(k) /\ repeated' = repeated \cup {k}
  BY DEF SendAlert, Refused, Unclear, Attempted
<1>2. /\ drain'[d].todo = drain[d].todo \ {k}
      /\ drain'[d].sent = IF out = "sent" THEN drain[d].sent \cup {k} ELSE drain[d].sent
      /\ drain'[d].failed = IF out = "failed" THEN drain[d].failed \cup {k} ELSE drain[d].failed
      /\ \A e \in Drains \ {d} : drain'[e] = drain[e]
      /\ drain' \in [Drains -> [todo : SUBSET Keys, sent : SUBSET Keys, failed : SUBSET Keys]]
  BY <1>1, ZenonT(60) DEF OutboxTyped
<1>3. OutboxTyped'
  <2>1. copies' \in [Keys -> Nat]
    BY <1>1 DEF OutboxTyped, Reaches
  <2>2. repeated' \subseteq Keys
    BY <1>1 DEF OutboxTyped
  <2>3. QED
    BY <1>1, <1>2, <2>1, <2>2 DEF OutboxTyped
<1>4. \A e \in Drains : Claimed(e)' = Claimed(e)
  BY <1>1, <1>2 DEF Claimed
<1>5. ClaimsApart'
  BY <1>1, <1>2, <1>4 DEF ClaimsApart, Unsent
<1>6. ASSUME NEW j \in Keys \ repeated'
      PROVE  copies'[j] = IF alert'[j].sent \/ \E e \in Drains : j \in drain'[e].sent THEN 1 ELSE 0
  <2>1. j \in Keys \ repeated
    BY <1>1
  <2>2. CASE j # k
    <3>1. copies'[j] = copies[j] /\ \A e \in Drains : j \in drain'[e].sent <=> j \in drain[e].sent
      BY <1>1, <1>2, <2>2 DEF Reaches, OutboxTyped
    <3>2. QED
      BY <1>1, <2>1, <3>1 DEF CopiesTell
  <2>3. CASE j = k
    <3>1. ~alert[k].sent /\ \A e \in Drains : k \notin drain[e].sent
      BY <1>1 DEF ClaimsApart, Unsent, Claimed
    <3>2. copies[k] = 0
      BY <2>1, <2>3, <3>1 DEF CopiesTell
    <3>3. CASE out = "sent"
      BY <1>1, <1>2, <2>3, <3>2, <3>3 DEF Reaches, OutboxTyped
    <3>4. CASE out = "failed"
      BY <1>1, <1>2, <2>3, <3>1, <3>2, <3>4
    <3>5. QED
      BY <3>3, <3>4
  <2>4. QED
    BY <2>2, <2>3
<1>7. QED
  BY <1>3, <1>5, <1>6 DEF CopiesTell

LEMMA CommitKeeps ==
  ASSUME OutboxInv, NEW d \in Drains, CommitDrain(d)
  PROVE  OutboxInv'
<1> USE DEF OutboxInv
<1>1. /\ drain[d].todo = {}
      /\ alert' = [k \in Keys |-> Marked(alert[k], d, k)]
      /\ drain' = [drain EXCEPT ![d] = Idle]
      /\ UNCHANGED <<events, copies, repeated>>
  BY DEF CommitDrain
<1>2. /\ drain'[d] = Idle /\ Claimed(d)' = {} /\ drain'[d].sent = {} /\ drain'[d].todo = {}
      /\ drain'[d].failed = {}
      /\ \A e \in Drains \ {d} : drain'[e] = drain[e] /\ Claimed(e)' = Claimed(e)
  BY <1>1 DEF OutboxTyped, Claimed, Idle
<1>3. \A k \in Keys \ Claimed(d) : alert'[k] = alert[k]
  BY <1>1 DEF Marked, Claimed
<1>4. ASSUME NEW k \in Keys
      PROVE  /\ alert'[k] \in [row : BOOLEAN, sent : BOOLEAN, attempts : 0 .. MaxSends]
             /\ alert'[k].sent <=> alert[k].sent \/ k \in drain[d].sent
  <2>1. alert'[k] = Marked(alert[k], d, k)
    BY <1>1
  <2>2. CASE k \in drain[d].sent
    <3>1. alert'[k] = [alert[k] EXCEPT !.sent = TRUE]
      BY <2>1, <2>2 DEF Marked, ClaimsApart
    <3>2. alert[k] \in [row : BOOLEAN, sent : BOOLEAN, attempts : 0 .. MaxSends]
      BY DEF OutboxTyped
    <3>3. QED
      BY <2>2, <3>1, <3>2
  <2>3. CASE k \notin drain[d].sent /\ k \in drain[d].failed
    <3>1. alert[k].attempts < MaxSends
      BY <2>3 DEF ClaimsApart, Claimed, Unsent
    <3>2. alert'[k] = [alert[k] EXCEPT !.attempts = @ + 1]
      BY <2>1, <2>3 DEF Marked
    <3>3. alert[k] \in [row : BOOLEAN, sent : BOOLEAN, attempts : 0 .. MaxSends]
      BY DEF OutboxTyped
    <3>4. alert[k].attempts + 1 \in 0 .. MaxSends
      BY <3>1, <3>3
    <3>5. QED
      BY <2>3, <3>2, <3>3, <3>4
  <2>4. CASE k \notin drain[d].sent /\ k \notin drain[d].failed
    BY <2>1, <2>4 DEF OutboxTyped, Marked
  <2>5. QED
    BY <2>2, <2>3, <2>4
<1>5. OutboxTyped'
  BY <1>1, <1>4 DEF OutboxTyped, Idle
<1>6. ClaimsApart'
  BY <1>2, <1>3, SMTT(40) DEF ClaimsApart, Unsent, OutboxTyped, Claimed
<1>7. CopiesTell'
  BY <1>1, <1>2, <1>4 DEF CopiesTell
<1>8. QED
  BY <1>5, <1>6, <1>7

LEMMA DrainDiesKeeps ==
  ASSUME OutboxInv, NEW d \in Drains, DrainDies(d)
  PROVE  OutboxInv'
<1> USE DEF OutboxInv
<1>1. /\ drain' = [drain EXCEPT ![d] = Idle]
      /\ repeated' = repeated \cup drain[d].sent
      /\ UNCHANGED <<alert, events, copies>>
  BY DEF DrainDies
<1>2. /\ Claimed(d)' = {} /\ drain'[d].sent = {} /\ drain'[d].todo = {}
      /\ drain'[d].failed = {}
      /\ \A e \in Drains \ {d} : drain'[e] = drain[e] /\ Claimed(e)' = Claimed(e)
  BY <1>1 DEF OutboxTyped, Claimed, Idle
<1>3. OutboxTyped'
  BY <1>1 DEF OutboxTyped, Idle
<1>4. ClaimsApart'
  BY <1>1, <1>2 DEF ClaimsApart, Unsent
<1>5. CopiesTell'
  BY <1>1, <1>2 DEF CopiesTell
<1>6. QED
  BY <1>3, <1>4, <1>5

LEMMA OutboxInvStep == OutboxInv /\ [NotifierNext]_notifierVars => OutboxInv'
<1> SUFFICES ASSUME OutboxInv, [NotifierNext]_notifierVars PROVE OutboxInv'
  OBVIOUS
<1>1. CASE UNCHANGED notifierVars
  BY <1>1 DEF notifierVars, OutboxInv, OutboxTyped, ClaimsApart, CopiesTell, Claimed, Unsent
<1>2. CASE \E k \in Keys : Event(k)
  BY <1>2, EventKeeps
<1>3. CASE \E d \in Drains : DrainStep(d) \/ DrainDies(d)
  <2>1. PICK d \in Drains : DrainStep(d) \/ DrainDies(d)
    BY <1>3
  <2>2. CASE DrainStep(d)
    BY <2>2, ClaimUnsentKeeps, CommitKeeps, AttemptKeeps DEF DrainStep
  <2>3. QED
    BY <2>1, <2>2, DrainDiesKeeps
<1>4. QED
  BY <1>1, <1>2, <1>3 DEF NotifierNext, DrainNext

\* The invariant of the outbox: claims are apart, and what the person has is in
\* the row or with the drain that sent it.
THEOREM OutboxSound == NotifierSpec => []OutboxInv
<1>1. QED
  BY OutboxInvInit, OutboxInvStep, PTL DEF NotifierSpec

\* The types of the rows; an alert is in one drain at a time (repositories/admins.py
\* claim_unsent), and it is not tried more than MaxSends times.
THEOREM AlertsTyped == NotifierSpec => []NotifierTypeOK
<1>1. OutboxInv => NotifierTypeOK
  BY DEF OutboxInv, OutboxTyped, ClaimsApart, NotifierTypeOK
<1>2. QED
  BY <1>1, OutboxSound, PTL

\* The person gets an alert once, unless a drain died with it or a send only
\* seemed to fail (adminbot/notifier.py drain_once).
THEOREM AlertsAreSentOnce == NotifierSpec => []AlertOnce
<1>1. OutboxInv => AlertOnce
  BY DEF OutboxInv, OutboxTyped, CopiesTell, AlertOnce
<1>2. QED
  BY <1>1, OutboxSound, PTL

HIDE NotifierAssumption DEF NotifierAssumption

-----------------------------------------------------------------------------
(***************************************************************************)
(* The token buckets: whatever times the callers give, in whatever order,  *)
(* never more tokens than a bucket held and what flowed in since.          *)
(***************************************************************************)

USE PacingAssumption DEF PacingAssumption

(* Products *)

LEMMA ProductIsNat ==
  ASSUME NEW m \in Nat, NEW n \in Nat
  PROVE  m * n \in Nat
  OBVIOUS

LEMMA ProductGrows ==
  ASSUME NEW m \in Nat, NEW a \in Int, NEW c \in Int, a <= c
  PROVE  m * a <= m * c
<1>1. c - a \in Nat
  OBVIOUS
<1>2. m * (c - a) \in Nat
  BY <1>1, ProductIsNat
<1>3. m * (c - a) = m * c - m * a
  OBVIOUS
<1>4. QED
  BY <1>2, <1>3

-----------------------------------------------------------------------------
(* The invariant *)

Records == [known : BOOLEAN, tokens : Int, ts : Nat]
CallerRecords == [at : Stages, chat : PacedChats, now : Nat, until : Nat]

PacingTyped ==
    /\ bucket \in [Buckets -> Records]
    /\ caller \in [Callers -> CallerRecords]
    /\ clock \in Nat /\ losses \in Nat
    /\ granted \in [Buckets -> Nat]

\* The times that callers and buckets know are past.
TimesPast ==
    /\ \A c \in Callers : caller[c].now <= clock
    /\ \A b \in Buckets : bucket[b].ts <= clock

\* What a bucket may have granted up to time t since Redis lost it.
Inflow(b, t) == Capacity(b) + Refill(b) * t
Earlier(b) == Inflow(b, clock) * losses

\* A bucket never holds more than its capacity; when its time goes back it may
\* fall below zero, by no more than what will flow in once more.
LevelBounded ==
    \A b \in Buckets : /\ bucket[b].tokens <= Capacity(b)
                       /\ 0 <= bucket[b].tokens + Refill(b) * (clock - bucket[b].ts)

\* What was granted and what is left came from what the bucket held and its inflow.
Balance ==
    \A b \in Buckets :
        granted[b] * Unit + (IF bucket[b].known THEN bucket[b].tokens ELSE 0) <=
            Earlier(b) + (IF bucket[b].known THEN Inflow(b, bucket[b].ts) ELSE 0)

PacingInv == PacingTyped /\ TimesPast /\ LevelBounded /\ Balance

-----------------------------------------------------------------------------
LEMMA RatesAreNat ==
  ASSUME NEW b \in Buckets
  PROVE  Capacity(b) \in Nat /\ Refill(b) \in Nat
  BY DEF Capacity, Refill

LEMMA InflowIsNat ==
  ASSUME NEW b \in Buckets, NEW t \in Nat
  PROVE  Inflow(b, t) \in Nat
  BY RatesAreNat, ProductIsNat DEF Inflow

LEMMA PacingInvInit == PacingInit => PacingInv
<1> SUFFICES ASSUME PacingInit PROVE PacingInv
  OBVIOUS
<1>1. PacingTyped /\ TimesPast
  BY DEF PacingInit, PacingTyped, TimesPast, Absent, Stages, Records, CallerRecords
<1>2. ASSUME NEW b \in Buckets
      PROVE  /\ bucket[b].tokens <= Capacity(b)
             /\ 0 <= bucket[b].tokens + Refill(b) * (clock - bucket[b].ts)
             /\ granted[b] * Unit + (IF bucket[b].known THEN bucket[b].tokens ELSE 0) <=
                    Earlier(b) + (IF bucket[b].known THEN Inflow(b, bucket[b].ts) ELSE 0)
  <2>1. bucket[b] = Absent /\ granted[b] = 0 /\ clock = 0 /\ losses = 0
    BY DEF PacingInit
  <2>2. Capacity(b) \in Nat /\ Refill(b) \in Nat
    BY RatesAreNat
  <2>3. Earlier(b) = 0
    BY <2>1, <2>2 DEF Earlier, Inflow
  <2>4. QED
    BY <2>1, <2>2, <2>3 DEF Absent
<1>3. QED
  BY <1>1, <1>2 DEF PacingInv, LevelBounded, Balance

\* A bucket's balance, whoever has it.
LEMMA GrantedSoFar ==
  ASSUME PacingInv, NEW b \in Buckets
  PROVE  granted[b] * Unit <= Earlier(b) + Inflow(b, clock)
<1>1. /\ Capacity(b) \in Nat /\ Refill(b) \in Nat /\ clock \in Nat /\ losses \in Nat
      /\ bucket[b].tokens \in Int /\ bucket[b].ts \in Nat /\ granted[b] \in Nat
      /\ bucket[b].known \in BOOLEAN
  BY RatesAreNat DEF PacingInv, PacingTyped, Records
<1>2. /\ Inflow(b, clock) \in Nat /\ Earlier(b) \in Nat /\ granted[b] * Unit \in Nat
      /\ Inflow(b, bucket[b].ts) \in Nat
  BY <1>1, InflowIsNat, ProductIsNat DEF Earlier
<1>3. CASE bucket[b].known
  <2>1. granted[b] * Unit + bucket[b].tokens <= Earlier(b) + Inflow(b, bucket[b].ts)
    BY <1>3 DEF PacingInv, Balance
  <2>2. 0 <= bucket[b].tokens + Refill(b) * (clock - bucket[b].ts)
    BY DEF PacingInv, LevelBounded
  <2>3. Inflow(b, bucket[b].ts) + Refill(b) * (clock - bucket[b].ts) = Inflow(b, clock)
    BY <1>1 DEF Inflow
  <2>4. QED
    BY <1>1, <1>2, <2>1, <2>2, <2>3
<1>4. CASE ~bucket[b].known
  <2>1. granted[b] * Unit + 0 <= Earlier(b) + 0
    BY <1>4 DEF PacingInv, Balance
  <2>2. QED
    BY <1>2, <2>1
<1>5. QED
  BY <1>3, <1>4

\* What the script finds: bounded by the capacity, by what was left and flowed in
\* since, and from below.
LEMMA TokensBounded ==
  ASSUME PacingInv, NEW b \in Buckets, NEW now \in Nat, now <= clock
  PROVE  /\ Tokens(b, now) \in Int /\ Tokens(b, now) <= Capacity(b)
         /\ 0 <= Tokens(b, now) + Refill(b) * (clock - now)
         /\ granted[b] * Unit + Tokens(b, now) <= Earlier(b) + Inflow(b, now)
<1> DEFINE x == bucket[b].tokens  ts == bucket[b].ts  C == Capacity(b)  R == Refill(b)
<1>1. /\ C \in Nat /\ R \in Nat /\ clock \in Nat /\ losses \in Nat /\ granted[b] \in Nat
      /\ x \in Int /\ ts \in Nat
  BY RatesAreNat DEF PacingInv, PacingTyped, Records
<1>2. /\ Earlier(b) \in Nat /\ granted[b] * Unit \in Nat /\ R * now \in Nat /\ R * ts \in Nat
      /\ R * (clock - now) \in Nat
  BY <1>1, InflowIsNat, ProductIsNat DEF Earlier
<1>3. CASE ~bucket[b].known
  <2>1. Tokens(b, now) = C
    BY <1>3 DEF Tokens
  <2>2. granted[b] * Unit + 0 <= Earlier(b) + 0
    BY <1>3 DEF PacingInv, Balance
  <2>3. QED
    BY <1>1, <1>2, <2>1, <2>2 DEF Inflow
<1>4. CASE bucket[b].known
  <2> DEFINE y == x + (now - ts) * R
  <2>1. Tokens(b, now) = Lower(C, y)
    BY <1>4 DEF Tokens
  <2>2. /\ granted[b] * Unit + x <= Earlier(b) + (C + R * ts)
        /\ 0 <= x + R * (clock - ts) /\ x <= C
    BY <1>4 DEF PacingInv, Balance, LevelBounded, Inflow
  <2>3. /\ y \in Int /\ (now - ts) * R = R * now - R * ts
        /\ R * (clock - ts) = R * (clock - now) + (now - ts) * R
    BY <1>1
  <2>4. 0 <= y + R * (clock - now) /\ granted[b] * Unit + y <= Earlier(b) + (C + R * now)
    BY <1>1, <1>2, <2>2, <2>3
  <2>5. CASE C <= y
    BY <1>1, <1>2, <2>1, <2>3, <2>4, <2>5 DEF Lower, Inflow
  <2>6. CASE ~(C <= y)
    BY <1>1, <1>2, <2>1, <2>3, <2>4, <2>6 DEF Lower, Inflow
  <2>7. QED
    BY <2>5, <2>6
<1>5. QED
  BY <1>3, <1>4

-----------------------------------------------------------------------------
(* The steps *)

LEMMA CallersKept ==
  ASSUME PacingInv, NEW c \in Callers, NEW t \in Nat, Wakes(c, t), caller[c].at \in {"chat", "overall"}
  PROVE  /\ caller' \in [Callers -> CallerRecords]
         /\ \A d \in Callers : caller'[d].now = caller[d].now
  BY ZenonT(60) DEF PacingInv, PacingTyped, CallerRecords, Wakes, NextStage, Stages

LEMMA AcquireKeeps ==
  ASSUME PacingInv, NEW c \in Callers, Acquire(c)
  PROVE  PacingInv'
<1> DEFINE b == BucketOf(c)
           now == caller[c].now
           tokens == Tokens(b, now)
           left == IF Grants(tokens) THEN tokens - Unit ELSE tokens
<1>1. /\ bucket' = [bucket EXCEPT ![b] = [known |-> TRUE, ts |-> now, tokens |-> left]]
      /\ granted' = [granted EXCEPT ![b] = IF Grants(tokens) THEN @ + 1 ELSE @]
      /\ \E t \in clock .. clock + MaxSleep : Wakes(c, t)
      /\ caller[c].at \in {"chat", "overall"}
      /\ UNCHANGED <<clock, losses>>
  BY DEF Acquire, StampedNow
<1>2. /\ b \in Buckets /\ now \in Nat /\ now <= clock /\ clock \in Nat /\ losses \in Nat
      /\ granted \in [Buckets -> Nat] /\ bucket \in [Buckets -> Records]
  BY DEF PacingInv, PacingTyped, TimesPast, BucketOf, Buckets, CallerRecords
<1>3. /\ tokens \in Int /\ tokens <= Capacity(b)
      /\ 0 <= tokens + Refill(b) * (clock - now)
      /\ granted[b] * Unit + tokens <= Earlier(b) + Inflow(b, now)
  BY <1>2, TokensBounded
<1>4. /\ Capacity(b) \in Nat /\ Refill(b) \in Nat /\ Earlier(b) \in Nat /\ Inflow(b, now) \in Nat
      /\ granted[b] \in Nat /\ granted[b] * Unit \in Nat /\ Refill(b) * (clock - now) \in Nat
  BY <1>2, RatesAreNat, InflowIsNat, ProductIsNat DEF Earlier
<1>5. /\ left \in Int /\ left <= Capacity(b)
      /\ 0 <= left + Refill(b) * (clock - now)
  BY <1>3, <1>4 DEF Grants
<1>6. granted'[b] \in Nat /\ granted'[b] * Unit + left <= Earlier(b) + Inflow(b, now)
  <2>1. CASE Grants(tokens)
    <3>1. granted'[b] = granted[b] + 1
      BY <1>1, <1>2, <2>1
    <3>2. (granted[b] + 1) * Unit = granted[b] * Unit + Unit
      BY <1>4
    <3>3. QED
      BY <1>3, <1>4, <2>1, <3>1, <3>2
  <2>2. CASE ~Grants(tokens)
    BY <1>1, <1>2, <1>3, <1>4, <2>2
  <2>3. QED
    BY <2>1, <2>2
<1>7. /\ bucket'[b] = [known |-> TRUE, ts |-> now, tokens |-> left]
      /\ \A d \in Buckets \ {b} : bucket'[d] = bucket[d] /\ granted'[d] = granted[d]
      /\ bucket' \in [Buckets -> Records] /\ granted' \in [Buckets -> Nat]
  BY <1>1, <1>2, <1>5, <1>6 DEF Records
<1>8. /\ caller' \in [Callers -> CallerRecords]
      /\ \A d \in Callers : caller'[d].now = caller[d].now
  BY <1>1, <1>2, CallersKept
<1>9. PacingTyped' /\ TimesPast'
  BY <1>1, <1>2, <1>7, <1>8 DEF PacingInv, PacingTyped, TimesPast
<1>10. LevelBounded'
  BY <1>1, <1>2, <1>5, <1>7 DEF PacingInv, LevelBounded, Capacity, Refill
<1>11. Balance'
  <2>1. \A d \in Buckets : Earlier(d)' = Earlier(d)
    BY <1>1 DEF Earlier, Inflow, Capacity, Refill
  <2>2. \A d, t : Inflow(d, t)' = Inflow(d, t)
    BY DEF Inflow, Capacity, Refill
  <2> SUFFICES ASSUME NEW d \in Buckets
               PROVE  granted'[d] * Unit + (IF bucket'[d].known THEN bucket'[d].tokens ELSE 0) <=
                          Earlier(d) + (IF bucket'[d].known THEN Inflow(d, bucket'[d].ts) ELSE 0)
    BY <2>1, <2>2 DEF Balance, Inflow, Capacity, Refill
  <2>3. CASE d = b
    BY <1>6, <1>7, <2>3
  <2>4. CASE d # b
    BY <1>7, <2>4 DEF PacingInv, Balance
  <2>5. QED
    BY <2>3, <2>4
<1>12. QED
  BY <1>9, <1>10, <1>11 DEF PacingInv

\* The buckets keep while time passes and losses only grow.
LEMMA BucketsKept ==
  ASSUME PacingInv, UNCHANGED <<bucket, granted>>,
         clock' \in Nat, clock <= clock', losses' \in Nat, losses <= losses'
  PROVE  LevelBounded' /\ Balance' /\ \A b \in Buckets : bucket[b].ts <= clock'
<1> SUFFICES ASSUME NEW b \in Buckets
             PROVE  /\ bucket[b].ts <= clock'
                    /\ bucket[b].tokens <= Capacity(b)
                    /\ 0 <= bucket[b].tokens + Refill(b) * (clock' - bucket[b].ts)
                    /\ granted[b] * Unit + (IF bucket[b].known THEN bucket[b].tokens ELSE 0) <=
                           Inflow(b, clock') * losses'
                               + (IF bucket[b].known THEN Inflow(b, bucket[b].ts) ELSE 0)
  BY DEF LevelBounded, Balance, Earlier, Inflow, Capacity, Refill
<1>1. /\ Capacity(b) \in Nat /\ Refill(b) \in Nat /\ clock \in Nat /\ losses \in Nat
      /\ bucket[b].tokens \in Int /\ bucket[b].ts \in Nat /\ granted[b] \in Nat
      /\ bucket[b].known \in BOOLEAN /\ bucket[b].ts <= clock
  BY RatesAreNat DEF PacingInv, PacingTyped, Records, TimesPast
<1>2. Refill(b) * (clock - bucket[b].ts) <= Refill(b) * (clock' - bucket[b].ts)
  BY <1>1, ProductGrows
<1>3. Inflow(b, clock) \in Nat /\ Inflow(b, clock') \in Nat /\ Inflow(b, bucket[b].ts) \in Nat
  BY <1>1, InflowIsNat
<1>4. Inflow(b, clock) <= Inflow(b, clock')
  <2>1. Refill(b) * clock <= Refill(b) * clock'
    BY <1>1, ProductGrows
  <2>2. QED
    BY <1>1, <2>1 DEF Inflow
<1>5. Earlier(b) <= Inflow(b, clock') * losses'
  <2>1. losses * Inflow(b, clock) <= losses * Inflow(b, clock')
    BY <1>1, <1>3, <1>4, ProductGrows
  <2>2. Inflow(b, clock') * losses <= Inflow(b, clock') * losses'
    BY <1>1, <1>3, ProductGrows
  <2>3. losses * Inflow(b, clock) = Inflow(b, clock) * losses
        /\ losses * Inflow(b, clock') = Inflow(b, clock') * losses
    BY <1>1, <1>3
  <2>4. QED
    BY <1>1, <1>3, <2>1, <2>2, <2>3 DEF Earlier
<1>6. /\ Earlier(b) \in Nat /\ Inflow(b, clock') * losses' \in Nat
      /\ granted[b] * Unit \in Nat
      /\ Refill(b) * (clock - bucket[b].ts) \in Int
      /\ Refill(b) * (clock' - bucket[b].ts) \in Int
  BY <1>1, <1>3, ProductIsNat DEF Earlier
<1>7. /\ bucket[b].tokens <= Capacity(b)
      /\ 0 <= bucket[b].tokens + Refill(b) * (clock - bucket[b].ts)
      /\ granted[b] * Unit + (IF bucket[b].known THEN bucket[b].tokens ELSE 0) <=
             Earlier(b) + (IF bucket[b].known THEN Inflow(b, bucket[b].ts) ELSE 0)
  BY DEF PacingInv, LevelBounded, Balance
<1>8. QED
  BY <1>1, <1>2, <1>3, <1>5, <1>6, <1>7

LEMMA OtherCallerStepsKeep ==
  ASSUME PacingInv, NEW c \in Callers,
         Unpaced(c) \/ PacedSend(c) \/ \E chat \in PacedChats : BeginsPaced(c, chat)
  PROVE  PacingInv'
<1>1. UNCHANGED <<bucket, granted, clock>>
  BY DEF Unpaced, PacedSend, BeginsPaced
<1>2. losses' \in Nat /\ losses <= losses' /\ clock \in Nat /\ losses \in Nat
  BY DEF PacingInv, PacingTyped, Unpaced, PacedSend, BeginsPaced
<1>3. LevelBounded' /\ Balance' /\ \A b \in Buckets : bucket[b].ts <= clock'
  BY <1>1, <1>2, BucketsKept
<1>4. caller' \in [Callers -> CallerRecords] /\ \A d \in Callers : caller'[d].now <= clock
  <2>1. CASE Unpaced(c)
    BY <1>2, <2>1, CallersKept DEF Unpaced, PacingInv, TimesPast
  <2>2. CASE PacedSend(c)
    BY <2>2 DEF PacedSend, PacingInv, PacingTyped, TimesPast, CallerRecords, Stages
  <2>3. CASE \E chat \in PacedChats : BeginsPaced(c, chat)
    BY <1>2, <2>3 DEF BeginsPaced, PacingInv, PacingTyped, TimesPast, CallerRecords, Stages
  <2>4. QED
    BY <2>1, <2>2, <2>3
<1>5. QED
  BY <1>1, <1>2, <1>3, <1>4 DEF PacingInv, PacingTyped, TimesPast

LEMMA TickKeeps ==
  ASSUME PacingInv, Tick
  PROVE  PacingInv'
<1>1. /\ UNCHANGED <<bucket, caller, granted, losses>> /\ clock' = clock + 1
      /\ clock \in Nat /\ losses \in Nat
  BY DEF Tick, PacingInv, PacingTyped
<1>2. LevelBounded' /\ Balance' /\ \A b \in Buckets : bucket[b].ts <= clock'
  BY <1>1, BucketsKept
<1>3. \A c \in Callers : caller[c].now <= clock'
  BY <1>1 DEF PacingInv, PacingTyped, TimesPast, CallerRecords
<1>4. QED
  BY <1>1, <1>2, <1>3 DEF PacingInv, PacingTyped, TimesPast

\* A bucket that is lost has granted what it could, and starts again.
LEMMA LoseBucketKeeps ==
  ASSUME PacingInv, NEW b \in Buckets, LoseBucket(b)
  PROVE  PacingInv'
<1>1. /\ bucket' = [bucket EXCEPT ![b] = Absent] /\ losses' = losses + 1
      /\ UNCHANGED <<caller, clock, granted>>
      /\ clock \in Nat /\ losses \in Nat /\ granted \in [Buckets -> Nat]
      /\ bucket \in [Buckets -> Records]
  BY DEF LoseBucket, PacingInv, PacingTyped
<1>2. /\ bucket'[b] = Absent /\ \A d \in Buckets \ {b} : bucket'[d] = bucket[d]
      /\ bucket' \in [Buckets -> Records]
  BY <1>1 DEF Absent, Records
<1>3. PacingTyped' /\ TimesPast'
  BY <1>1, <1>2 DEF PacingInv, PacingTyped, TimesPast, Absent
<1>4. ASSUME NEW d \in Buckets
      PROVE  /\ bucket'[d].tokens <= Capacity(d)
             /\ 0 <= bucket'[d].tokens + Refill(d) * (clock - bucket'[d].ts)
  <2>1. CASE d = b
    <3>1. Capacity(d) \in Nat /\ Refill(d) * clock \in Nat
      BY <1>1, RatesAreNat, ProductIsNat
    <3>2. QED
      BY <1>1, <1>2, <2>1, <3>1 DEF Absent
  <2>2. CASE d # b
    BY <1>2, <2>2 DEF PacingInv, LevelBounded
  <2>3. QED
    BY <2>1, <2>2
<1>5. ASSUME NEW d \in Buckets
      PROVE  granted[d] * Unit + (IF bucket'[d].known THEN bucket'[d].tokens ELSE 0) <=
                 Inflow(d, clock) * (losses + 1)
                     + (IF bucket'[d].known THEN Inflow(d, bucket'[d].ts) ELSE 0)
  <2>1. /\ Inflow(d, clock) \in Nat /\ Earlier(d) \in Nat /\ granted[d] * Unit \in Nat
        /\ bucket[d].tokens \in Int /\ bucket[d].ts \in Nat /\ Inflow(d, bucket[d].ts) \in Nat
        /\ bucket[d].known \in BOOLEAN
    BY <1>1, InflowIsNat, ProductIsNat DEF Earlier, Records
  <2>2. Inflow(d, clock) * (losses + 1) = Earlier(d) + Inflow(d, clock)
    BY <1>1, <2>1 DEF Earlier
  <2>3. CASE d = b
    <3>1. ~bucket'[d].known
      BY <1>2, <2>3 DEF Absent
    <3>2. granted[d] * Unit <= Earlier(d) + Inflow(d, clock)
      BY GrantedSoFar
    <3>3. QED
      BY <2>1, <2>2, <3>1, <3>2
  <2>4. CASE d # b
    <3>1. granted[d] * Unit + (IF bucket[d].known THEN bucket[d].tokens ELSE 0) <=
              Earlier(d) + (IF bucket[d].known THEN Inflow(d, bucket[d].ts) ELSE 0)
      BY DEF PacingInv, Balance
    <3>2. QED
      BY <1>2, <2>1, <2>2, <2>4, <3>1
  <2>5. QED
    BY <2>3, <2>4
<1>6. LevelBounded' /\ Balance'
  BY <1>1, <1>4, <1>5 DEF LevelBounded, Balance, Earlier, Inflow, Capacity, Refill
<1>7. QED
  BY <1>3, <1>6 DEF PacingInv

LEMMA PacingInvStep == PacingInv /\ [PacingNext]_pacingVars => PacingInv'
<1> SUFFICES ASSUME PacingInv, [PacingNext]_pacingVars PROVE PacingInv'
  OBVIOUS
<1>1. CASE UNCHANGED pacingVars
  BY <1>1 DEF pacingVars, PacingInv, PacingTyped, TimesPast, LevelBounded, Balance, Earlier,
              Inflow, Capacity, Refill
<1>2. CASE \E c \in Callers : CallerStep(c) \/ \E chat \in PacedChats : BeginsPaced(c, chat)
  BY <1>2, AcquireKeeps, OtherCallerStepsKeep DEF CallerStep
<1>3. CASE \E b \in Buckets : LoseBucket(b)
  BY <1>3, LoseBucketKeeps
<1>4. CASE Tick
  BY <1>4, TickKeeps
<1>5. QED
  BY <1>1, <1>2, <1>3, <1>4 DEF PacingNext

\* The balance of the buckets is an invariant, whatever times the callers give.
THEOREM BucketsBalance == PacingSpec => []PacingInv
<1>1. QED
  BY PacingInvInit, PacingInvStep, PTL DEF PacingSpec

\* The types of the buckets and callers; a bucket holds no more than its capacity
\* (security/ratelimit.py).
THEOREM BucketsTyped == PacingSpec => []PacingTypeOK
<1>1. PacingInv => PacingTypeOK
  BY DEF PacingInv, PacingTyped, LevelBounded, PacingTypeOK, Records, CallerRecords
<1>2. QED
  BY <1>1, BucketsBalance, PTL

\* A bucket grants no more than it held and what flowed in, once for each time
\* Redis had it, however the calls interleave (PacingBucket, _pace).
THEOREM GrantsAreBounded == PacingSpec => []GrantsBounded
<1>1. PacingInv => GrantsBounded
  <2> SUFFICES ASSUME PacingInv, NEW b \in Buckets
               PROVE  granted[b] * Unit <= (Capacity(b) + Refill(b) * clock) * (1 + losses)
    BY DEF GrantsBounded
  <2>1. clock \in Nat /\ losses \in Nat /\ Inflow(b, clock) \in Nat
    BY InflowIsNat DEF PacingInv, PacingTyped
  <2>2. granted[b] * Unit <= Earlier(b) + Inflow(b, clock)
    BY GrantedSoFar
  <2>3. Inflow(b, clock) * (1 + losses) = Earlier(b) + Inflow(b, clock)
    BY <2>1 DEF Earlier
  <2>4. QED
    BY <2>2, <2>3 DEF Inflow
<1>2. QED
  BY <1>1, BucketsBalance, PTL

HIDE PacingAssumption DEF PacingAssumption
=============================================================================
