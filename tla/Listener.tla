------------------------------ MODULE Listener ------------------------------
(***************************************************************************)
(* Intake of one bot connection: listener processes that compete for its    *)
(* lock in Redis, the long poll at Telegram, the album buffer, the queue in *)
(* memory, and the consumer task that dispatches each message.              *)
(*                                                                          *)
(* A run is one call of run_connection with its buffer, queue and consumer. *)
(* When it fails or is cancelled the buffer's timer and the consumer go on  *)
(* (nothing cancels them): they end with their process.                     *)
(*                                                                          *)
(* Telegram's updates are 1..Newest, numbered by update_id; it repeats them   *)
(* until a request's offset confirms them.                                  *)
(***************************************************************************)
EXTENDS Naturals, Sequences, FiniteSets, SequencesExt

CONSTANTS
    Processes,  \* listener processes
    Runs,       \* calls of run_connection that may exist at once
    Nobody,     \* who holds a free lock, and where an unused run lives
    Newest,     \* the number of updates
    Album,      \* the updates that are parts of one album
    Budget      \* how many commands, crashes, stalls and outages may happen

Updates == 1..Newest
Kinds == {"command", "crash", "stall", "outage"}

ASSUME NobodyAssumption == Nobody \notin Processes
ASSUME UpdatesAssumption == Newest \in Nat /\ Album \subseteq Updates
ASSUME BudgetAssumption == Budget \in [Kinds -> Nat]

VARIABLES
    arrived,   \* updates Telegram has, 1..arrived
    confirmed, \* of these, the ones it will not send again
    active,    \* the connection is active and its owner not suspended
    lock,      \* the process whose LISTENER_ID the lock's key holds
    stopping,  \* processes with _shutdown set
    phase,     \* where each run is in run_connection
    host,      \* the process of each run
    mine,      \* whether release() found its own id under the key
    offset,    \* BotAdapter._offset - 1 (0: None)
    asked,     \* a getUpdates request is outstanding
    buffer,    \* AlbumBuffer._pending
    queue,     \* the queue of messages; a message is a set of updates
    doing,     \* the message the consumer works on ({}: none)
    jobs,      \* messages that have forwarding jobs
    taken,     \* updates a dispatch transaction has committed on
    dropped,   \* updates that a dying process or a failing dispatch had in hand
    budget     \* what is left of Budget

telegram == <<arrived, confirmed>>
locking == <<lock, phase, host, mine>>
poll == <<offset, asked>>
memory == <<buffer, queue, doing>>
results == <<jobs, taken, dropped>>
world == <<active, stopping, budget>>
listenVars == <<telegram, locking, poll, memory, results, world>>

Phases == {"none", "open", "draining", "closing", "ended"}

-----------------------------------------------------------------------------
(* State formulae *)

Spend(kind) == budget[kind] > 0 /\ budget' = [budget EXCEPT ![kind] = @ - 1]

\* What a run has in memory.
Memory(r) == buffer[r] \union (UNION Range(queue[r])) \union doing[r]
InMemory == UNION {Memory(r) : r \in Runs}

\* Runs whose client is open, and whose lock is renewed.
Reading(r) == phase[r] \in {"open", "draining"}
Supervised(r) == Reading(r) \/ phase[r] = "closing"

\* Whether the lock of process p is kept alive.
HeldForgotten(p) == FALSE
Held(p) == \E r \in Runs : host[r] = p /\ Supervised(r)

Batch == confirmed + 1 .. arrived

\* The offset after a batch: one past its last update.
NextOffsetSkipping == arrived + 1
NextOffset == arrived

\* Messages with the updates of S that are no album parts, one each, in order.
Singles(S) == [i \in 1..Cardinality(S \ Album) |->
                  {CHOOSE u \in S \ Album : Cardinality({v \in S \ Album : v <= u}) = i}]

\* The idempotency key is built on the lowest message id.
Anchor(message) == Min(message)

Init ==
    /\ arrived = 0 /\ confirmed = 0
    /\ active = TRUE /\ lock = Nobody /\ stopping = {}
    /\ phase = [r \in Runs |-> "none"]
    /\ host = [r \in Runs |-> Nobody]
    /\ mine = [r \in Runs |-> FALSE]
    /\ offset = [r \in Runs |-> 0]
    /\ asked = [r \in Runs |-> FALSE]
    /\ buffer = [r \in Runs |-> {}]
    /\ queue = [r \in Runs |-> <<>>]
    /\ doing = [r \in Runs |-> {}]
    /\ jobs = {} /\ taken = {} /\ dropped = {}
    /\ budget = Budget

-----------------------------------------------------------------------------
(* run_connection and its lock *)

\* A supervising process starts a run, which takes the lock, builds a new
\* adapter and restores no offset: nothing ever stores one.
Start(p, r) ==
    /\ active /\ p \notin stopping
    /\ ~Held(p)
    /\ phase[r] \in {"none", "ended"} /\ Memory(r) = {}
    /\ lock = Nobody /\ lock' = p
    /\ phase' = [phase EXCEPT ![r] = "open"]
    /\ host' = [host EXCEPT ![r] = p]
    /\ offset' = [offset EXCEPT ![r] = 0]
    /\ asked' = [asked EXCEPT ![r] = FALSE]
    /\ UNCHANGED <<telegram, mine, memory, results, world>>

\* getUpdates reaches Telegram; its offset confirms what was handed out before.
Request(r) ==
    /\ phase[r] = "open" /\ ~asked[r]
    /\ asked' = [asked EXCEPT ![r] = TRUE]
    /\ confirmed' = IF offset[r] > confirmed THEN offset[r] ELSE confirmed
    /\ UNCHANGED <<arrived, locking, offset, memory, results, world>>

\* Telegram serves one request at a time; of two, one fails with 409.
Conflict(r) == asked[r] /\ \E s \in Runs \ {r} : asked[s]

Answered(r) ==
    /\ phase[r] = "open" /\ asked[r] /\ Batch # {} /\ ~Conflict(r)
    /\ asked' = [asked EXCEPT ![r] = FALSE]

\* A batch is handled without a pause: album parts gather, the rest is queued.
Receive(r) ==
    /\ Answered(r) /\ host[r] \notin stopping
    /\ offset' = [offset EXCEPT ![r] = NextOffset]
    /\ buffer' = [buffer EXCEPT ![r] = @ \union (Batch \intersect Album)]
    /\ queue' = [queue EXCEPT ![r] = @ \o Singles(Batch)]
    /\ UNCHANGED <<telegram, locking, doing, results, world>>

\* The loop ends at the first message after the shutdown: drain, then join.
BreakOff(r) ==
    /\ Answered(r) /\ host[r] \in stopping
    /\ phase' = [phase EXCEPT ![r] = "draining"]
    /\ buffer' = [buffer EXCEPT ![r] = {}]
    /\ queue' = [queue EXCEPT ![r] = IF buffer[r] = {} THEN @ ELSE Append(@, buffer[r])]
    /\ UNCHANGED <<telegram, lock, host, mine, offset, doing, results, world>>

CloseStillAsking(r) ==
    /\ phase' = [phase EXCEPT ![r] = "closing"]
    /\ mine' = [mine EXCEPT ![r] = lock = host[r]]
    /\ UNCHANGED <<telegram, lock, host, offset, asked, memory, results>>

\* The finally clause: release() stops the renewal and reads the key ...
Close(r) ==
    /\ phase' = [phase EXCEPT ![r] = "closing"]
    /\ mine' = [mine EXCEPT ![r] = lock = host[r]]
    /\ asked' = [asked EXCEPT ![r] = FALSE]
    /\ UNCHANGED <<telegram, lock, host, offset, memory, results>>

\* ... after the join,
Joined(r) ==
    /\ phase[r] = "draining" /\ Memory(r) = {}
    /\ Close(r)
    /\ UNCHANGED world

\* ... after an exception of the adapter, a conflict among them,
Fail(r) ==
    /\ phase[r] = "open"
    /\ \/ Conflict(r) /\ UNCHANGED budget
       \/ Spend("outage")
    /\ Close(r)
    /\ UNCHANGED <<active, stopping>>

\* ... or because run() cancels the task of a connection no longer active.
Cancel(r) ==
    /\ phase[r] = "open" /\ ~active /\ host[r] \notin stopping
    /\ Close(r)
    /\ UNCHANGED world

\* ... and then deletes it.
Release(r) ==
    /\ phase[r] = "closing"
    /\ lock' = IF mine[r] THEN Nobody ELSE lock
    /\ phase' = [phase EXCEPT ![r] = "ended"]
    /\ mine' = [mine EXCEPT ![r] = FALSE]
    /\ UNCHANGED <<telegram, host, poll, memory, results, world>>

LapsedNever == FALSE
Lapsed == lock # Nobody /\ ~Held(lock)

\* The key expires: nobody renews it, or its owner stalls for a minute.
Expire ==
    /\ lock # Nobody /\ lock' = Nobody
    /\ \/ Lapsed /\ UNCHANGED budget
       \/ Spend("stall")
    /\ UNCHANGED <<telegram, phase, host, mine, poll, memory, results, active, stopping>>

-----------------------------------------------------------------------------
(* The album buffer and the consumer *)

\* _flush_later: the parts that came within the window are one message.
Flush(r) ==
    /\ buffer[r] # {}
    /\ queue' = [queue EXCEPT ![r] = Append(@, buffer[r])]
    /\ buffer' = [buffer EXCEPT ![r] = {}]
    /\ UNCHANGED <<telegram, locking, poll, doing, results, world>>

Take(r) ==
    /\ doing[r] = {} /\ queue[r] # <<>>
    /\ doing' = [doing EXCEPT ![r] = Head(queue[r])]
    /\ queue' = [queue EXCEPT ![r] = Tail(@)]
    /\ UNCHANGED <<telegram, locking, poll, buffer, results, world>>

\* dispatch_inbound: create_if_absent on the key.
Dispatch(r) ==
    /\ doing[r] # {}
    /\ jobs' = IF \E j \in jobs : Anchor(j) = Anchor(doing[r]) THEN jobs
               ELSE jobs \union {doing[r]}
    /\ taken' = taken \union doing[r]
    /\ doing' = [doing EXCEPT ![r] = {}]
    /\ UNCHANGED <<telegram, locking, poll, buffer, queue, dropped, world>>

\* An exception is logged and the message is gone.
DispatchFails(r) ==
    /\ doing[r] # {} /\ Spend("outage")
    /\ dropped' = dropped \union doing[r]
    /\ doing' = [doing EXCEPT ![r] = {}]
    /\ UNCHANGED <<telegram, locking, poll, buffer, queue, jobs, taken, active, stopping>>

\* _maybe_auto_reply fails: the message is dispatched all the same.
NoAnswer(r) ==
    /\ doing[r] # {} /\ Spend("outage")
    /\ UNCHANGED <<telegram, locking, poll, memory, results, active, stopping>>

-----------------------------------------------------------------------------
(* Processes, the customer, Telegram *)

\* SIGTERM.
Stop(p) ==
    /\ p \notin stopping /\ stopping' = stopping \union {p}
    /\ Spend("crash")
    /\ UNCHANGED <<telegram, locking, poll, memory, results, active>>

\* All that lives in the memory of a process goes with it.
Dies(p) ==
    LET dead == {r \in Runs : host[r] = p} IN
    /\ dropped' = dropped \union UNION {Memory(r) : r \in dead}
    /\ phase' = [r \in Runs |-> IF r \in dead THEN "none" ELSE phase[r]]
    /\ host' = [r \in Runs |-> IF r \in dead THEN Nobody ELSE host[r]]
    /\ mine' = [r \in Runs |-> IF r \in dead THEN FALSE ELSE mine[r]]
    /\ offset' = [r \in Runs |-> IF r \in dead THEN 0 ELSE offset[r]]
    /\ asked' = [r \in Runs |-> IF r \in dead THEN FALSE ELSE asked[r]]
    /\ buffer' = [r \in Runs |-> IF r \in dead THEN {} ELSE buffer[r]]
    /\ queue' = [r \in Runs |-> IF r \in dead THEN <<>> ELSE queue[r]]
    /\ doing' = [r \in Runs |-> IF r \in dead THEN {} ELSE doing[r]]
    /\ UNCHANGED <<telegram, jobs, taken, active>>

\* The end of run(): the tasks are cancelled, which releases the lock (unless
\* release() itself is cut short), and no one waits for the consumers.  Another
\* process takes its place.
Exit(p) ==
    /\ p \in stopping /\ stopping' = stopping \ {p}
    /\ \/ lock = p /\ Held(p) /\ lock' = Nobody
       \/ UNCHANGED lock
    /\ Dies(p)
    /\ UNCHANGED budget

Crash(p) ==
    /\ Spend("crash") /\ stopping' = stopping \ {p}
    /\ Dies(p)
    /\ UNCHANGED lock

\* Pauses, disconnections, suspension and what ends them.
Toggle ==
    /\ active' = ~active /\ Spend("command")
    /\ UNCHANGED <<telegram, locking, poll, memory, results, stopping>>

Arrive ==
    /\ arrived < Newest /\ arrived' = arrived + 1
    /\ UNCHANGED <<confirmed, locking, poll, memory, results, world>>

\* Steps of a run that no other module takes part in.
RunStep(r) ==
    \/ \E p \in Processes : Start(p, r)
    \/ Request(r) \/ Receive(r) \/ BreakOff(r)
    \/ Joined(r) \/ Fail(r) \/ Cancel(r) \/ Release(r)
    \/ Flush(r)

\* Steps of its consumer.
ConsumerStep(r) == Take(r) \/ Dispatch(r) \/ DispatchFails(r) \/ NoAnswer(r)

Next ==
    \/ \E r \in Runs : RunStep(r) \/ ConsumerStep(r)
    \/ \E p \in Processes : Stop(p) \/ Exit(p) \/ Crash(p)
    \/ Expire \/ Toggle \/ Arrive

Spec == Init /\ [][Next]_listenVars

-----------------------------------------------------------------------------
(* Properties *)

\* Every variable keeps its type; a request is outstanding only in an open run.
TypeOK ==
    /\ arrived \in 0..Newest /\ confirmed \in 0..arrived
    /\ active \in BOOLEAN /\ lock \in Processes \union {Nobody} /\ stopping \subseteq Processes
    /\ phase \in [Runs -> Phases]
    /\ host \in [Runs -> Processes \union {Nobody}]
    /\ mine \in [Runs -> BOOLEAN]
    /\ offset \in [Runs -> 0..arrived] /\ asked \in [Runs -> BOOLEAN]
    /\ \A r \in Runs : asked[r] => phase[r] = "open"
    /\ buffer \in [Runs -> SUBSET Album]
    /\ queue \in [Runs -> Seq(SUBSET Updates)] /\ doing \in [Runs -> SUBSET Updates]
    /\ jobs \subseteq SUBSET Updates /\ taken \subseteq Updates /\ dropped \subseteq Updates
    /\ budget \in [Kinds -> Nat]

\* Only the lock's holder opens a client (ConnectionLock): at most one run reads
\* the connection's updates, unless a process stalled for longer than the lock
\* lives.
OneReader ==
    budget["stall"] = Budget["stall"] =>
        \A r, s \in Runs : Reading(r) /\ Reading(s) => r = s

\* An update Telegram will not send again was dispatched or is in some process's
\* hands, unless the process died with it or the dispatch failed: neither
\* cancellations nor reconnections nor lost locks lose one.
NothingForgotten == 1..confirmed \subseteq taken \union InMemory \union dropped

(* The argument of the proofs. *)

\* Until somebody stalls, a supervised run's process holds the lock, and has
\* only that run.
LockHeld ==
    /\ budget["stall"] <= Budget["stall"]
    /\ \A r \in Runs : Supervised(r) => host[r] \in Processes
    /\ budget["stall"] = Budget["stall"] =>
          /\ \A r \in Runs : Supervised(r) => lock = host[r]
          /\ \A r, s \in Runs : Supervised(r) /\ Supervised(s) /\ host[s] = host[r] => r = s

\* What was handed out is accounted for, not only what was confirmed.
Accounted(n) == 1..n \subseteq taken \union InMemory \union dropped
HandedOut == \A r \in Runs : Accounted(offset[r])
=============================================================================
