--------------------------- MODULE ListenerProofs ---------------------------
(***************************************************************************)
(* What Listener guarantees for any number of processes, runs and updates:   *)
(* one reader until somebody stalls, and no update that Telegram was told    *)
(* is handled and nobody has.                                               *)
(***************************************************************************)
EXTENDS Listener, FiniteSetTheorems, SequenceTheorems, TLAPS

USE NobodyAssumption, UpdatesAssumption, BudgetAssumption
    DEF NobodyAssumption, UpdatesAssumption, BudgetAssumption

\* The updates in a queue of messages.
In(q) == UNION Range(q)
Queues == Seq(SUBSET Updates)

-----------------------------------------------------------------------------
(* Queues *)

LEMMA InConcat ==
  ASSUME NEW q \in Queues, NEW t \in Queues
  PROVE  q \o t \in Queues /\ In(q \o t) = In(q) \union In(t)
<1>1. q \o t \in Queues
  BY ConcatProperties DEF Queues
<1>2. Range(q \o t) = Range(q) \union Range(t)
  BY RangeConcatenation DEF Queues
<1>3. QED
  BY <1>1, <1>2 DEF In

LEMMA InAppend ==
  ASSUME NEW q \in Queues, NEW message \in SUBSET Updates
  PROVE  Append(q, message) \in Queues /\ In(Append(q, message)) = In(q) \union message
<1>1. <<message>> \in Queues
  BY DEF Queues
<1>2. Append(q, message) = q \o <<message>>
  BY AppendIsConcat DEF Queues
<1>3. Range(<<message>>) = {message}
  BY DEF Range
<1>4. QED
  BY <1>1, <1>2, <1>3, InConcat DEF In

LEMMA InTail ==
  ASSUME NEW q \in Queues, q # <<>>
  PROVE  /\ Head(q) \in SUBSET Updates /\ Tail(q) \in Queues
         /\ In(q) = Head(q) \union In(Tail(q))
<1>1. Head(q) \in SUBSET Updates /\ Tail(q) \in Queues
  BY HeadTailProperties DEF Queues
<1>2. q = <<Head(q)>> \o Tail(q)
  BY DEF Queues
<1>3. <<Head(q)>> \in Queues /\ Range(<<Head(q)>>) = {Head(q)}
  BY <1>1 DEF Queues, Range
<1>4. In(<<Head(q)>> \o Tail(q)) = In(<<Head(q)>>) \union In(Tail(q))
  BY <1>1, <1>3, InConcat
<1>5. QED
  BY <1>1, <1>2, <1>3, <1>4 DEF In

\* The single messages of a batch are its updates that are no album parts: an
\* update's rank among them is a bijection onto the queue's places.
LEMMA SinglesHold ==
  ASSUME NEW S \in SUBSET Updates
  PROVE  Singles(S) \in Queues /\ In(Singles(S)) = S \ Album
<1> DEFINE X == S \ Album
           n == Cardinality(X)
           Upto(u) == {v \in X : v <= u}
           rank == [u \in X |-> Cardinality(Upto(u))]
<1>1. IsFiniteSet(X) /\ n \in Nat /\ X \subseteq Nat
  <2>1. IsFiniteSet(Updates) /\ Updates \subseteq Nat
    BY FS_Interval DEF Updates
  <2>2. X \in SUBSET Updates
    OBVIOUS
  <2>3. IsFiniteSet(X)
    BY <2>1, <2>2, FS_Subset
  <2>4. QED
    BY <2>1, <2>2, <2>3, FS_CardinalityType
<1>2. ASSUME NEW u \in X
      PROVE  IsFiniteSet(Upto(u)) /\ Cardinality(Upto(u)) \in 1..n
  <2>1. Upto(u) \in SUBSET X /\ u \in Upto(u)
    BY <1>1
  <2>2. IsFiniteSet(Upto(u)) /\ Cardinality(Upto(u)) <= n
    BY <1>1, <2>1, FS_Subset
  <2>3. Cardinality(Upto(u)) \in Nat /\ Cardinality(Upto(u)) # 0
    BY <2>1, <2>2, FS_CardinalityType, FS_EmptySet
  <2>4. QED
    BY <1>1, <2>2, <2>3
<1>3. ASSUME NEW u \in X, NEW w \in X, u < w
      PROVE  Cardinality(Upto(u)) # Cardinality(Upto(w))
  <2>1. Upto(u) \in SUBSET Upto(w) /\ w \in Upto(w) /\ w \notin Upto(u)
    BY <1>1, <1>3
  <2>2. QED
    BY <1>2, <2>1, FS_Subset
<1>4. rank \in Injection(X, 1..n)
  <2>1. rank \in [X -> 1..n]
    BY <1>2
  <2>2. ASSUME NEW u \in X, NEW w \in X, rank[u] = rank[w] PROVE u = w
    BY <1>1, <1>3, <2>2
  <2>3. QED
    BY <2>1, <2>2 DEF Injection, IsInjective
<1>5. IsFiniteSet(1..n) /\ Cardinality(1..n) = n
  BY <1>1, FS_Interval
<1>6. rank \in Surjection(X, 1..n)
  BY <1>4, <1>5, FS_Injection
<1>7. \A i \in 1..n : \E u \in X : Cardinality(Upto(u)) = i
  BY <1>6 DEF Surjection
<1> DEFINE pick(i) == CHOOSE u \in X : Cardinality(Upto(u)) = i
<1>8. \A i \in 1..n : pick(i) \in X /\ Cardinality(Upto(pick(i))) = i
  BY <1>7
<1>9. ASSUME NEW u \in X PROVE pick(rank[u]) = u /\ rank[u] \in 1..n
  <2>1. rank[u] \in 1..n /\ rank[u] = Cardinality(Upto(u))
    BY <1>2
  <2>2. pick(rank[u]) \in X /\ Cardinality(Upto(pick(rank[u]))) = rank[u]
    BY <1>8, <2>1
  <2>3. rank[pick(rank[u])] = rank[u]
    BY <2>2
  <2>4. \A v, w \in X : rank[v] = rank[w] => v = w
    BY <1>4 DEF Injection, IsInjective
  <2>5. QED
    BY <2>1, <2>2, <2>3, <2>4
<1>10. Singles(S) = [i \in 1..n |-> {pick(i)}]
  BY DEF Singles
<1>11. Singles(S) \in Queues
  <2>1. \A i \in 1..n : {pick(i)} \in SUBSET Updates
    BY <1>8
  <2> HIDE DEF pick, n
  <2>2. [i \in 1..n |-> {pick(i)}] \in [1..n -> SUBSET Updates]
    BY <2>1
  <2>3. QED
    BY <1>1, <1>10, <2>2 DEF Queues
<1>12. Range(Singles(S)) = {{pick(i)} : i \in 1..n}
  BY <1>10 DEF Range
<1>13. In(Singles(S)) = X
  <2>1. \A u \in X : \E i \in 1..n : u = pick(i)
    BY <1>9
  <2> HIDE DEF pick, X, n
  <2>2. UNION {{pick(i)} : i \in 1..n} = X
    BY <1>8, <2>1, ZenonT(60)
  <2>3. QED
    BY <1>12, <2>2 DEF In
<1>14. QED
  BY <1>11, <1>13

-----------------------------------------------------------------------------
(* Types *)

LEMMA TypeInit == Init => TypeOK
<1> SUFFICES ASSUME Init PROVE TypeOK
  OBVIOUS
<1>1. active \in BOOLEAN
  BY Zenon DEF Init
<1>2. asked \in [Runs -> BOOLEAN] /\ mine \in [Runs -> BOOLEAN]
  BY Zenon DEF Init
<1>3. queue \in [Runs -> Seq(SUBSET Updates)]
  BY DEF Init
<1>4. QED
  BY <1>1, <1>2, <1>3 DEF Init, TypeOK, Phases

LEMMA SpendType ==
  ASSUME TypeOK, NEW kind \in Kinds, Spend(kind)
  PROVE  budget' \in [Kinds -> Nat]
  BY DEF TypeOK, Spend

\* Closing a run leaves it without an outstanding request.
LEMMA CloseType ==
  ASSUME TypeOK, NEW r \in Runs, Close(r),
         active' = active, stopping' = stopping, budget' \in [Kinds -> Nat]
  PROVE  TypeOK'
<1>1. phase' \in [Runs -> Phases] /\ \A s \in Runs : asked'[s] => phase'[s] = "open"
  BY DEF Close, TypeOK, Phases
<1>2. asked' \in [Runs -> BOOLEAN]
  BY Zenon DEF Close, TypeOK
<1>3. mine' \in [Runs -> BOOLEAN]
  <2>1. (lock = host[r]) \in BOOLEAN
    OBVIOUS
  <2>2. QED
    BY <2>1, Zenon DEF Close, TypeOK
<1>4. QED
  BY <1>1, <1>2, <1>3 DEF Close, TypeOK, memory, results, telegram

LEMMA PollType ==
  ASSUME TypeOK, NEW r \in Runs,
         \/ \E p \in Processes : Start(p, r)
         \/ Request(r) \/ Receive(r) \/ BreakOff(r)
  PROVE  TypeOK'
<1>1. ASSUME NEW p \in Processes, Start(p, r) PROVE TypeOK'
  <2>1. asked' \in [Runs -> BOOLEAN]
    BY <1>1, Zenon DEF Start, TypeOK
  <2>2. QED
    BY <1>1, <2>1 DEF Start, TypeOK, Phases, telegram, memory, results, world
<1>2. ASSUME Request(r) PROVE TypeOK'
  <2>1. asked' \in [Runs -> BOOLEAN]
    BY <1>2, Zenon DEF Request, TypeOK
  <2>2. confirmed' \in 0..arrived
    BY <1>2 DEF Request, TypeOK
  <2>3. \A s \in Runs : asked'[s] => phase[s] = "open"
    BY <1>2 DEF Request, TypeOK
  <2>4. QED
    BY <1>2, <2>1, <2>2, <2>3 DEF Request, TypeOK, locking, memory, results, world
<1>3. ASSUME Receive(r) PROVE TypeOK'
  <2>1. asked' \in [Runs -> BOOLEAN]
    BY <1>3, Zenon DEF Receive, Answered, TypeOK
  <2>2. Batch \in SUBSET Updates
    BY DEF Batch, Updates, TypeOK
  <2>3. queue[r] \o Singles(Batch) \in Queues
    BY <2>2, SinglesHold, InConcat DEF TypeOK, Queues
  <2>4. queue' \in [Runs -> Queues]
    BY <1>3, <2>3 DEF Receive, TypeOK, Queues
  <2>5. buffer' \in [Runs -> SUBSET Album]
    BY <1>3 DEF Receive, TypeOK
  <2>6. offset' \in [Runs -> 0..arrived]
    BY <1>3 DEF Receive, NextOffset, TypeOK
  <2>7. \A s \in Runs : asked'[s] => phase[s] = "open"
    BY <1>3 DEF Receive, Answered, TypeOK
  <2>8. QED
    BY <1>3, <2>1, <2>4, <2>5, <2>6, <2>7 DEF Receive, TypeOK, Queues, telegram, locking, results, world
<1>4. ASSUME BreakOff(r) PROVE TypeOK'
  <2>1. asked' \in [Runs -> BOOLEAN]
    BY <1>4, Zenon DEF BreakOff, Answered, TypeOK
  <2>2. Append(queue[r], buffer[r]) \in Queues
    BY InAppend DEF TypeOK, Queues
  <2>3. queue' \in [Runs -> Queues]
    BY <1>4, <2>2 DEF BreakOff, TypeOK, Queues
  <2>4. buffer' \in [Runs -> SUBSET Album] /\ phase' \in [Runs -> Phases]
    BY <1>4 DEF BreakOff, TypeOK, Phases
  <2>5. \A s \in Runs : asked'[s] => phase'[s] = "open"
    BY <1>4 DEF BreakOff, Answered, TypeOK
  <2>6. QED
    BY <1>4, <2>1, <2>3, <2>4, <2>5 DEF BreakOff, TypeOK, Queues, telegram, results, world
<1>5. QED
  BY <1>1, <1>2, <1>3, <1>4

LEMMA CloseStepType ==
  ASSUME TypeOK, NEW r \in Runs, Joined(r) \/ Fail(r) \/ Cancel(r) \/ Release(r)
  PROVE  TypeOK'
<1>1. ASSUME Joined(r) \/ Cancel(r) PROVE TypeOK'
  <2>1. active' = active /\ stopping' = stopping /\ budget' \in [Kinds -> Nat] /\ Close(r)
    BY <1>1 DEF Joined, Cancel, world, TypeOK
  <2>2. QED
    BY <2>1, CloseType
<1>2. ASSUME Fail(r) PROVE TypeOK'
  <2>1. budget' \in [Kinds -> Nat]
    BY <1>2, SpendType DEF Fail, Kinds, TypeOK
  <2>2. QED
    BY <1>2, <2>1, CloseType DEF Fail
<1>3. ASSUME Release(r) PROVE TypeOK'
  <2>1. mine' \in [Runs -> BOOLEAN]
    BY <1>3, Zenon DEF Release, TypeOK
  <2>2. phase' \in [Runs -> Phases] /\ \A s \in Runs : asked[s] => phase'[s] = "open"
    BY <1>3 DEF Release, TypeOK, Phases
  <2>3. QED
    BY <1>3, <2>1, <2>2 DEF Release, TypeOK, telegram, poll, memory, results, world
<1>4. QED
  BY <1>1, <1>2, <1>3

LEMMA ConsumeType ==
  ASSUME TypeOK, NEW r \in Runs, Flush(r) \/ ConsumerStep(r)
  PROVE  TypeOK'
<1>1. ASSUME Flush(r) PROVE TypeOK'
  <2>1. Append(queue[r], buffer[r]) \in Queues
    BY InAppend DEF TypeOK, Queues
  <2>2. queue' \in [Runs -> Queues] /\ buffer' \in [Runs -> SUBSET Album]
    BY <1>1, <2>1 DEF Flush, TypeOK, Queues
  <2>3. QED
    BY <1>1, <2>2 DEF Flush, TypeOK, Queues, telegram, locking, poll, results, world
<1>2. ASSUME Take(r) PROVE TypeOK'
  <2>1. Head(queue[r]) \in SUBSET Updates /\ Tail(queue[r]) \in Queues
    BY <1>2, InTail DEF Take, TypeOK, Queues
  <2>2. queue' \in [Runs -> Queues] /\ doing' \in [Runs -> SUBSET Updates]
    BY <1>2, <2>1 DEF Take, TypeOK, Queues
  <2>3. QED
    BY <1>2, <2>2 DEF Take, TypeOK, Queues, telegram, locking, poll, results, world
<1>3. ASSUME Dispatch(r) PROVE TypeOK'
  BY <1>3 DEF Dispatch, TypeOK, telegram, locking, poll, world
<1>4. ASSUME DispatchFails(r) PROVE TypeOK'
  <2>1. budget' \in [Kinds -> Nat]
    BY <1>4, SpendType DEF DispatchFails, Kinds
  <2>2. QED
    BY <1>4, <2>1 DEF DispatchFails, TypeOK, telegram, locking, poll
<1>5. ASSUME NoAnswer(r) PROVE TypeOK'
  <2>1. budget' \in [Kinds -> Nat]
    BY <1>5, SpendType DEF NoAnswer, Kinds
  <2>2. QED
    BY <1>5, <2>1 DEF NoAnswer, TypeOK, telegram, locking, poll, memory, results
<1>6. QED
  BY <1>1, <1>2, <1>3, <1>4, <1>5 DEF ConsumerStep

\* A process takes all that its runs have in memory with it.
LEMMA DiesType ==
  ASSUME TypeOK, NEW p \in Processes, Dies(p)
  PROVE  /\ dropped' \subseteq Updates /\ phase' \in [Runs -> Phases]
         /\ host' \in [Runs -> Processes \union {Nobody}]
         /\ mine' \in [Runs -> BOOLEAN] /\ asked' \in [Runs -> BOOLEAN]
         /\ offset' \in [Runs -> 0..arrived]
         /\ \A r \in Runs : asked'[r] => phase'[r] = "open"
         /\ buffer' \in [Runs -> SUBSET Album]
         /\ queue' \in [Runs -> Seq(SUBSET Updates)] /\ doing' \in [Runs -> SUBSET Updates]
<1>1. ASSUME NEW r \in Runs PROVE Memory(r) \subseteq Updates
  <2>1. queue[r] \in Seq(SUBSET Updates) /\ buffer[r] \subseteq Updates /\ doing[r] \subseteq Updates
    BY DEF TypeOK
  <2>2. Range(queue[r]) \in SUBSET SUBSET Updates
    BY <2>1, RangeOfSeq
  <2>3. In(queue[r]) \subseteq Updates
    BY <2>2 DEF In
  <2>4. Memory(r) = buffer[r] \union In(queue[r]) \union doing[r]
    BY DEF Memory, In
  <2>5. QED
    BY <2>1, <2>3, <2>4
<1>2. dropped' \subseteq Updates
  BY <1>1 DEF Dies, TypeOK
<1>3. mine' \in [Runs -> BOOLEAN] /\ asked' \in [Runs -> BOOLEAN]
  BY Zenon DEF Dies, TypeOK
<1>4. <<>> \in Seq(SUBSET Updates)
  OBVIOUS
<1>5. queue' \in [Runs -> Seq(SUBSET Updates)]
  BY <1>4 DEF Dies, TypeOK
<1>6. \A r \in Runs : asked'[r] => phase'[r] = "open"
  BY DEF Dies, TypeOK
<1>7. phase' \in [Runs -> Phases] /\ host' \in [Runs -> Processes \union {Nobody}]
  BY DEF Dies, TypeOK, Phases
<1>8. offset' \in [Runs -> 0..arrived]
  <2>1. 0 \in 0..arrived
    BY DEF TypeOK
  <2>2. QED
    BY <2>1 DEF Dies, TypeOK
<1>9. buffer' \in [Runs -> SUBSET Album] /\ doing' \in [Runs -> SUBSET Updates]
  BY DEF Dies, TypeOK
<1>10. QED
  BY <1>2, <1>3, <1>5, <1>6, <1>7, <1>8, <1>9

LEMMA TypeStep == ASSUME TypeOK, [Next]_listenVars PROVE TypeOK'
<1>1. ASSUME NEW r \in Runs, RunStep(r) \/ ConsumerStep(r)
      PROVE  TypeOK'
  BY <1>1, PollType, CloseStepType, ConsumeType DEF RunStep
<1>2. ASSUME NEW p \in Processes, Stop(p) PROVE TypeOK'
  <2>1. budget' \in [Kinds -> Nat]
    BY <1>2, SpendType DEF Stop, Kinds
  <2>2. QED
    BY <1>2, <2>1 DEF Stop, TypeOK, telegram, locking, poll, memory, results
<1>3. ASSUME NEW p \in Processes, Exit(p) \/ Crash(p) PROVE TypeOK'
  <2>1. budget' \in [Kinds -> Nat] /\ lock' \in Processes \union {Nobody}
        /\ stopping' \subseteq Processes /\ Dies(p)
    BY <1>3, SpendType DEF Exit, Crash, Kinds, TypeOK
  <2>2. UNCHANGED <<arrived, confirmed, jobs, taken, active>>
    BY <2>1 DEF Dies, telegram
  <2>3. QED
    BY <2>1, <2>2, DiesType DEF TypeOK
<1>4. ASSUME Expire PROVE TypeOK'
  <2>1. budget' \in [Kinds -> Nat]
    BY <1>4, SpendType DEF Expire, Kinds, TypeOK
  <2>2. QED
    BY <1>4, <2>1 DEF Expire, TypeOK, telegram, poll, memory, results
<1>5. ASSUME Toggle PROVE TypeOK'
  <2>1. budget' \in [Kinds -> Nat]
    BY <1>5, SpendType DEF Toggle, Kinds
  <2>2. QED
    BY <1>5, <2>1 DEF Toggle, TypeOK, telegram, locking, poll, memory, results
<1>6. ASSUME Arrive PROVE TypeOK'
  <2>1. arrived' \in 0..Newest /\ confirmed' \in 0..arrived'
        /\ offset' \in [Runs -> 0..arrived']
    BY <1>6 DEF Arrive, TypeOK, poll
  <2>2. QED
    BY <1>6, <2>1 DEF Arrive, TypeOK, locking, poll, memory, results, world
<1>7. CASE UNCHANGED listenVars
  BY <1>7 DEF TypeOK, listenVars, telegram, locking, poll, memory, results, world
<1>8. QED
  BY <1>1, <1>2, <1>3, <1>4, <1>5, <1>6, <1>7 DEF Next

\* Every variable of the listener keeps its type.
THEOREM ListenerTypeCorrect == Spec => []TypeOK
  BY TypeInit, TypeStep, PTL DEF Spec

-----------------------------------------------------------------------------
(* One reader *)

LEMMA LockInit == Init => LockHeld
  BY DEF Init, LockHeld, Supervised, Reading, Kinds

\* Only stalls use up the budget that LockHeld looks at, and they only lower it.
LEMMA Stalls ==
  ASSUME TypeOK, LockHeld, [Next]_listenVars
  PROVE  /\ budget'["stall"] <= Budget["stall"]
         /\ budget'["stall"] = Budget["stall"] => budget["stall"] = Budget["stall"]
<1>1. budget["stall"] \in Nat /\ Budget["stall"] \in Nat /\ budget["stall"] <= Budget["stall"]
  BY DEF TypeOK, LockHeld, Kinds
<1>2. \A kind \in Kinds : Spend(kind) => budget'["stall"] \in {budget["stall"], budget["stall"] - 1}
  BY DEF Spend, TypeOK, Kinds
<1>3. UNCHANGED budget \/ \E kind \in Kinds : Spend(kind)
  <2>1. ASSUME NEW r \in Runs, RunStep(r) \/ ConsumerStep(r)
        PROVE  UNCHANGED budget \/ \E kind \in Kinds : Spend(kind)
    BY <2>1 DEF RunStep, Start, Request, Receive, BreakOff, Joined, Fail, Cancel, Release, Flush,
                ConsumerStep, Take, Dispatch, DispatchFails, NoAnswer, world, Kinds
  <2>2. ASSUME NEW p \in Processes, Stop(p) \/ Exit(p) \/ Crash(p)
        PROVE  UNCHANGED budget \/ \E kind \in Kinds : Spend(kind)
    BY <2>2 DEF Stop, Exit, Crash, Kinds
  <2>3. ASSUME Expire \/ Toggle \/ Arrive \/ UNCHANGED listenVars
        PROVE  UNCHANGED budget \/ \E kind \in Kinds : Spend(kind)
    BY <2>3 DEF Expire, Toggle, Arrive, listenVars, world, Kinds
  <2>4. QED
    BY <2>1, <2>2, <2>3 DEF Next
<1>4. QED
  BY <1>1, <1>2, <1>3

\* What LockHeld says while nobody has stalled.
Alone ==
    /\ \A r \in Runs : Supervised(r) => lock = host[r]
    /\ \A r, s \in Runs : Supervised(r) /\ Supervised(s) /\ host[s] = host[r] => r = s

\* A run is started by whoever took the lock, which nobody held.
LEMMA StartAlone ==
  ASSUME TypeOK, LockHeld, Alone, NEW r \in Runs, NEW p \in Processes, Start(p, r)
  PROVE  Alone'
<1>1. \A s \in Runs : ~Supervised(s)
  BY DEF Start, LockHeld, Alone
<1>2. \A s \in Runs \ {r} : ~Supervised(s)'
  BY <1>1 DEF Start, TypeOK, Supervised, Reading
<1>3. lock' = p /\ host'[r] = p
  BY DEF Start, TypeOK
<1>4. QED
  BY <1>2, <1>3 DEF Alone

\* The steps of a run that has started open none and move no lock but its own.
LEMMA RunAlone ==
  ASSUME TypeOK, LockHeld, Alone, NEW r \in Runs,
         \/ Request(r) \/ Receive(r) \/ BreakOff(r) \/ Joined(r) \/ Fail(r) \/ Cancel(r)
         \/ Release(r) \/ Flush(r) \/ ConsumerStep(r)
  PROVE  Alone' /\ \A s \in Runs : Supervised(s)' => Supervised(s) /\ host'[s] = host[s]
<1>1. CASE Release(r)
  <2>1. \A s \in Runs : Supervised(s)' <=> Supervised(s) /\ s # r
    BY <1>1 DEF Release, TypeOK, Supervised, Reading
  <2>2. host' = host /\ Supervised(r)
    BY <1>1 DEF Release, Supervised
  <2>3. \A s \in Runs : Supervised(s)' => host[s] # host[r]
    BY <2>1, <2>2 DEF Alone
  <2>4. lock' = lock \/ \A s \in Runs : ~Supervised(s)'
    BY <2>1, <2>2, <2>3 DEF Alone
  <2>5. QED
    BY <2>1, <2>2, <2>4 DEF Alone
<1>2. CASE Joined(r) \/ Fail(r) \/ Cancel(r)
  <2>1. UNCHANGED <<lock, host>> /\ \A s \in Runs : Supervised(s)' <=> Supervised(s)
    BY <1>2 DEF Joined, Fail, Cancel, Close, TypeOK, Supervised, Reading
  <2>2. QED
    BY <2>1 DEF Alone
<1>3. CASE BreakOff(r)
  <2>1. UNCHANGED <<lock, host>> /\ \A s \in Runs : Supervised(s)' <=> Supervised(s)
    BY <1>3 DEF BreakOff, Answered, TypeOK, Supervised, Reading
  <2>2. QED
    BY <2>1 DEF Alone
<1>4. CASE Request(r) \/ Receive(r) \/ Flush(r) \/ ConsumerStep(r)
  <2>1. UNCHANGED <<lock, host, phase>>
    BY <1>4 DEF Request, Receive, Flush, ConsumerStep, Take, Dispatch, DispatchFails, NoAnswer,
                locking
  <2>2. QED
    BY <2>1 DEF Alone, Supervised, Reading
<1>5. QED
  BY <1>1, <1>2, <1>3, <1>4

\* A process that ends frees no lock but its own.
LEMMA EndAlone ==
  ASSUME TypeOK, LockHeld, Alone, NEW p \in Processes, Exit(p) \/ Crash(p)
  PROVE  Alone'
<1>1. \A s \in Runs : Supervised(s)' => Supervised(s) /\ host'[s] = host[s] /\ host[s] # p
  BY ZenonT(60) DEF Exit, Crash, Dies, TypeOK, Supervised, Reading
<1>2. lock' = lock \/ lock = p
  BY DEF Exit, Crash
<1>3. QED
  BY <1>1, <1>2 DEF Alone

LEMMA ExpireAlone ==
  ASSUME TypeOK, LockHeld, Alone, Expire, budget' = budget
  PROVE  Alone'
<1>1. Lapsed
  BY DEF Expire, Spend, TypeOK, Kinds
<1>2. \A s \in Runs : ~Supervised(s)
  BY <1>1 DEF Lapsed, Held, Alone
<1>3. UNCHANGED <<phase, host>>
  BY DEF Expire
<1>4. QED
  BY <1>2, <1>3 DEF Alone, Supervised, Reading

LEMMA LockStep == ASSUME TypeOK, LockHeld, [Next]_listenVars PROVE LockHeld'
<1>1. ASSUME NEW s \in Runs, Supervised(s)' PROVE host'[s] \in Processes
  <2>1. ASSUME NEW r \in Runs, NEW p \in Processes, Start(p, r) PROVE host'[s] \in Processes
    BY <1>1, <2>1 DEF Start, TypeOK, LockHeld, Supervised, Reading
  <2>2. ASSUME NEW r \in Runs,
               \/ Request(r) \/ Receive(r) \/ BreakOff(r) \/ Joined(r) \/ Fail(r) \/ Cancel(r)
               \/ Release(r) \/ Flush(r) \/ ConsumerStep(r)
        PROVE  host'[s] \in Processes
    <3>1. host' = host
      BY <2>2 DEF Request, Receive, BreakOff, Joined, Fail, Cancel, Close, Release, Flush,
                  ConsumerStep, Take, Dispatch, DispatchFails, NoAnswer, locking
    <3>2. Supervised(s)
      <4>1. CASE Request(r) \/ Receive(r) \/ Flush(r) \/ ConsumerStep(r)
        BY <1>1, <4>1 DEF Request, Receive, Flush, ConsumerStep, Take, Dispatch, DispatchFails,
                          NoAnswer, locking, Supervised, Reading
      <4>2. CASE BreakOff(r)
        BY <1>1, <4>2 DEF BreakOff, Answered, TypeOK, Supervised, Reading
      <4>3. CASE Joined(r) \/ Fail(r) \/ Cancel(r) \/ Release(r)
        BY <1>1, <4>3 DEF Joined, Fail, Cancel, Close, Release, TypeOK, Supervised, Reading
      <4>4. QED
        BY <2>2, <4>1, <4>2, <4>3
    <3>3. QED
      BY <3>1, <3>2 DEF LockHeld
  <2>3. ASSUME NEW p \in Processes, Exit(p) \/ Crash(p) PROVE host'[s] \in Processes
    <3>1. Supervised(s) /\ host'[s] = host[s]
      BY <1>1, <2>3, ZenonT(60) DEF Exit, Crash, Dies, Supervised, Reading
    <3>2. QED
      BY <3>1 DEF LockHeld
  <2>4. ASSUME \/ \E p \in Processes : Stop(p)
               \/ Expire \/ Toggle \/ Arrive \/ UNCHANGED listenVars
        PROVE  host'[s] \in Processes
    BY <1>1, <2>4 DEF Stop, Expire, Toggle, Arrive, listenVars, locking, LockHeld, Supervised, Reading
  <2>5. QED
    BY <2>1, <2>2, <2>3, <2>4 DEF Next, RunStep
<1>2. ASSUME budget'["stall"] = Budget["stall"] PROVE Alone'
  <2>1. Alone
    BY <1>2, Stalls DEF LockHeld, Alone
  <2>2. ASSUME NEW r \in Runs, RunStep(r) \/ ConsumerStep(r)
        PROVE  Alone'
    BY <2>1, <2>2, StartAlone, RunAlone DEF RunStep
  <2>3. ASSUME NEW p \in Processes, Exit(p) \/ Crash(p) PROVE Alone'
    BY <2>1, <2>3, EndAlone
  <2>4. ASSUME Expire PROVE Alone'
    <3>1. budget["stall"] = Budget["stall"] /\ budget["stall"] \in Nat
      BY <1>2, Stalls DEF TypeOK, Kinds
    <3>2. budget' = budget
      BY <1>2, <2>4, <3>1 DEF Expire, Spend, TypeOK, Kinds
    <3>3. QED
      BY <2>1, <2>4, <3>2, ExpireAlone
  <2>5. ASSUME (\E p \in Processes : Stop(p)) \/ Toggle \/ Arrive \/ UNCHANGED listenVars
        PROVE  Alone'
    BY <2>1, <2>5 DEF Stop, Toggle, Arrive, listenVars, locking, Alone, Supervised, Reading
  <2>6. QED
    BY <2>2, <2>3, <2>4, <2>5 DEF Next
<1>3. QED
  BY <1>1, <1>2, Stalls DEF LockHeld, Alone

LEMMA LockAlways == Spec => [](TypeOK /\ LockHeld)
  BY TypeInit, TypeStep, LockInit, LockStep, PTL DEF Spec

\* However many processes compete, crash and restart, at most one run reads the
\* connection's updates until a process stalls for longer than its lock lives.
THEOREM OneReaderAtATime == Spec => []OneReader
<1>1. TypeOK /\ LockHeld => OneReader
  BY DEF LockHeld, OneReader, Supervised
<1>2. QED
  BY <1>1, LockAlways, PTL

-----------------------------------------------------------------------------
(* Nothing forgotten *)

Kept == taken \union InMemory \union dropped

LEMMA MemoryIs == \A r \in Runs : Memory(r) = buffer[r] \union In(queue[r]) \union doing[r]
  BY DEF Memory, In

\* It is enough to look at the runs one by one.
LEMMA KeptByRuns ==
  ASSUME taken \subseteq taken', dropped \subseteq dropped',
         \A r \in Runs : Memory(r) \subseteq Memory(r)' \union taken' \union dropped'
  PROVE  Kept \subseteq Kept'
  BY DEF Kept, InMemory

LEMMA KeptByRun ==
  ASSUME TypeOK, NEW r \in Runs,
         \/ \E p \in Processes : Start(p, r)
         \/ Request(r) \/ Joined(r) \/ Fail(r) \/ Cancel(r) \/ Release(r)
  PROVE  Kept \subseteq Kept'
<1>1. UNCHANGED <<memory, results>>
  BY DEF Start, Request, Joined, Fail, Cancel, Close, Release
<1>2. QED
  BY <1>1 DEF Kept, InMemory, Memory, memory, results

\* A batch is in memory when its handler returns.
LEMMA ReceiveKeeps ==
  ASSUME TypeOK, NEW r \in Runs, Receive(r)
  PROVE  Kept \subseteq Kept' /\ Batch \subseteq Kept'
<1>1. queue[r] \in Queues /\ Batch \in SUBSET Updates
  BY DEF TypeOK, Queues, Batch, Updates
<1>2. In(queue[r] \o Singles(Batch)) = In(queue[r]) \union (Batch \ Album)
  BY <1>1, SinglesHold, InConcat
<1>3. /\ buffer'[r] = buffer[r] \union (Batch \intersect Album)
      /\ queue'[r] = queue[r] \o Singles(Batch)
      /\ UNCHANGED <<doing, taken, dropped>>
      /\ \A s \in Runs \ {r} : buffer'[s] = buffer[s] /\ queue'[s] = queue[s]
  BY DEF Receive, TypeOK, results
<1>4. Memory(r)' = buffer'[r] \union In(queue'[r]) \union doing'[r]
  BY DEF Memory, In
<1>5. Memory(r)' = Memory(r) \union Batch
  BY <1>2, <1>3, <1>4, MemoryIs
<1>6. \A s \in Runs \ {r} : Memory(s)' = Memory(s)
  BY <1>3 DEF Memory
<1>7. QED
  BY <1>3, <1>5, <1>6 DEF Kept, InMemory

LEMMA FlushKeeps ==
  ASSUME TypeOK, NEW r \in Runs, Flush(r) \/ BreakOff(r)
  PROVE  Kept \subseteq Kept'
<1>1. queue[r] \in Queues /\ buffer[r] \in SUBSET Updates
  BY DEF TypeOK, Queues
<1>2. In(Append(queue[r], buffer[r])) = In(queue[r]) \union buffer[r]
  BY <1>1, InAppend
<1>3. /\ queue'[r] = Append(queue[r], buffer[r]) \/ (queue'[r] = queue[r] /\ buffer[r] = {})
      /\ UNCHANGED <<doing, taken, dropped>>
      /\ \A s \in Runs \ {r} : buffer'[s] = buffer[s] /\ queue'[s] = queue[s]
  BY DEF Flush, BreakOff, TypeOK, results
<1>4. Memory(r)' = buffer'[r] \union In(queue'[r]) \union doing'[r]
  BY DEF Memory, In
<1>5. Memory(r) \subseteq Memory(r)'
  BY <1>2, <1>3, <1>4, MemoryIs
<1>6. \A s \in Runs \ {r} : Memory(s)' = Memory(s)
  BY <1>3 DEF Memory
<1>7. QED
  BY <1>3, <1>5, <1>6, KeptByRuns

LEMMA ConsumerKeeps ==
  ASSUME TypeOK, NEW r \in Runs, ConsumerStep(r)
  PROVE  Kept \subseteq Kept'
<1>1. Memory(r)' = buffer'[r] \union In(queue'[r]) \union doing'[r]
  BY DEF Memory, In
<1>2. CASE Take(r)
  <2>1. /\ doing[r] = {} /\ doing'[r] = Head(queue[r]) /\ queue'[r] = Tail(queue[r])
        /\ buffer' = buffer /\ UNCHANGED <<taken, dropped>>
        /\ \A s \in Runs \ {r} : queue'[s] = queue[s] /\ doing'[s] = doing[s]
    BY <1>2 DEF Take, TypeOK, results
  <2>2. In(queue[r]) = Head(queue[r]) \union In(Tail(queue[r]))
    BY <1>2, InTail DEF Take, TypeOK, Queues
  <2>3. Memory(r) \subseteq Memory(r)'
    BY <1>1, <2>1, <2>2, MemoryIs
  <2>4. \A s \in Runs \ {r} : Memory(s)' = Memory(s)
    BY <2>1 DEF Memory
  <2>5. QED
    BY <2>1, <2>3, <2>4, KeptByRuns
<1>3. CASE Dispatch(r) \/ DispatchFails(r)
  <2>1. /\ UNCHANGED <<buffer, queue>> /\ taken \subseteq taken' /\ dropped \subseteq dropped'
        /\ doing[r] \subseteq taken' \union dropped'
        /\ \A s \in Runs \ {r} : doing'[s] = doing[s]
    BY <1>3 DEF Dispatch, DispatchFails, TypeOK
  <2>2. Memory(r) \subseteq Memory(r)' \union taken' \union dropped'
    BY <1>1, <2>1, MemoryIs
  <2>3. \A s \in Runs \ {r} : Memory(s)' = Memory(s)
    BY <2>1 DEF Memory
  <2>4. QED
    BY <2>1, <2>2, <2>3, KeptByRuns
<1>4. CASE NoAnswer(r)
  BY <1>4 DEF NoAnswer, Kept, InMemory, Memory, memory, results
<1>5. QED
  BY <1>2, <1>3, <1>4 DEF ConsumerStep

LEMMA EndKeeps ==
  ASSUME TypeOK, NEW p \in Processes, Dies(p)
  PROVE  Kept \subseteq Kept'
<1>1. taken' = taken /\ dropped \subseteq dropped'
  BY DEF Dies
<1>2. \A r \in Runs : host[r] = p => Memory(r) \subseteq dropped'
  BY DEF Dies
<1>3. \A r \in Runs : host[r] # p =>
          buffer'[r] = buffer[r] /\ queue'[r] = queue[r] /\ doing'[r] = doing[r]
  BY DEF Dies
<1>4. \A r \in Runs : host[r] # p => Memory(r)' = Memory(r)
  BY <1>3 DEF Memory
<1>5. QED
  BY <1>1, <1>2, <1>4, KeptByRuns

LEMMA KeptStep == ASSUME TypeOK, [Next]_listenVars PROVE Kept \subseteq Kept'
<1>1. ASSUME NEW r \in Runs, RunStep(r) \/ ConsumerStep(r)
      PROVE  Kept \subseteq Kept'
  BY <1>1, KeptByRun, ReceiveKeeps, FlushKeeps, ConsumerKeeps DEF RunStep
<1>2. ASSUME NEW p \in Processes, Exit(p) \/ Crash(p) PROVE Kept \subseteq Kept'
  BY <1>2, EndKeeps DEF Exit, Crash
<1>3. ASSUME \/ \E p \in Processes : Stop(p)
             \/ Expire \/ Toggle \/ Arrive \/ UNCHANGED listenVars
      PROVE  Kept \subseteq Kept'
  <2>1. UNCHANGED <<memory, results>>
    BY <1>3 DEF Stop, Expire, Toggle, Arrive, listenVars
  <2>2. QED
    BY <2>1 DEF Kept, InMemory, Memory, memory, results
<1>4. QED
  BY <1>1, <1>2, <1>3 DEF Next

\* Offsets move past a batch once it is in memory; a request confirms no more
\* than its run's offset.
LEMMA HandedStep ==
  ASSUME TypeOK, NothingForgotten, HandedOut, [Next]_listenVars
  PROVE  NothingForgotten' /\ HandedOut'
<1>1. Kept \subseteq Kept'
  BY KeptStep
<1>2. 1..confirmed \subseteq Kept /\ \A s \in Runs : 1..offset[s] \subseteq Kept
  BY DEF NothingForgotten, HandedOut, Accounted, Kept
<1>3. SUFFICES 1..confirmed' \subseteq Kept' /\ \A s \in Runs : 1..offset'[s] \subseteq Kept'
  BY DEF NothingForgotten, HandedOut, Accounted, Kept
<1>4. ASSUME NEW r \in Runs, Request(r)
      PROVE  1..confirmed' \subseteq Kept' /\ \A s \in Runs : 1..offset'[s] \subseteq Kept'
  <2>1. confirmed' \in {confirmed, offset[r]} /\ offset' = offset
    BY <1>4 DEF Request
  <2>2. QED
    BY <1>1, <1>2, <2>1
<1>5. ASSUME NEW r \in Runs, Receive(r)
      PROVE  1..confirmed' \subseteq Kept' /\ \A s \in Runs : 1..offset'[s] \subseteq Kept'
  <2>1. confirmed' = confirmed /\ offset'[r] = arrived
        /\ \A s \in Runs \ {r} : offset'[s] = offset[s]
    BY <1>5 DEF Receive, NextOffset, TypeOK, telegram
  <2>2. 1..arrived \subseteq 1..confirmed \union Batch
    BY DEF TypeOK, Batch
  <2>3. Batch \subseteq Kept'
    BY <1>5, ReceiveKeeps
  <2>4. QED
    BY <1>1, <1>2, <2>1, <2>2, <2>3
<1>6. ASSUME confirmed' = confirmed, \A s \in Runs : offset'[s] \in {0, offset[s]}
      PROVE  1..confirmed' \subseteq Kept' /\ \A s \in Runs : 1..offset'[s] \subseteq Kept'
  <2>1. 1..0 = {}
    OBVIOUS
  <2>2. QED
    BY <1>1, <1>2, <1>6, <2>1
<1>7. ASSUME NEW r \in Runs,
             \/ \E p \in Processes : Start(p, r)
             \/ BreakOff(r) \/ Joined(r) \/ Fail(r) \/ Cancel(r) \/ Release(r) \/ Flush(r)
             \/ ConsumerStep(r)
      PROVE  confirmed' = confirmed /\ \A s \in Runs : offset'[s] \in {0, offset[s]}
  BY <1>7 DEF Start, BreakOff, Joined, Fail, Cancel, Close, Release, Flush, ConsumerStep, Take,
              Dispatch, DispatchFails, NoAnswer, TypeOK, telegram, poll
<1>8. ASSUME \/ \E p \in Processes : Stop(p) \/ Exit(p) \/ Crash(p)
             \/ Expire \/ Toggle \/ Arrive \/ UNCHANGED listenVars
      PROVE  confirmed' = confirmed /\ \A s \in Runs : offset'[s] \in {0, offset[s]}
  BY <1>8, ZenonT(60) DEF Stop, Exit, Crash, Dies, Expire, Toggle, Arrive, listenVars, TypeOK, telegram, poll
<1>9. QED
  BY <1>4, <1>5, <1>6, <1>7, <1>8 DEF Next, RunStep

LEMMA HandedInit == Init => NothingForgotten /\ HandedOut
<1>1. 1..0 = {}
  OBVIOUS
<1>2. QED
  BY <1>1 DEF Init, NothingForgotten, HandedOut, Accounted

\* Whatever Telegram was told is handled has been dispatched or is in a live
\* process's memory, unless a process died with it or its dispatch failed:
\* no cancellation, reconnection or lost lock forgets an update.
THEOREM NoUpdateForgotten == Spec => []NothingForgotten
  BY TypeInit, TypeStep, HandedInit, HandedStep, PTL DEF Spec
=============================================================================
