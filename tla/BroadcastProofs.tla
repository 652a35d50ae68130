--------------------------- MODULE BroadcastProofs ---------------------------
(***************************************************************************)
(* What Broadcast guarantees for any number of groups and of tasks, and any  *)
(* number of commands, crashes, stalls and outages.                          *)
(***************************************************************************)
EXTENDS Broadcast, TLAPS

USE NoOneAssumption, MaxAttemptsAssumption, RepeatsAssumption,
    AnswersAssumption, BudgetsAssumption
    DEF NoOneAssumption, MaxAttemptsAssumption, RepeatsAssumption,
        AnswersAssumption, BudgetsAssumption

LEMMA InitTypeOK == Init => TypeOK
<1>1. Blank \in Snapshot
  BY DEF Blank, Snapshot, JobStatus
<1>2. ASSUME Init PROVE TypeOK
  <2>1. /\ bstatus \in BroadcastStatus /\ reason \in Reasons /\ stopped \in BOOLEAN
        /\ status \in [Targets -> JobStatus]
        /\ tries \in [Targets -> 0..MaxAttempts]
        /\ flooded \subseteq Targets
        /\ conn \in {"active", "paused_safety", "disconnected"}
        /\ token \in BOOLEAN /\ active \in BOOLEAN
    <3>1. status \in [Targets -> JobStatus]
      BY <1>2 DEF Init, JobStatus
    <3>2. tries \in [Targets -> 0..MaxAttempts]
      BY <1>2 DEF Init
    <3>3. stopped \in BOOLEAN /\ token \in BOOLEAN /\ active \in BOOLEAN
      BY <1>2, Zenon DEF Init
    <3>4. bstatus \in BroadcastStatus /\ reason \in Reasons
      BY <1>2 DEF Init, BroadcastStatus, Reasons
    <3>5. flooded \subseteq Targets /\ conn \in {"active", "paused_safety", "disconnected"}
      BY <1>2 DEF Init
    <3>6. QED
      BY <3>1, <3>2, <3>3, <3>4, <3>5
  <2>2. /\ at \in [Workers -> Stages]
        /\ job \in [Workers -> Targets \union {NoOne}]
        /\ \A w \in Workers : job[w] = NoOne <=> at[w] = "idle"
        /\ saw \in [Workers -> Snapshot]
        /\ answer \in [Workers -> AllAnswers \union {"barred", "none"}]
        /\ last \in [Workers -> BOOLEAN]
        /\ orphan \subseteq Workers
    BY <1>1, <1>2 DEF Init, Stages
  <2>3. /\ posts \in [Targets -> 0..2]
        /\ disturbed \subseteq Targets
        /\ budget \in [Kinds -> Nat]
    BY <1>2 DEF Init
  <2>4. QED
    BY <2>1, <2>2, <2>3 DEF TypeOK
<1>3. QED
  BY <1>2

\* Spending a unit of a budget leaves every budget a natural number.
LEMMA SpendType ==
  ASSUME TypeOK, NEW kind \in Kinds, Spend(kind)
  PROVE  budget' \in [Kinds -> Nat]
  BY DEF TypeOK, Spend

\* Putting a task to rest keeps the types of the six task variables.
LEMMA RestType ==
  ASSUME TypeOK, NEW w \in Workers, Rest(w)
  PROVE  /\ at' \in [Workers -> Stages]
         /\ job' \in [Workers -> Targets \union {NoOne}]
         /\ \A v \in Workers : job'[v] = NoOne <=> at'[v] = "idle"
         /\ saw' \in [Workers -> Snapshot]
         /\ answer' \in [Workers -> AllAnswers \union {"barred", "none"}]
         /\ last' \in [Workers -> BOOLEAN]
         /\ orphan' \subseteq Workers
<1>1. Blank \in Snapshot
  BY DEF Blank, Snapshot, JobStatus
<1>2. QED
  BY <1>1 DEF TypeOK, Rest, Stages

\* A row is written with a status, whatever the attempt came to.
LEMMA WrittenType ==
  ASSUME TypeOK, NEW w \in Workers, job[w] \in Targets
  PROVE  /\ Outcome(w) \in JobStatus \ {"absent", "leased"}
         /\ Written(w) \in JobStatus
<1>1. Outcome(w) \in JobStatus \ {"absent", "leased"}
  BY DEF Outcome, JobStatus
<1>2. QED
  BY <1>1 DEF Written, TypeOK

LEMMA WorkType ==
  ASSUME TypeOK, NEW w \in Workers, Work(w)
  PROVE  TypeOK'
<1>1. ASSUME NEW t \in Targets, Claim(w, t) PROVE TypeOK'
  BY <1>1 DEF Claim, TypeOK, JobStatus, Stages, ad, links, group
<1>2. ASSUME Load(w) PROVE TypeOK'
  <2>1. job[w] \in Targets
    BY <1>2 DEF Load, TypeOK
  <2>2. [sending |-> bstatus = "sending", conn |-> conn = "active",
         status |-> status[job[w]], tries |-> tries[job[w]]] \in Snapshot
    BY <2>1 DEF TypeOK, Snapshot
  <2>3. QED
    BY <1>2, <2>2 DEF Load, TypeOK, Stages, ad, rows, links, group
<1>3. ASSUME NEW a \in Answers \union {"barred"}, Attempt(w, a) PROVE TypeOK'
  <2>1. posts' \in [Targets -> 0..2]
    BY <1>3 DEF Attempt, TypeOK
  <2>2. saw' \in [Workers -> Snapshot]
    <3>1. saw \in [Workers -> Snapshot] /\ saw' = [saw EXCEPT ![w].conn = FALSE]
      BY <1>3 DEF Attempt, TypeOK
    <3>2. [saw[w] EXCEPT !.conn = FALSE] \in Snapshot
      BY <3>1 DEF Snapshot
    <3>3. QED
      BY <3>1, <3>2
  <2>3. QED
    BY <1>3, <2>1, <2>2 DEF Attempt, TypeOK, Stages, ad, rows, links
<1>4. ASSUME Count(w) PROVE TypeOK'
  BY <1>4 DEF Count, TypeOK, Stages, ad, rows, links, group
<1>5. ASSUME Record(w) PROVE TypeOK'
  <2>1. job[w] \in Targets
    BY <1>5 DEF Record, TypeOK
  <2>2. status' \in [Targets -> JobStatus]
    BY <1>5, <2>1, WrittenType DEF Record, TypeOK
  <2>3. tries' \in [Targets -> 0..MaxAttempts]
    BY <1>5, <2>1 DEF Record, TypeOK, Snapshot
  <2>4. flooded' \subseteq Targets
    BY <1>5, <2>1 DEF Record, TypeOK
  <2>5. QED
    BY <1>5, <2>2, <2>3, <2>4, RestType
    DEF Record, TypeOK, BroadcastStatus, Reasons, links, group
<1>6. ASSUME Settle(w) PROVE TypeOK'
  <2>1. job[w] \in Targets
    BY <1>6 DEF Settle, TypeOK
  <2>2. /\ status' \in [Targets -> JobStatus] /\ tries' \in [Targets -> 0..MaxAttempts]
        /\ flooded' \subseteq Targets /\ posts' \in [Targets -> 0..2]
        /\ disturbed' \subseteq Targets
    BY <1>6, <2>1, WrittenType DEF Settle, StartRound, TypeOK, JobStatus, group
  <2>3. QED
    BY <1>6, <2>2, RestType DEF Settle, TypeOK, BroadcastStatus, ad, links
<1>7. ASSUME LoseSession(w) PROVE TypeOK'
  <2>1. job[w] \in Targets
    BY <1>7 DEF LoseSession, TypeOK
  <2>2. status' \in [Targets -> JobStatus]
    BY <1>7, <2>1 DEF LoseSession, CancelOpen, TypeOK, JobStatus
  <2>3. QED
    BY <1>7, <2>2, RestType
    DEF LoseSession, StopSending, TypeOK, BroadcastStatus, Reasons, ad, group
<1>8. ASSUME Abandon(w) \/ NoAdapter(w) PROVE TypeOK'
  BY <1>8, RestType DEF Abandon, NoAdapter, TypeOK, ad, rows, links, group
<1>9. QED
  BY <1>1, <1>2, <1>3, <1>4, <1>5, <1>6, <1>7, <1>8 DEF Work

LEMMA CrashType ==
  ASSUME TypeOK, NEW w \in Workers, Crash(w)
  PROVE  TypeOK'
<1>1. job[w] \in Targets
  BY DEF Crash, Live, TypeOK
<1>2. disturbed' \subseteq Targets
  BY <1>1 DEF Crash, TypeOK
<1>3. budget' \in [Kinds -> Nat]
  BY SpendType DEF Crash, Kinds
<1>4. QED
  BY <1>2, <1>3, RestType DEF Crash, TypeOK, ad, rows, links

\* Restarting a round, stopping an ad and cancelling its rows keep types.
LEMMA EffectTypes ==
  ASSUME TypeOK
  PROVE  /\ \A S \in SUBSET Targets : StartRound(S) =>
              /\ status' \in [Targets -> JobStatus] /\ tries' \in [Targets -> 0..MaxAttempts]
              /\ flooded' \subseteq Targets /\ posts' \in [Targets -> 0..2]
              /\ disturbed' \subseteq Targets
         /\ \A why \in Reasons : StopSending(why) =>
              bstatus' \in BroadcastStatus /\ reason' \in Reasons /\ stopped' \in BOOLEAN
         /\ CancelOpen \in [Targets -> JobStatus]
         /\ \A S \in SUBSET Targets : Unrow(S) =>
              orphan' \subseteq Workers /\ disturbed' \subseteq Targets
<1>1. ASSUME NEW S \in SUBSET Targets, StartRound(S)
      PROVE  /\ status' \in [Targets -> JobStatus] /\ tries' \in [Targets -> 0..MaxAttempts]
             /\ flooded' \subseteq Targets /\ posts' \in [Targets -> 0..2]
             /\ disturbed' \subseteq Targets
  BY <1>1 DEF StartRound, JobStatus
<1>2. ASSUME NEW why \in Reasons, StopSending(why)
      PROVE  bstatus' \in BroadcastStatus /\ reason' \in Reasons /\ stopped' \in BOOLEAN
  BY <1>2 DEF StopSending, TypeOK, BroadcastStatus, ad
<1>3. CancelOpen \in [Targets -> JobStatus]
  BY DEF CancelOpen, TypeOK, JobStatus
<1>4. ASSUME NEW S \in SUBSET Targets, Unrow(S)
      PROVE  orphan' \subseteq Workers /\ disturbed' \subseteq Targets
  BY <1>4 DEF Unrow, TypeOK
<1>5. QED
  BY <1>1, <1>2, <1>3, <1>4

LEMMA SchedulerType ==
  ASSUME TypeOK, Scheduler
  PROVE  TypeOK'
<1>1. ASSUME NEW expired \in SUBSET Expirable, Sweep(expired) PROVE TypeOK'
  <2>1. status' \in [Targets -> JobStatus]
    BY <1>1 DEF Sweep, TypeOK, JobStatus
  <2>2. bstatus' \in BroadcastStatus /\ reason' \in Reasons
    BY <1>1 DEF Sweep, TypeOK, BroadcastStatus, Reasons
  <2>3. disturbed' \subseteq Targets
    BY <1>1 DEF Sweep, Expirable, TypeOK
  <2>4. budget' \in [Kinds -> Nat]
    BY <1>1, SpendType DEF Sweep, TypeOK, Kinds
  <2>5. QED
    BY <1>1, <2>1, <2>2, <2>3, <2>4 DEF Sweep, TypeOK, links, tasks
<1>2. ASSUME NEW t \in Targets, WaitEnds(t) PROVE TypeOK'
  BY <1>2 DEF WaitEnds, TypeOK, ad, links, tasks, group
<1>3. ASSUME StartScheduled PROVE TypeOK'
  BY <1>3, Zenon DEF StartScheduled, Queue, Retime, Pending, TypeOK, BroadcastStatus, Reasons,
     rows, links, tasks, group
<1>4. QED
  BY <1>1, <1>2, <1>3 DEF Scheduler

LEMMA ElsewhereType ==
  ASSUME TypeOK, Elsewhere
  PROVE  TypeOK'
<1>1. ASSUME PauseConnection PROVE TypeOK'
  BY <1>1, EffectTypes, SpendType
  DEF PauseConnection, TypeOK, Kinds, Reasons, tasks, group
<1>2. ASSUME LoseConnection PROVE TypeOK'
  BY <1>2, SpendType DEF LoseConnection, TypeOK, Kinds, ad, rows, tasks, group
<1>3. ASSUME Reconnect PROVE TypeOK'
  BY <1>3 DEF Reconnect, TypeOK, ad, rows, tasks, group
<1>4. ASSUME Suspend PROVE TypeOK'
  BY <1>4, EffectTypes, SpendType
  DEF Suspend, TypeOK, Kinds, Reasons, tasks, group
<1>5. ASSUME Reinstate PROVE TypeOK'
  BY <1>5 DEF Reinstate, TypeOK, ad, rows, tasks, group
<1>6. QED
  BY <1>1, <1>2, <1>3, <1>4, <1>5 DEF Elsewhere

LEMMA CustomerType ==
  ASSUME TypeOK, Customer
  PROVE  TypeOK'
<1>1. ASSUME Command PROVE budget' \in [Kinds -> Nat]
  BY <1>1, SpendType DEF Command, Kinds
<1>2. ASSUME Send PROVE TypeOK'
  <2>1. CASE bstatus \in {"completed", "cancelled"}
    <3>1. {t \in Targets : InFlight(t)} \in SUBSET Targets
      OBVIOUS
    <3>2. StartRound({t \in Targets : InFlight(t)}) /\ UNCHANGED <<links, tasks>>
      BY <1>2, <2>1 DEF Send
    <3>3. bstatus' \in BroadcastStatus /\ reason' \in Reasons /\ stopped' \in BOOLEAN
      BY <1>2, <2>1 DEF Send, TypeOK, BroadcastStatus, Reasons, ad
    <3>4. QED
      BY <1>1, <1>2, <3>1, <3>2, <3>3, EffectTypes DEF Send, TypeOK, links, tasks
  <2>2. CASE bstatus \notin {"completed", "cancelled"}
    <3>1. bstatus' \in BroadcastStatus /\ reason' \in Reasons /\ stopped' \in BOOLEAN
      BY <1>2, <2>2 DEF Send, Queue, TypeOK, BroadcastStatus, Reasons
    <3>2. status' = status /\ tries' = tries /\ flooded' \subseteq Targets
      BY <1>2, <2>2 DEF Send, Queue, Retime, TypeOK, rows
    <3>3. UNCHANGED <<group, links, tasks>>
      BY <1>2, <2>2 DEF Send
    <3>4. QED
      BY <1>1, <1>2, <3>1, <3>2, <3>3 DEF Send, TypeOK, group, links, tasks
  <2>3. QED
    BY <2>1, <2>2
<1>3. ASSUME Pause PROVE TypeOK'
  BY <1>1, <1>3 DEF Pause, TypeOK, BroadcastStatus, Reasons, rows, links, tasks, group
<1>4. ASSUME Edit PROVE TypeOK'
  BY <1>1, <1>4, EffectTypes DEF Edit, TypeOK, Reasons, rows, links, tasks, group
<1>5. ASSUME Resume PROVE TypeOK'
  BY <1>1, <1>5 DEF Resume, Retime, TypeOK, BroadcastStatus, Reasons, links, tasks, group
<1>6. ASSUME Cancel PROVE TypeOK'
  BY <1>1, <1>6, EffectTypes DEF Cancel, TypeOK, BroadcastStatus, links, tasks, group
<1>7. ASSUME Retry PROVE TypeOK'
  <2>1. status' \in [Targets -> JobStatus] /\ tries' \in [Targets -> 0..MaxAttempts]
    BY <1>7 DEF Retry, TypeOK, JobStatus
  <2>2. flooded' \subseteq Targets /\ disturbed' \subseteq Targets
    BY <1>7 DEF Retry, TypeOK
  <2>3. QED
    BY <1>1, <1>7, <2>1, <2>2 DEF Retry, TypeOK, BroadcastStatus, Reasons, links, tasks
<1>8. ASSUME Delete PROVE TypeOK'
  <2>1. Rows \in SUBSET Targets
    BY DEF Rows
  <2>2. status' \in [Targets -> JobStatus] /\ tries' \in [Targets -> 0..MaxAttempts]
    BY <1>8 DEF Delete, JobStatus
  <2>3. QED
    BY <1>1, <1>8, <2>1, <2>2, EffectTypes DEF Delete, TypeOK, BroadcastStatus, Reasons, links
<1>9. ASSUME NEW wanted \in SUBSET Targets, SaveSelection(wanted) PROVE TypeOK'
  <2>1. Rows \ wanted \in SUBSET Targets
    BY DEF Rows
  <2>2. status' \in [Targets -> JobStatus]
    BY <1>9 DEF SaveSelection, Selected, TypeOK, JobStatus
  <2>3. tries' \in [Targets -> 0..MaxAttempts] /\ posts' \in [Targets -> 0..2]
    BY <1>9 DEF SaveSelection, TypeOK
  <2>4. QED
    BY <1>1, <1>9, <2>1, <2>2, <2>3, EffectTypes DEF SaveSelection, TypeOK, ad, links
<1>10. ASSUME NEW dropped \in SUBSET Targets, DropGroups(dropped) PROVE TypeOK'
  <2> DEFINE removed == {t \in Rows \intersect dropped : status[t] # "succeeded"}
  <2>1. removed \in SUBSET Targets
    BY DEF Rows
  <2>2. status' \in [Targets -> JobStatus]
    BY <1>10 DEF DropGroups, TypeOK, JobStatus
  <2>3. tries' \in [Targets -> 0..MaxAttempts]
    BY <1>10 DEF DropGroups, TypeOK
  <2>4. Command /\ Unrow(removed) /\ flooded' = flooded \ removed
        /\ UNCHANGED <<ad, links, at, job, saw, answer, last, posts>>
    BY <1>10 DEF DropGroups
  <2>5. QED
    BY <1>1, <2>1, <2>2, <2>3, <2>4, EffectTypes DEF TypeOK, ad, links
<1>11. QED
  BY <1>2, <1>3, <1>4, <1>5, <1>6, <1>7, <1>8, <1>9, <1>10 DEF Customer

\* Every variable keeps its type in every behaviour of the worker, the
\* scheduler, the customer and the rest; only an idle task has no target.
THEOREM TypeCorrect == Spec => []TypeOK
<1>1. Init => TypeOK
  BY InitTypeOK
<1>2. TypeOK /\ [Next]_vars => TypeOK'
  <2> SUFFICES ASSUME TypeOK, [Next]_vars PROVE TypeOK'
    OBVIOUS
  <2>1. CASE UNCHANGED vars
    BY <2>1 DEF vars, ad, rows, links, tasks, group, TypeOK
  <2>2. CASE Next
    BY <2>2, WorkType, CrashType, SchedulerType, CustomerType, ElsewhereType DEF Next
  <2>3. QED
    BY <2>1, <2>2
<1>3. QED
  BY <1>1, <1>2, PTL DEF Spec

-----------------------------------------------------------------------------

\* A group nobody works on satisfies PostedOnce and RecordsMatchPosts by the
\* status of its row alone.
Settled(t) ==
    CASE status[t] = "succeeded" -> posts[t] = 1
      [] status[t] \in {"needs_attention", "absent"} -> posts[t] <= 1
      [] OTHER -> posts[t] = 0

\* What IInv says of the groups without a task.
LEMMA QuietGroups ==
  ASSUME TypeOK, IInv, NEW t \in Targets \ disturbed, ~InFlight(t)
  PROVE  Settled(t)
<1>1. posts[t] \in 0..2 /\ posts[t] <= 1
  BY DEF IInv, PostedOnce, TypeOK
<1>2. CASE t \in Rows
  BY <1>1, <1>2 DEF IInv, RecordsMatchPosts, Settled, Rows
<1>3. CASE t \notin Rows
  BY <1>1, <1>3 DEF Settled, Rows
<1>4. QED
  BY <1>2, <1>3

\* What a step owes of the two properties: the groups without a task after it.
LEMMA QuietGroupsNext ==
  ASSUME TypeOK', OwnerInv',
         \A t \in Targets : t \notin disturbed' /\ ~InFlight(t)' => Settled(t)'
  PROVE  PostedOnce' /\ RecordsMatchPosts'
<1>1. ASSUME NEW t \in Targets, t \notin disturbed' PROVE posts'[t] <= 1
  <2>1. CASE InFlight(t)'
    BY <1>1, <2>1 DEF InFlight, OwnerInv, Sure, Reached
  <2>2. CASE ~InFlight(t)'
    BY <1>1, <2>2 DEF Settled
  <2>3. QED
    BY <2>1, <2>2
<1>2. PostedOnce'
  BY <1>1 DEF PostedOnce, TypeOK
<1>3. RecordsMatchPosts'
  BY DEF RecordsMatchPosts, Settled, Rows
<1>4. QED
  BY <1>2, <1>3

LEMMA InitIInv == Init => IInv
<1>1. ASSUME Init PROVE IInv
  <2>1. \A w \in Workers : ~Live(w) /\ answer[w] = "none" /\ at[w] = "idle"
    BY <1>1 DEF Init, Live
  <2>2. AnswerInv /\ OrphanInv /\ UniqueInv /\ OwnerInv
    BY <1>1, <2>1 DEF Init, AnswerInv, OrphanInv, UniqueInv, OwnerInv, Sure
  <2>3. PostedOnce /\ RecordsMatchPosts
    BY <1>1, <2>1 DEF Init, PostedOnce, RecordsMatchPosts, Rows
  <2>4. QED
    BY <2>2, <2>3 DEF IInv
<1>2. QED
  BY <1>1

\* A task put to rest leaves its row and its group settled: no claim of another
\* task is touched when only its row and its group's posts changed.
LEMMA RestIInv ==
  ASSUME TypeOK, TypeOK', IInv, NEW w \in Workers, Live(w), Rest(w),
         NEW u \in Targets, u = job[w],
         disturbed \subseteq disturbed',
         posts' = posts,
         \A t \in Targets \ disturbed' :
            t # u => \/ status'[t] = status[t]
                     \/ status[t] \in Unfinished /\ status'[t] = "skipped",
         u \notin disturbed' => Settled(u)'
  PROVE  IInv'
<1>1. \A v \in Workers \ {w} :
        /\ at'[v] = at[v] /\ job'[v] = job[v] /\ saw'[v] = saw[v]
        /\ answer'[v] = answer[v]
  BY DEF Rest, TypeOK
<1>2. at'[w] = "idle" /\ answer'[w] = "none" /\ ~Live(w)'
  BY DEF Rest, Live, TypeOK
<1>3. AnswerInv'
  BY <1>1, <1>2 DEF IInv, AnswerInv
<1>4. OrphanInv'
  BY <1>1, <1>2 DEF IInv, OrphanInv, Rest, Live, TypeOK
<1>5. \A v \in Workers : Sure(v)' => v # w /\ Sure(v) /\ job[v] # job[w]
  <2> SUFFICES ASSUME NEW v \in Workers, Sure(v)' PROVE v # w /\ Sure(v) /\ job[v] # job[w]
    OBVIOUS
  <2>1. v # w
    BY <1>2 DEF Sure
  <2>2. Sure(v)
    BY <1>1, <2>1 DEF Sure, Live
  <2>3. job[v] = job[w] => Sure(w)
    BY <2>2 DEF Sure
  <2>4. QED
    BY <2>1, <2>2, <2>3 DEF IInv, UniqueInv
<1>6. UniqueInv'
  BY <1>1, <1>5 DEF IInv, UniqueInv
<1>7. OwnerInv'
  <2> SUFFICES ASSUME NEW v \in Workers, Sure(v)'
      PROVE /\ status'[job'[v]] \in {"leased", "skipped"}
            /\ at'[v] # "claimed" => saw'[v].status \in {"leased", "skipped"}
            /\ posts'[job'[v]] \in Reached(v)'
    BY DEF OwnerInv
  <2>1. v # w /\ Sure(v) /\ job[v] # job[w]
    BY <1>5
  <2>2. job'[v] = job[v] /\ job[v] \in Targets \ disturbed'
    BY <1>1, <2>1 DEF Sure, Live, TypeOK
  <2>3. status'[job[v]] \in {"leased", "skipped"}
    BY <2>1, <2>2 DEF IInv, OwnerInv, Unfinished
  <2>4. Reached(v)' = Reached(v)
    BY <1>1, <2>1 DEF Reached
  <2>5. QED
    BY <1>1, <2>1, <2>2, <2>3, <2>4 DEF IInv, OwnerInv
<1>8. ASSUME NEW t \in Targets, t \notin disturbed', ~InFlight(t)' PROVE Settled(t)'
  <2>1. CASE t = u
    BY <1>8, <2>1
  <2>2. CASE t # u
    <3>1. ~InFlight(t)
      BY <1>1, <1>8, <2>2 DEF InFlight, Live
    <3>2. Settled(t)
      BY <1>8, <3>1, QuietGroups
    <3>3. QED
      BY <1>8, <2>2, <3>2 DEF Settled, Unfinished
  <2>3. QED
    BY <2>1, <2>2
<1>9. PostedOnce' /\ RecordsMatchPosts'
  BY <1>7, <1>8, QuietGroupsNext
<1>10. QED
  BY <1>3, <1>4, <1>6, <1>7, <1>9 DEF IInv

\* An action that moves no task: the rows of the tasks at work may only be
\* cancelled under them, and the other groups must come out settled.
LEMMA StillIInv ==
  ASSUME TypeOK, TypeOK', IInv,
         UNCHANGED <<at, job, saw, answer>>,
         disturbed \subseteq disturbed',
         \A w \in orphan' : Live(w) /\ job[w] \in disturbed',
         \A t \in Targets : t \notin disturbed' /\ InFlight(t) =>
             posts'[t] = posts[t] /\ status'[t] \in {status[t], "skipped"},
         \A t \in Targets : t \notin disturbed' /\ ~InFlight(t) => Settled(t)'
  PROVE  IInv'
<1>1. AnswerInv' /\ OrphanInv'
  BY DEF IInv, AnswerInv, OrphanInv, Live
<1>2. \A w \in Workers : Sure(w)' => Sure(w)
  BY DEF Sure, Live
<1>3. UniqueInv'
  BY <1>2 DEF IInv, UniqueInv
<1>4. OwnerInv'
  <2> SUFFICES ASSUME NEW w \in Workers, Sure(w)'
      PROVE /\ status'[job'[w]] \in {"leased", "skipped"}
            /\ at'[w] # "claimed" => saw'[w].status \in {"leased", "skipped"}
            /\ posts'[job'[w]] \in Reached(w)'
    BY DEF OwnerInv
  <2>1. Sure(w) /\ job'[w] = job[w] /\ job[w] \in Targets /\ job[w] \notin disturbed'
    BY <1>2 DEF Sure, Live, TypeOK
  <2>2. InFlight(job[w])
    BY <2>1 DEF InFlight, Sure
  <2>3. Reached(w)' = Reached(w)
    BY DEF Reached
  <2>4. QED
    BY <2>1, <2>2, <2>3 DEF IInv, OwnerInv
<1>5. \A t \in Targets : InFlight(t)' <=> InFlight(t)
  BY DEF InFlight, Live
<1>6. PostedOnce' /\ RecordsMatchPosts'
  BY <1>4, <1>5, QuietGroupsNext
<1>7. QED
  BY <1>1, <1>3, <1>4, <1>6 DEF IInv

\* A new round: whoever is still at work counts as disturbing its group.
LEMMA RoundIInv ==
  ASSUME TypeOK, TypeOK', NEW S \in SUBSET Targets, StartRound(S), AnswerInv',
         \A w \in Workers : Live(w)' => job'[w] \in S,
         \A w \in orphan' : Live(w)'
  PROVE  IInv'
<1>1. disturbed' = S
  BY DEF StartRound
<1>2. \A w \in Workers : ~Sure(w)'
  BY <1>1 DEF Sure
<1>3. OrphanInv' /\ UniqueInv' /\ OwnerInv'
  BY <1>1, <1>2 DEF OrphanInv, UniqueInv, OwnerInv, TypeOK
<1>4. \A t \in Targets : Settled(t)'
  BY DEF StartRound, Settled
<1>5. PostedOnce' /\ RecordsMatchPosts'
  BY <1>3, <1>4, QuietGroupsNext
<1>6. QED
  BY <1>3, <1>5 DEF IInv

\* The rows that are written when a task commits, and what its group then has.
LEMMA WrittenSettled ==
  ASSUME TypeOK, IInv, NEW w \in Workers, at[w] \in {"answered", "counted"},
         NEW u \in Targets, u = job[w], w \notin orphan,
         status'[u] \in {Written(w), Outcome(w)}, posts' = posts, u \notin disturbed
  PROVE  Settled(u)'
<1>1. Sure(w) /\ answer[w] # "none"
  BY DEF Sure, Live, IInv, AnswerInv
<1>2. /\ status[u] \in {"leased", "skipped"}
      /\ saw[w].status \in {"leased", "skipped"}
      /\ posts[u] \in Reached(w)
  BY <1>1 DEF IInv, OwnerInv
<1>3. CASE answer[w] = "posted"
  BY <1>2, <1>3 DEF Written, Outcome, Reached, Settled
<1>4. CASE answer[w] = "unclear"
  BY <1>2, <1>4 DEF Written, Outcome, Reached, Settled
<1>5. CASE answer[w] \notin {"posted", "unclear"}
  <2>1. posts[u] = 0
    BY <1>2, <1>5 DEF Reached
  <2>2. Outcome(w) \notin {"succeeded"}
    BY <1>5 DEF Outcome
  <2>3. status'[u] # "succeeded"
    BY <1>2, <2>2 DEF Written
  <2>4. QED
    BY <2>1, <2>3 DEF Settled
<1>6. QED
  BY <1>3, <1>4, <1>5

LEMMA WorkIInv ==
  ASSUME TypeOK, TypeOK', IInv, NEW w \in Workers, Work(w)
  PROVE  IInv'
<1>1. ASSUME NEW t \in Targets, Claim(w, t) PROVE IInv'
  <2>1. /\ at' = [at EXCEPT ![w] = "claimed"] /\ job' = [job EXCEPT ![w] = t]
        /\ status' = [status EXCEPT ![t] = "leased"] /\ status[t] = "pending"
        /\ at[w] = "idle"
        /\ UNCHANGED <<saw, answer, orphan, posts, disturbed>>
    BY <1>1 DEF Claim, group
  <2>2. t \notin disturbed => ~InFlight(t) /\ posts[t] = 0
    <3>1. t \notin disturbed => ~InFlight(t)
      BY <2>1 DEF InFlight, Sure, IInv, OwnerInv
    <3>2. QED
      BY <2>1, <3>1, QuietGroups DEF Settled
  <2>3. AnswerInv' /\ OrphanInv'
    BY <2>1 DEF IInv, AnswerInv, OrphanInv, Live, TypeOK
  <2>4. \A v \in Workers \ {w} :
           Sure(v)' => Sure(v) /\ job'[v] = job[v] /\ job[v] # t
    BY <2>1, <2>2 DEF Sure, Live, InFlight, TypeOK
  <2>5. UniqueInv'
    BY <2>1, <2>4 DEF IInv, UniqueInv, TypeOK
  <2>6. OwnerInv'
    <3>1. ASSUME NEW v \in Workers \ {w}, Sure(v)'
          PROVE /\ status'[job'[v]] \in {"leased", "skipped"}
                /\ at'[v] # "claimed" => saw'[v].status \in {"leased", "skipped"}
                /\ posts'[job'[v]] \in Reached(v)'
      BY <2>1, <2>4, <3>1 DEF IInv, OwnerInv, Reached, TypeOK
    <3>2. ASSUME Sure(w)'
          PROVE /\ status'[job'[w]] \in {"leased", "skipped"}
                /\ at'[w] # "claimed" => saw'[w].status \in {"leased", "skipped"}
                /\ posts'[job'[w]] \in Reached(w)'
      BY <2>1, <2>2, <3>2 DEF IInv, AnswerInv, Sure, Reached, TypeOK
    <3>3. QED
      BY <3>1, <3>2 DEF OwnerInv
  <2>7. ASSUME NEW u \in Targets, u \notin disturbed', ~InFlight(u)' PROVE Settled(u)'
    <3>1. u # t
      BY <2>1, <2>7 DEF InFlight, Live, TypeOK
    <3>2. ~InFlight(u)
      BY <2>1, <2>7 DEF InFlight, Live, TypeOK
    <3>3. Settled(u)
      BY <2>1, <2>7, <3>2, QuietGroups
    <3>4. QED
      BY <2>1, <3>1, <3>3 DEF Settled, TypeOK
  <2>8. PostedOnce' /\ RecordsMatchPosts'
    BY <2>6, <2>7, QuietGroupsNext
  <2>9. QED
    BY <2>3, <2>5, <2>6, <2>8 DEF IInv
<1>2. ASSUME Load(w) \/ Count(w) PROVE IInv'
  <2>1. /\ UNCHANGED <<job, answer, orphan, posts, disturbed, status>>
        /\ \A v \in Workers : Live(v)' <=> Live(v)
        /\ \A v \in Workers \ {w} : at'[v] = at[v] /\ saw'[v] = saw[v]
    BY <1>2 DEF Load, Count, rows, group, Live, TypeOK
  <2>2. /\ AnswerInv'
    BY <1>2, <2>1 DEF Load, Count, IInv, AnswerInv, TypeOK
  <2>3. \A v \in Workers : Sure(v)' <=> Sure(v)
    BY <2>1 DEF Sure
  <2>4. OrphanInv' /\ UniqueInv'
    BY <2>1, <2>3 DEF IInv, OrphanInv, UniqueInv, TypeOK
  <2>5. Sure(w) => saw'[w].status \in {"leased", "skipped"}
    BY <1>2 DEF Load, Count, IInv, OwnerInv, TypeOK
  <2>6. OwnerInv'
    BY <2>1, <2>3, <2>5 DEF IInv, OwnerInv, Reached
  <2>7. ASSUME NEW u \in Targets, u \notin disturbed', ~InFlight(u)' PROVE Settled(u)'
    <3>1. Settled(u)
      BY <2>1, <2>7, QuietGroups DEF InFlight
    <3>2. QED
      BY <2>1, <3>1 DEF Settled
  <2>8. PostedOnce' /\ RecordsMatchPosts'
    BY <2>6, <2>7, QuietGroupsNext
  <2>9. QED
    BY <2>2, <2>4, <2>6, <2>8 DEF IInv
<1>3. ASSUME NEW a \in Answers \union {"barred"}, Attempt(w, a) PROVE IInv'
  <2>1. /\ UNCHANGED <<job, orphan, status>> /\ disturbed \subseteq disturbed'
        /\ \A v \in Workers : Live(v)' <=> Live(v)
        /\ \A v \in Workers : saw'[v].status = saw[v].status
        /\ \A v \in Workers \ {w} : at'[v] = at[v] /\ answer'[v] = answer[v]
        /\ answer'[w] = a /\ at'[w] = "answered" /\ at[w] = "loaded"
    BY <1>3 DEF Attempt, rows, Live, TypeOK, Snapshot
  <2>2. job[w] \in Targets /\ a # "none" /\ answer[w] = "none"
    BY <2>1 DEF TypeOK, IInv, AnswerInv, AllAnswers
  <2>3. AnswerInv'
    BY <2>1, <2>2 DEF IInv, AnswerInv
  <2>4. \A v \in Workers : Sure(v)' => Sure(v)
    BY <2>1 DEF Sure
  <2>5. OrphanInv' /\ UniqueInv'
    BY <2>1, <2>4 DEF IInv, OrphanInv, UniqueInv, TypeOK
  <2>6. \A t \in Targets \ {job[w]} : posts'[t] = posts[t]
    BY <1>3, <2>2 DEF Attempt, TypeOK
  <2>7. Sure(w)' => posts'[job[w]] \in Reached(w)'
    <3>1. Sure(w) => posts[job[w]] = 0 /\ status[job[w]] \in {"leased", "skipped"}
      BY <2>2 DEF IInv, OwnerInv, Reached
    <3>2. Sure(w)' => a # "lost"
      BY <1>3, <2>1 DEF Attempt, Sure
    <3>3. QED
      BY <1>3, <2>1, <2>2, <2>4, <3>1, <3>2 DEF Attempt, Reached, TypeOK
  <2>8. OwnerInv'
    <3>1. ASSUME NEW v \in Workers \ {w}, Sure(v)'
          PROVE posts'[job[v]] \in Reached(v)'
      <4>1. job[v] \in Targets \ {job[w]}
        BY <1>3, <2>1, <2>4, <3>1 DEF Attempt, Sure, Live, IInv, UniqueInv, TypeOK
      <4>2. QED
        BY <2>1, <2>4, <2>6, <3>1, <4>1 DEF IInv, OwnerInv, Reached
    <3>2. QED
      BY <2>1, <2>4, <2>7, <3>1 DEF IInv, OwnerInv
  <2>9. ASSUME NEW u \in Targets, u \notin disturbed', ~InFlight(u)' PROVE Settled(u)'
    <3>1. Settled(u)
      BY <2>1, <2>9, QuietGroups DEF InFlight
    <3>2. u # job[w]
      BY <2>1, <2>9 DEF InFlight, Live
    <3>3. QED
      BY <2>1, <2>6, <3>1, <3>2 DEF Settled
  <2>10. PostedOnce' /\ RecordsMatchPosts'
    BY <2>8, <2>9, QuietGroupsNext
  <2>11. QED
    BY <2>3, <2>5, <2>8, <2>10 DEF IInv
<1>4. ASSUME Record(w) PROVE IInv'
  <2>1. /\ Live(w) /\ Rest(w) /\ at[w] \in {"answered", "counted"} /\ w \notin orphan
        /\ UNCHANGED <<posts, disturbed>>
    BY <1>4 DEF Record, Live, group
  <2>2. PICK u \in Targets : u = job[w]
    BY <2>1 DEF Live, TypeOK
  <2>3. status' = [status EXCEPT ![u] = Written(w)]
    BY <1>4, <2>2 DEF Record
  <2>4. u \notin disturbed' => Settled(u)'
    BY <2>1, <2>2, <2>3, WrittenSettled DEF TypeOK
  <2>5. QED
    BY <2>1, <2>2, <2>3, <2>4, RestIInv DEF TypeOK
<1>5. ASSUME Settle(w) PROVE IInv'
  <2>1. Live(w) /\ Rest(w) /\ at[w] = "counted"
    BY <1>5 DEF Settle, Live
  <2>2. CASE Repeats
    <3> DEFINE others == {t \in Targets :
                            \E v \in Workers \ {w} : Live(v) /\ job[v] = t}
    <3>1. StartRound(others)
      BY <1>5, <2>2 DEF Settle
    <3>2. AnswerInv'
      BY <2>1 DEF Rest, IInv, AnswerInv, TypeOK
    <3>3. \A v \in Workers : Live(v)' => job'[v] \in others
      BY <2>1 DEF Rest, Live, TypeOK
    <3>4. \A v \in orphan' : Live(v)'
      BY <2>1 DEF Rest, Live, IInv, OrphanInv, TypeOK
    <3>5. QED
      BY <3>1, <3>2, <3>3, <3>4, RoundIInv
  <2>3. CASE ~Repeats
    <3>1. /\ status' = [status EXCEPT ![job[w]] = Written(w)]
          /\ UNCHANGED <<posts, disturbed>>
      BY <1>5, <2>3 DEF Settle, group
    <3>2. PICK u \in Targets : u = job[w]
      BY <2>1 DEF Live, TypeOK
    <3>3. u \notin disturbed' => w \notin orphan
      BY <3>1, <3>2 DEF IInv, OrphanInv
    <3>4. u \notin disturbed' => Settled(u)'
      BY <2>1, <3>1, <3>2, <3>3, WrittenSettled DEF TypeOK
    <3>5. QED
      BY <2>1, <3>1, <3>2, <3>4, RestIInv DEF TypeOK
  <2>4. QED
    BY <2>2, <2>3
<1>6. ASSUME LoseSession(w) PROVE IInv'
  <2>1. /\ Live(w) /\ Rest(w) /\ at[w] = "answered" /\ answer[w] = "auth"
        /\ w \notin orphan /\ UNCHANGED <<posts, disturbed>>
    BY <1>6 DEF LoseSession, Live, group
  <2>2. PICK u \in Targets : u = job[w]
    BY <2>1 DEF Live, TypeOK
  <2>3. /\ status'[u] = "failed"
        /\ \A t \in Targets \ {u} : status'[t] = CancelOpen[t]
    BY <1>6, <2>2 DEF LoseSession, CancelOpen
  <2>4. Outcome(w) = "failed"
    BY <2>1 DEF Outcome
  <2>5. u \notin disturbed' => Settled(u)'
    BY <2>1, <2>2, <2>3, <2>4, WrittenSettled
  <2>6. \A t \in Targets \ disturbed' : t # u =>
           status'[t] = status[t] \/ (status[t] \in Unfinished /\ status'[t] = "skipped")
    BY <2>3 DEF CancelOpen, Open
  <2>7. QED
    BY <2>1, <2>2, <2>5, <2>6, RestIInv
<1>7. ASSUME Abandon(w) PROVE IInv'
  <2>1. /\ Live(w) /\ Rest(w) /\ w \in orphan
        /\ UNCHANGED <<posts, disturbed, status>>
    BY <1>7 DEF Abandon, Live, group, rows
  <2>2. PICK u \in Targets : u = job[w]
    BY <2>1 DEF Live, TypeOK
  <2>3. u \in disturbed'
    BY <2>1, <2>2 DEF IInv, OrphanInv
  <2>4. QED
    BY <2>1, <2>2, <2>3, RestIInv
<1>8. ASSUME NoAdapter(w) PROVE IInv'
  <2>1. /\ Live(w) /\ Rest(w) /\ at[w] = "claimed"
        /\ UNCHANGED <<posts, disturbed, status>>
    BY <1>8 DEF NoAdapter, Live, group, rows
  <2>2. PICK u \in Targets : u = job[w]
    BY <2>1 DEF Live, TypeOK
  <2>3. u \notin disturbed' => Settled(u)'
    <3>1. Sure(w) => status[u] \in {"leased", "skipped"} /\ posts[u] = 0
      BY <2>1, <2>2 DEF IInv, AnswerInv, OwnerInv, Reached
    <3>2. QED
      BY <2>1, <2>2, <3>1 DEF Sure, Settled
  <2>4. QED
    BY <2>1, <2>2, <2>3, RestIInv
<1>9. QED
  BY <1>1, <1>2, <1>3, <1>4, <1>5, <1>6, <1>7, <1>8 DEF Work

LEMMA CrashIInv ==
  ASSUME TypeOK, TypeOK', IInv, NEW w \in Workers, Crash(w)
  PROVE  IInv'
<1>1. Live(w) /\ Rest(w) /\ UNCHANGED <<posts, status>> /\ disturbed \subseteq disturbed'
  BY DEF Crash, rows
<1>2. PICK u \in Targets : u = job[w]
  BY <1>1 DEF Live, TypeOK
<1>3. ASSUME u \notin disturbed' PROVE Settled(u)'
  <2>1. answer[w] \notin {"posted", "unclear"} /\ Sure(w)
    BY <1>1, <1>2, <1>3 DEF Crash, Sure
  <2>2. status[u] \in {"leased", "skipped"} /\ posts[u] = 0
    BY <1>2, <2>1 DEF IInv, OwnerInv, Reached
  <2>3. QED
    BY <1>1, <2>2 DEF Settled
<1>4. QED
  BY <1>1, <1>2, <1>3, RestIInv

LEMMA SchedulerIInv ==
  ASSUME TypeOK, TypeOK', IInv, Scheduler
  PROVE  IInv'
<1>1. ASSUME NEW expired \in SUBSET Expirable, Sweep(expired) PROVE IInv'
  <2>1. /\ UNCHANGED <<at, job, saw, answer, orphan, posts>>
        /\ disturbed' = disturbed \union {t \in expired : Owned(t)}
        /\ status' = [t \in Targets |-> IF t \in expired THEN "pending" ELSE status[t]]
    BY <1>1 DEF Sweep, tasks
  <2>2. \A t \in Targets : t \notin disturbed' /\ InFlight(t) => t \notin expired
    BY <2>1 DEF InFlight, Owned, IInv, OrphanInv
  <2>3. \A t \in expired : status[t] = "leased"
    BY DEF Expirable
  <2>4. ASSUME NEW t \in Targets, t \notin disturbed', ~InFlight(t) PROVE Settled(t)'
    BY <2>1, <2>3, <2>4, QuietGroups DEF Settled
  <2>5. QED
    BY <2>1, <2>2, <2>4, StillIInv DEF IInv, OrphanInv
<1>2. ASSUME StartScheduled \/ \E t \in Targets : WaitEnds(t)
      PROVE  IInv'
  <2>1. UNCHANGED <<at, job, saw, answer, orphan, posts, disturbed, status>>
    BY <1>2, Zenon DEF WaitEnds, StartScheduled, Queue, rows, tasks, group
  <2>2. ASSUME NEW t \in Targets, t \notin disturbed', ~InFlight(t) PROVE Settled(t)'
    BY <2>1, <2>2, QuietGroups DEF Settled
  <2>3. QED
    BY <2>1, <2>2, StillIInv DEF IInv, OrphanInv
<1>3. QED
  BY <1>1, <1>2 DEF Scheduler

LEMMA ElsewhereIInv ==
  ASSUME TypeOK, TypeOK', IInv, Elsewhere
  PROVE  IInv'
<1>1. /\ UNCHANGED <<at, job, saw, answer, orphan, posts, disturbed>>
      /\ status' = status \/ status' = CancelOpen
  BY DEF Elsewhere, PauseConnection, LoseConnection, Reconnect, Suspend, Reinstate,
         rows, tasks, group
<1>2. \A t \in Targets : status'[t] = status[t] \/
         (status[t] \in Unfinished /\ status'[t] = "skipped")
  BY <1>1 DEF CancelOpen, Open
<1>3. ASSUME NEW t \in Targets, t \notin disturbed', ~InFlight(t) PROVE Settled(t)'
  BY <1>1, <1>2, <1>3, QuietGroups DEF Settled, Unfinished
<1>4. QED
  BY <1>1, <1>2, <1>3, StillIInv DEF IInv, OrphanInv

\* Deleting rows and adding new ones: a group whose row goes under a task counts
\* as disturbed, and so does one that gets a new row after a post.
LEMMA UnrowIInv ==
  ASSUME TypeOK, TypeOK', IInv, NEW S \in SUBSET Targets,
         orphan' = orphan \union {w \in Workers : Live(w) /\ job[w] \in S},
         disturbed \union {t \in S : InFlight(t)} \subseteq disturbed',
         UNCHANGED <<at, job, saw, answer, posts>>,
         \A t \in S : status'[t] = "absent",
         \A t \in Targets \ S :
            \/ status'[t] = status[t]
            \/ status[t] = "absent" /\ status'[t] = "pending" /\ (posts[t] = 0 \/ t \in disturbed')
  PROVE  IInv'
<1>1. \A w \in orphan' : Live(w) /\ job[w] \in disturbed'
  BY DEF IInv, OrphanInv, InFlight
<1>2. ASSUME NEW t \in Targets, t \notin disturbed', InFlight(t)
      PROVE  posts'[t] = posts[t] /\ status'[t] \in {status[t], "skipped"}
  <2>1. status[t] # "absent"
    BY <1>2 DEF InFlight, IInv, OwnerInv, Sure
  <2>2. QED
    BY <1>2, <2>1
<1>3. ASSUME NEW t \in Targets, t \notin disturbed', ~InFlight(t) PROVE Settled(t)'
  <2>1. Settled(t) /\ posts[t] \in 0..2
    BY <1>3, QuietGroups DEF TypeOK
  <2>2. CASE t \in S
    BY <2>1, <2>2 DEF Settled
  <2>3. CASE t \notin S
    BY <1>3, <2>1, <2>3 DEF Settled
  <2>4. QED
    BY <2>2, <2>3
<1>4. QED
  BY <1>1, <1>2, <1>3, StillIInv

LEMMA CustomerIInv ==
  ASSUME TypeOK, TypeOK', IInv, Customer
  PROVE  IInv'
<1>1. ASSUME Send PROVE IInv'
  <2>1. UNCHANGED <<at, job, saw, answer, orphan>>
    BY <1>1 DEF Send, tasks
  <2>2. CASE bstatus \in {"completed", "cancelled"}
    <3>1. StartRound({t \in Targets : InFlight(t)})
      BY <1>1, <2>2 DEF Send
    <3>2. AnswerInv' /\ (\A w \in orphan' : Live(w)')
      BY <2>1 DEF IInv, AnswerInv, OrphanInv, Live
    <3>3. \A w \in Workers : Live(w)' => job'[w] \in {t \in Targets : InFlight(t)}
      BY <2>1 DEF Live, InFlight, TypeOK
    <3>4. QED
      BY <3>1, <3>2, <3>3, RoundIInv
  <2>3. CASE bstatus \notin {"completed", "cancelled"}
    <3>1. UNCHANGED <<status, posts, disturbed>>
      BY <1>1, <2>3 DEF Send, Queue, group, rows
    <3>2. ASSUME NEW t \in Targets, t \notin disturbed', ~InFlight(t) PROVE Settled(t)'
      BY <3>1, <3>2, QuietGroups DEF Settled
    <3>3. QED
      BY <2>1, <3>1, <3>2, StillIInv DEF IInv, OrphanInv
  <2>4. QED
    BY <2>2, <2>3
<1>2. ASSUME Pause \/ Edit \/ Resume \/ Cancel PROVE IInv'
  <2>1. /\ UNCHANGED <<at, job, saw, answer, orphan, posts, disturbed>>
        /\ status' = status \/ status' = CancelOpen
    BY <1>2 DEF Pause, Edit, Resume, Cancel, rows, tasks, group
  <2>2. \A t \in Targets : status'[t] = status[t] \/
           (status[t] \in Unfinished /\ status'[t] = "skipped")
    BY <2>1 DEF CancelOpen, Open
  <2>3. ASSUME NEW t \in Targets, t \notin disturbed', ~InFlight(t) PROVE Settled(t)'
    BY <2>1, <2>2, <2>3, QuietGroups DEF Settled, Unfinished
  <2>4. QED
    BY <2>1, <2>2, <2>3, StillIInv DEF IInv, OrphanInv
<1>3. ASSUME Retry PROVE IInv'
  <2>1. /\ UNCHANGED <<at, job, saw, answer, orphan, posts>>
        /\ status' = [t \in Targets |-> IF t \in Requeued THEN "pending" ELSE status[t]]
        /\ disturbed' = disturbed \union {t \in Targets : status[t] = "needs_attention"}
    BY <1>3 DEF Retry, tasks
  <2>2. \A t \in Targets : t \notin disturbed' /\ InFlight(t) => t \notin Requeued
    BY <2>1 DEF InFlight, IInv, OwnerInv, Sure, Requeued
  <2>3. ASSUME NEW t \in Targets, t \notin disturbed', ~InFlight(t) PROVE Settled(t)'
    BY <2>1, <2>3, QuietGroups DEF Settled, Requeued
  <2>4. QED
    BY <2>1, <2>2, <2>3, StillIInv DEF IInv, OrphanInv
<1>4. ASSUME Delete PROVE IInv'
  <2>1. /\ Rows \in SUBSET Targets /\ Unrow(Rows)
        /\ UNCHANGED <<at, job, saw, answer, posts>>
        /\ status' = [t \in Targets |-> "absent"]
    BY <1>4 DEF Delete, Rows
  <2>2. \A t \in Targets \ Rows : status[t] = "absent"
    BY DEF Rows
  <2>3. QED
    BY <2>1, <2>2, UnrowIInv DEF Unrow
<1>5. ASSUME NEW wanted \in SUBSET Targets, SaveSelection(wanted) PROVE IInv'
  <2>1. /\ Rows \ wanted \in SUBSET Targets
        /\ orphan' = orphan \union {w \in Workers : Live(w) /\ job[w] \in Rows \ wanted}
        /\ disturbed' = disturbed \union {t \in Rows \ wanted : InFlight(t)}
                                  \union {t \in wanted \ Rows : posts[t] > 0}
        /\ UNCHANGED <<at, job, saw, answer, posts>>
        /\ status' = [t \in Targets |-> IF t \notin wanted THEN "absent"
                                        ELSE IF t \in Rows THEN status[t] ELSE "pending"]
    BY <1>5 DEF SaveSelection, Selected, Rows
  <2>2. \A t \in Targets \ Rows : status[t] = "absent"
    BY DEF Rows
  <2>3. \A t \in wanted \ Rows : posts[t] = 0 \/ t \in disturbed'
    BY <2>1 DEF TypeOK
  <2> DEFINE S == Rows \ wanted
  <2>4. /\ S \in SUBSET Targets
        /\ orphan' = orphan \union {w \in Workers : Live(w) /\ job[w] \in S}
        /\ disturbed \union {t \in S : InFlight(t)} \subseteq disturbed'
        /\ \A t \in S : status'[t] = "absent"
    BY <2>1
  <2>5. \A t \in Targets \ S :
           \/ status'[t] = status[t]
           \/ /\ status[t] = "absent" /\ status'[t] = "pending"
              /\ posts[t] = 0 \/ t \in disturbed'
    BY <2>1, <2>2, <2>3
  <2> HIDE DEF S
  <2>6. QED
    BY <2>1, <2>4, <2>5, UnrowIInv
<1>6. ASSUME NEW dropped \in SUBSET Targets, DropGroups(dropped) PROVE IInv'
  <2> DEFINE removed == {t \in Rows \intersect dropped : status[t] # "succeeded"}
  <2>1. /\ removed \in SUBSET Targets /\ Unrow(removed)
        /\ UNCHANGED <<at, job, saw, answer, posts>>
        /\ status' = [t \in Targets |-> IF t \in removed THEN "absent" ELSE status[t]]
    BY <1>6 DEF DropGroups, Rows
  <2> HIDE DEF removed
  <2>2. QED
    BY <2>1, UnrowIInv DEF Unrow
<1>7. QED
  BY <1>1, <1>2, <1>3, <1>4, <1>5, <1>6 DEF Customer

LEMMA StepIInv == TypeOK /\ TypeOK' /\ IInv /\ [Next]_vars => IInv'
<1> SUFFICES ASSUME TypeOK, TypeOK', IInv, [Next]_vars PROVE IInv'
  OBVIOUS
<1>1. CASE UNCHANGED vars
  BY <1>1 DEF vars, ad, rows, links, tasks, group, IInv, AnswerInv, OrphanInv,
     UniqueInv, OwnerInv, PostedOnce, RecordsMatchPosts, Sure, Live, Reached, Rows, InFlight
<1>2. CASE Next
  BY <1>2, WorkIInv, CrashIInv, SchedulerIInv, CustomerIInv, ElsewhereIInv DEF Next
<1>3. QED
  BY <1>1, <1>2

THEOREM InductiveInvariant == Spec => []IInv
<1>1. Init => IInv
  BY InitIInv
<1>2. QED
  BY <1>1, StepIInv, TypeCorrect, PTL DEF Spec

\* However deliveries, sweeps and commands interleave, a group is posted to at
\* most once a round unless the code lost track of an attempt there.
THEOREM PostsOnce == Spec => []PostedOnce
<1>1. IInv => PostedOnce
  BY DEF IInv
<1>2. QED
  BY <1>1, InductiveInvariant, PTL

\* A row nobody works on says "succeeded" exactly when its group got the ad.
THEOREM RecordsTell == Spec => []RecordsMatchPosts
<1>1. IInv => RecordsMatchPosts
  BY DEF IInv
<1>2. QED
  BY <1>1, InductiveInvariant, PTL

-----------------------------------------------------------------------------
-----------------------------------------------------------------------------
(* A round is settled once. *)

\* Counting is done under the row's lock, which a task keeps to its commit.
CountInv == /\ \A w \in Workers : last[w] => at[w] = "counted"
            /\ \A v, w \in Workers :
                   at[v] = "counted" /\ at[w] = "counted" /\ job[v] = job[w] => v = w
            /\ SettledOnce

\* Nobody but its task writes a row that is counted, or its group is disturbed.
LEMMA SameCounts ==
  ASSUME CountInv, \A w \in Workers : last'[w] => at'[w] = "counted",
         \A w \in Workers : at'[w] = "counted" =>
             /\ at[w] = "counted" /\ job'[w] = job[w] /\ last'[w] = last[w]
             /\ \/ job[w] \in disturbed'
                \/ status'[job[w]] = status[job[w]] /\ job[w] \notin disturbed
  PROVE  CountInv'
  BY DEF CountInv, SettledOnce

\* The tasks keep what they have counted while the locked rows stay.
LEMMA LockedRowsStay ==
  ASSUME CountInv, UNCHANGED <<at, job, last>>, disturbed \subseteq disturbed',
         \A w \in Workers : at[w] = "counted" => status'[job[w]] = status[job[w]]
  PROVE  CountInv'
<1>1. \A w \in Workers : last'[w] => at'[w] = "counted"
  BY DEF CountInv
<1>2. QED
  BY <1>1, SameCounts

LEMMA RestCounts ==
  ASSUME TypeOK, CountInv, NEW w \in Workers, Rest(w),
         \A v \in Workers \ {w} : at[v] = "counted" =>
             \/ job[v] \in disturbed'
             \/ status'[job[v]] = status[job[v]] /\ job[v] \notin disturbed
  PROVE  CountInv'
<1>1. /\ at'[w] = "idle" /\ last'[w] = FALSE
      /\ \A v \in Workers \ {w} : at'[v] = at[v] /\ job'[v] = job[v] /\ last'[v] = last[v]
  BY DEF Rest, TypeOK
<1>2. \A v \in Workers : last'[v] => at'[v] = "counted"
  BY <1>1 DEF CountInv
<1>3. QED
  BY <1>1, <1>2, SameCounts

\* settle's count: what another task has counted is, by this count, no longer
\* leased; so it was cancelled under that task.
LEMMA CountCounts ==
  ASSUME TypeOK, IInv, CountInv, NEW w \in Workers, Count(w)
  PROVE  CountInv'
<1>1. /\ at[w] = "answered" /\ ~Locked(job[w])
      /\ at' = [at EXCEPT ![w] = "counted"]
      /\ last' = [last EXCEPT ![w] = (Remaining(w) = {})]
      /\ UNCHANGED <<status, job, disturbed>>
  BY DEF Count, rows, group
<1>2. \A v \in Workers \ {w} : at'[v] = at[v] /\ last'[v] = last[v]
  BY <1>1 DEF TypeOK
<1>3. at'[w] = "counted"
  BY <1>1 DEF TypeOK
<1>4. \A v \in Workers : last'[v] => at'[v] = "counted"
  BY <1>2, <1>3 DEF CountInv
<1>5. \A v \in Workers \ {w} : at[v] = "counted" => job[v] # job[w]
  BY <1>1 DEF Locked
<1>6. \A u, v \in Workers :
          at'[u] = "counted" /\ at'[v] = "counted" /\ job'[u] = job'[v] => u = v
  BY <1>1, <1>2, <1>5 DEF CountInv
<1>7. ASSUME NEW v \in Workers \ {w}, last[v], last'[w]
      PROVE  job[v] \in disturbed \/ status[job[v]] = "skipped"
  <2>1. at[v] = "counted" /\ Remaining(w) = {}
    BY <1>1, <1>7 DEF CountInv, TypeOK
  <2>2. job[v] \in Targets /\ job[v] # job[w]
    BY <1>5, <2>1 DEF TypeOK
  <2>3. status[job[v]] # "leased"
    BY <2>1, <2>2 DEF Remaining, Unfinished
  <2>4. QED
    BY <2>1, <2>3 DEF IInv, OwnerInv, Sure, Live
<1>8. SettledOnce'
  <2> SUFFICES ASSUME NEW u \in Workers, NEW v \in Workers, u # v, last'[u], last'[v]
               PROVE  \/ {job[u], job[v]} \intersect disturbed # {}
                      \/ "skipped" \in {status[job[u]], status[job[v]]}
    BY <1>1 DEF SettledOnce
  <2>1. CASE u = w
    BY <1>2, <1>7, <2>1
  <2>2. CASE v = w
    BY <1>2, <1>7, <2>2
  <2>3. CASE u # w /\ v # w
    BY <1>2, <2>3 DEF CountInv, SettledOnce
  <2>4. QED
    BY <2>1, <2>2, <2>3
<1>9. QED
  BY <1>4, <1>6, <1>8 DEF CountInv

LEMMA WorkCounts ==
  ASSUME TypeOK, IInv, CountInv, NEW w \in Workers, Work(w) \/ Crash(w)
  PROVE  CountInv'
<1>1. CASE \E t \in Targets : Claim(w, t)
  <2>1. PICK t \in Targets : Claim(w, t)
    BY <1>1
  <2>2. /\ at[w] = "idle" /\ ~Locked(t) /\ UNCHANGED <<last, disturbed>>
        /\ status' = [status EXCEPT ![t] = "leased"]
        /\ at' = [at EXCEPT ![w] = "claimed"] /\ job' = [job EXCEPT ![w] = t]
    BY <2>1 DEF Claim, group
  <2>3. \A v \in Workers : at'[v] = "counted" =>
            /\ at[v] = "counted" /\ job'[v] = job[v] /\ job[v] # t
            /\ status'[job[v]] = status[job[v]]
    BY <2>2 DEF TypeOK, Locked
  <2>4. \A v \in Workers : last'[v] => at'[v] = "counted"
    BY <2>2 DEF CountInv, TypeOK
  <2>5. QED
    BY <2>2, <2>3, <2>4, SameCounts
<1>2. CASE Load(w) \/ \E a \in Answers \union {"barred"} : Attempt(w, a)
  <2>1. /\ at[w] \in {"claimed", "loaded"}
        /\ \E s \in {"loaded", "answered"} : at' = [at EXCEPT ![w] = s]
        /\ UNCHANGED <<status, job, last>> /\ disturbed \subseteq disturbed'
    BY <1>2 DEF Load, Attempt, rows, group
  <2>2. \A v \in Workers : at'[v] = "counted" => at[v] = "counted"
    BY <2>1 DEF TypeOK
  <2>3. \A v \in Workers : last'[v] => at'[v] = "counted"
    BY <2>1 DEF CountInv, TypeOK
  <2>4. QED
    BY <2>1, <2>2, <2>3, SameCounts
<1>3. CASE Record(w)
  <2>1. Rest(w) /\ status' = [status EXCEPT ![job[w]] = Written(w)] /\ disturbed' = disturbed
    BY <1>3 DEF Record, group
  <2>2. \A v \in Workers \ {w} : at[v] = "counted" => job[v] # job[w]
    BY <1>3 DEF Record, CountInv, Locked
  <2>3. QED
    BY <2>1, <2>2, RestCounts DEF TypeOK
<1>4. CASE Settle(w)
  <2>1. CASE Repeats
    <3>1. /\ Rest(w)
          /\ disturbed' = {t \in Targets : \E v \in Workers \ {w} : Live(v) /\ job[v] = t}
      BY <1>4, <2>1 DEF Settle, StartRound
    <3>2. \A v \in Workers \ {w} : at[v] = "counted" => job[v] \in disturbed'
      BY <3>1 DEF Live, TypeOK
    <3>3. QED
      BY <3>1, <3>2, RestCounts
  <2>2. CASE ~Repeats
    <3>1. Rest(w) /\ status' = [status EXCEPT ![job[w]] = Written(w)] /\ disturbed' = disturbed
      BY <1>4, <2>2 DEF Settle, group
    <3>2. \A v \in Workers \ {w} : at[v] = "counted" => job[v] # job[w]
      BY <1>4 DEF Settle, CountInv
    <3>3. QED
      BY <3>1, <3>2, RestCounts DEF TypeOK
  <2>3. QED
    BY <2>1, <2>2
<1>5. CASE LoseSession(w)
  <2>1. /\ Rest(w) /\ Free(Open \union {job[w]}) /\ disturbed' = disturbed
        /\ status' = [CancelOpen EXCEPT ![job[w]] = "failed"]
    BY <1>5 DEF LoseSession, group
  <2>2. \A v \in Workers : at[v] = "counted" =>
            job[v] \in Targets /\ job[v] # job[w] /\ job[v] \notin Open
    BY <2>1 DEF Free, Locked, TypeOK
  <2>3. QED
    BY <2>1, <2>2, RestCounts DEF CancelOpen
<1>6. CASE Abandon(w) \/ NoAdapter(w) \/ Crash(w)
  <2>1. Rest(w) /\ status' = status /\ disturbed \subseteq disturbed'
    BY <1>6 DEF Abandon, NoAdapter, Crash, rows, group
  <2>2. QED
    BY <2>1, RestCounts
<1>7. QED
  BY <1>1, <1>2, <1>3, <1>4, <1>5, <1>6, CountCounts DEF Work

LEMMA OtherCounts ==
  ASSUME TypeOK, IInv, CountInv, Scheduler \/ Customer \/ Elsewhere
  PROVE  CountInv'
<1>1. UNCHANGED <<at, job, last>>
  BY DEF Scheduler, Sweep, WaitEnds, StartScheduled, Customer, Send, Pause, Edit, Resume, Cancel,
     Retry, Delete, SaveSelection, DropGroups, Elsewhere, PauseConnection, LoseConnection,
     Reconnect, Suspend, Reinstate, tasks
<1>2. \A w \in Workers : at[w] = "counted" => job[w] \in Targets /\ Locked(job[w]) /\ Live(w)
  BY DEF TypeOK, Locked, Live
<1>3. CASE UNCHANGED <<status, disturbed>>
  BY <1>1, <1>3, LockedRowsStay
<1>4. CASE Scheduler
  <2>1. ASSUME NEW expired \in SUBSET Expirable, Sweep(expired) PROVE CountInv'
    <3>1. disturbed \subseteq disturbed' /\ \A t \in Targets : Locked(t) => status'[t] = status[t]
      BY <2>1 DEF Sweep, Expirable
    <3>2. QED
      BY <1>1, <1>2, <3>1, LockedRowsStay
  <2>2. QED
    BY <1>3, <1>4, <2>1 DEF Scheduler, WaitEnds, StartScheduled, Queue, group, rows
<1>5. CASE Send
  <2>1. CASE bstatus \in {"completed", "cancelled"}
    <3>1. disturbed' = {t \in Targets : InFlight(t)}
      BY <1>5, <2>1 DEF Send, StartRound
    <3>2. \A w \in Workers : at[w] = "counted" => job[w] \in disturbed'
      BY <1>2, <3>1 DEF InFlight
    <3>3. \A w \in Workers : last'[w] => at'[w] = "counted"
      BY <1>1 DEF CountInv
    <3>4. QED
      BY <1>1, <3>2, <3>3, SameCounts
  <2>2. CASE bstatus \notin {"completed", "cancelled"}
    BY <1>3, <1>5, <2>2 DEF Send, Queue, group, rows
  <2>3. QED
    BY <2>1, <2>2
<1>6. CASE Pause \/ Edit \/ Resume \/ LoseConnection \/ Reconnect \/ Reinstate
  BY <1>3, <1>6 DEF Pause, Edit, Resume, LoseConnection, Reconnect, Reinstate, group, rows
<1>7. CASE Cancel \/ PauseConnection \/ Suspend
  <2>1. /\ Free(Open) /\ status' = CancelOpen /\ disturbed' = disturbed
    BY <1>7 DEF Cancel, PauseConnection, Suspend, group
  <2>2. \A t \in Targets : Locked(t) => status'[t] = status[t]
    BY <2>1 DEF Free, CancelOpen
  <2>3. QED
    BY <1>1, <1>2, <2>1, <2>2, LockedRowsStay
<1>8. CASE Retry
  <2>1. /\ Free(Requeued) /\ disturbed \subseteq disturbed'
        /\ status' = [t \in Targets |-> IF t \in Requeued THEN "pending" ELSE status[t]]
    BY <1>8 DEF Retry, Free
  <2>2. \A t \in Targets : Locked(t) => status'[t] = status[t]
    BY <2>1 DEF Free
  <2>3. QED
    BY <1>1, <1>2, <2>1, <2>2, LockedRowsStay
<1>9. CASE Delete
  <2>1. /\ Free(Rows) /\ status' = [t \in Targets |-> "absent"] /\ disturbed \subseteq disturbed'
    BY <1>9 DEF Delete, Unrow
  <2>2. \A t \in Targets : Locked(t) => status'[t] = status[t]
    BY <2>1 DEF Free, Rows
  <2>3. QED
    BY <1>1, <1>2, <2>1, <2>2, LockedRowsStay
<1>10. ASSUME NEW dropped \in SUBSET Targets, DropGroups(dropped) PROVE CountInv'
  <2> DEFINE removed == {t \in Rows \intersect dropped : status[t] # "succeeded"}
  <2>1. /\ Free(removed) /\ disturbed \subseteq disturbed'
        /\ status' = [t \in Targets |-> IF t \in removed THEN "absent" ELSE status[t]]
    BY <1>10 DEF DropGroups, Unrow
  <2>2. \A t \in Targets : Locked(t) => status'[t] = status[t]
    BY <2>1 DEF Free
  <2>3. QED
    BY <1>1, <1>2, <2>1, <2>2, LockedRowsStay
<1>11. ASSUME NEW wanted \in SUBSET Targets, SaveSelection(wanted) PROVE CountInv'
  <2>1. /\ Free(Rows \ wanted) /\ disturbed \subseteq disturbed'
        /\ status' = [t \in Targets |-> Selected(t, wanted)]
    BY <1>11 DEF SaveSelection
  <2>2. ASSUME NEW w \in Workers, at[w] = "counted"
        PROVE  \/ job[w] \in disturbed'
               \/ status'[job[w]] = status[job[w]] /\ job[w] \notin disturbed
    <3>1. CASE job[w] \in disturbed
      BY <2>1, <3>1
    <3>2. CASE job[w] \notin disturbed
      <4>1. job[w] \in Rows
        BY <1>2, <2>2, <3>2 DEF IInv, OwnerInv, Sure, Rows
      <4>2. job[w] \in wanted
        BY <1>2, <2>1, <2>2, <4>1 DEF Free
      <4>3. QED
        BY <1>2, <2>1, <2>2, <3>2, <4>1, <4>2 DEF Selected, Rows
    <3>3. QED
      BY <3>1, <3>2
  <2>3. \A w \in Workers : last'[w] => at'[w] = "counted"
    BY <1>1 DEF CountInv
  <2>4. QED
    BY <1>1, <2>2, <2>3, SameCounts
<1>12. QED
  BY <1>4, <1>5, <1>6, <1>7, <1>8, <1>9, <1>10, <1>11 DEF Customer, Elsewhere

\* A round is closed by one task, however deliveries, sweeps and commands
\* interleave, unless a row was lost track of or cancelled under its task
\* (services/broadcast.py, settle).
THEOREM RoundsAreSettledOnce == Spec => []SettledOnce
<1>1. Init => CountInv
  BY DEF Init, CountInv, SettledOnce
<1>2. TypeOK /\ IInv /\ CountInv /\ [Next]_vars => CountInv'
  <2> SUFFICES ASSUME TypeOK, IInv, CountInv, [Next]_vars PROVE CountInv'
    OBVIOUS
  <2>1. CASE UNCHANGED vars
    BY <2>1, LockedRowsStay DEF vars, rows, tasks, group
  <2>2. CASE Next
    BY <2>2, WorkCounts, OtherCounts DEF Next
  <2>3. QED
    BY <2>1, <2>2
<1>3. CountInv => SettledOnce
  BY DEF CountInv
<1>4. QED
  BY <1>1, <1>2, <1>3, TypeCorrect, InductiveInvariant, PTL DEF Spec

=============================================================================
