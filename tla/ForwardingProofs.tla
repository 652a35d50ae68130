-------------------------- MODULE ForwardingProofs --------------------------
(***************************************************************************)
(* What Forwarding guarantees for any number of messages, chats, tasks and   *)
(* dispatches, and any number of commands, crashes, stalls and outages.      *)
(***************************************************************************)
EXTENDS Forwarding, TLAPS

USE MatchingAssumption, NoJobAssumption, LimitsAssumption,
    AnswersAssumption, BudgetAssumption
    DEF MatchingAssumption, NoJobAssumption, LimitsAssumption,
        AnswersAssumption, BudgetAssumption

LEMMA InitTypeOK == Init => TypeOK
<1> SUFFICES ASSUME Init PROVE TypeOK
  OBVIOUS
<1>1. Blank \in Snapshot
  BY DEF Blank, Snapshot, JobStatus
<1>2. active \in BOOLEAN /\ token \in BOOLEAN
  BY Zenon DEF Init
<1>3. rstatus \in RuleStatus /\ version \in Nat /\ keyworded \in BOOLEAN
      /\ dests \subseteq Chats /\ postable \subseteq Chats
      /\ conn \in {"active", "paused_safety", "off"}
      /\ top \in Nat /\ muddled \subseteq Nat
  BY DEF Init, RuleStatus
<1>4. status \in [Jobs -> JobStatus] /\ jversion \in [Jobs -> Nat]
      /\ tries \in [Jobs -> 0..MaxAttempts]
  BY DEF Init, JobStatus
<1>5. heard \in [Listeners -> Read \union {Nothing}] /\ form \in [Editors -> Form \union {Nothing}]
  BY DEF Init
<1>6. at \in [Workers -> Stages] /\ job \in [Workers -> Jobs \union {NoJob}]
      /\ (\A w \in Workers : job[w] = NoJob <=> at[w] = "idle")
      /\ saw \in [Workers -> Snapshot]
      /\ answer \in [Workers -> AllAnswers \union {"barred", "denied", "none"}]
      /\ orphan \subseteq Workers
  BY <1>1 DEF Init, Stages
<1>7. posts \in [Jobs -> 0..2] /\ disturbed \subseteq Jobs /\ budget \in [Kinds -> Nat]
  BY DEF Init
<1>8. QED
  BY <1>2, <1>3, <1>4, <1>5, <1>6, <1>7 DEF TypeOK

\* Spending a unit of a budget leaves every budget a natural number.
LEMMA SpendType ==
  ASSUME TypeOK, NEW kind \in Kinds, Spend(kind)
  PROVE  budget' \in [Kinds -> Nat]
  BY DEF TypeOK, Spend

\* Putting a task to rest keeps the types of the task variables.
LEMMA RestType ==
  ASSUME TypeOK, NEW w \in Workers, Rest(w)
  PROVE  /\ at' \in [Workers -> Stages]
         /\ job' \in [Workers -> Jobs \union {NoJob}]
         /\ \A v \in Workers : job'[v] = NoJob <=> at'[v] = "idle"
         /\ saw' \in [Workers -> Snapshot]
         /\ answer' \in [Workers -> AllAnswers \union {"barred", "denied", "none"}]
         /\ orphan' \subseteq Workers
<1>1. Blank \in Snapshot
  BY DEF Blank, Snapshot, JobStatus
<1>2. QED
  BY <1>1 DEF TypeOK, Rest, Stages

\* A row is written with a status, whatever the attempt came to.
LEMMA WrittenType ==
  ASSUME TypeOK, NEW w \in Workers, job[w] \in Jobs
  PROVE  Written(w) \in JobStatus
<1>1. Outcome(w) \in JobStatus
  BY DEF Outcome, JobStatus
<1>2. QED
  BY <1>1 DEF Written, TypeOK

\* Cancelling the queue and stopping the rule keep types.
LEMMA StopTypes ==
  ASSUME TypeOK
  PROVE  Cancelled \in [Jobs -> JobStatus] /\ Stopped \in RuleStatus
  BY DEF TypeOK, Cancelled, Stopped, JobStatus, RuleStatus

LEMMA ListenerType ==
  ASSUME TypeOK, NEW l \in Listeners,
         (\E m \in Messages : Hear(l, m)) \/ Dispatch(l) \/ Forget(l)
  PROVE  TypeOK'
<1>1. ASSUME NEW m \in Messages, Hear(l, m) PROVE TypeOK'
  <2>1. [message |-> m, version |-> version, dests |-> dests] \in Read
    BY DEF TypeOK, Read
  <2>2. heard' \in [Listeners -> Read \union {Nothing}]
    BY <1>1, <2>1 DEF Hear, TypeOK
  <2>3. QED
    BY <1>1, <2>2 DEF Hear, TypeOK, rule, links, rows, edits, tasks, group
<1>2. ASSUME Dispatch(l) PROVE TypeOK'
  <2>1. heard[l] \in Read
    BY <1>2 DEF Dispatch, TypeOK
  <2>2. status' \in [Jobs -> JobStatus]
    BY <1>2 DEF Dispatch, TypeOK, JobStatus
  <2>3. jversion' \in [Jobs -> Nat]
    BY <1>2, <2>1 DEF Dispatch, TypeOK, Read
  <2>4. heard' \in [Listeners -> Read \union {Nothing}]
    BY <1>2 DEF Dispatch, TypeOK
  <2>5. QED
    BY <1>2, <2>2, <2>3, <2>4 DEF Dispatch, TypeOK, rule, links, edits, tasks, group
<1>3. ASSUME Forget(l) PROVE TypeOK'
  BY <1>3 DEF Forget, TypeOK, rule, links, rows, edits, tasks, group
<1>4. QED
  BY <1>1, <1>2, <1>3

LEMMA WorkType ==
  ASSUME TypeOK, NEW w \in Workers, Work(w)
  PROVE  TypeOK'
<1>1. ASSUME NEW j \in Jobs, Claim(w, j) PROVE TypeOK'
  BY <1>1 DEF Claim, TypeOK, JobStatus, Stages, rule, links, readers, edits, group
<1>2. ASSUME Load(w) PROVE TypeOK'
  <2>1. job[w] \in Jobs
    BY <1>2 DEF Load, TypeOK
  <2>2. [conn |-> conn = "active", status |-> status[job[w]],
         tries |-> tries[job[w]], current |-> FALSE] \in Snapshot
    BY <2>1 DEF TypeOK, Snapshot
  <2>3. QED
    BY <1>2, <2>2 DEF Load, TypeOK, Stages, rule, links, rows, readers, edits, group
<1>3. ASSUME Check(w) PROVE TypeOK'
  <2>1. saw' \in [Workers -> Snapshot]
    <3>1. [saw EXCEPT ![w].current = TRUE] \in [Workers -> Snapshot]
      <4>1. saw \in [Workers -> Snapshot]
        BY DEF TypeOK
      <4>2. [saw[w] EXCEPT !.current = TRUE] \in Snapshot
        BY <4>1 DEF Snapshot
      <4>3. QED
        BY <4>1, <4>2
    <3>2. saw' = [saw EXCEPT ![w].current = TRUE] \/ saw' = saw
      BY <1>3 DEF Check
    <3>3. QED
      BY <3>1, <3>2 DEF TypeOK
  <2>2. answer' \in [Workers -> AllAnswers \union {"barred", "denied", "none"}]
    BY <1>3 DEF Check, TypeOK
  <2>3. at' \in [Workers -> Stages] /\ \A v \in Workers : job[v] = NoJob <=> at'[v] = "idle"
    BY <1>3 DEF Check, TypeOK, Stages
  <2>4. QED
    BY <1>3, <2>1, <2>2, <2>3 DEF Check, TypeOK, rule, links, rows, readers, edits, group
<1>4. ASSUME NEW a \in Answers, Attempt(w, a) PROVE TypeOK'
  <2>1. job[w] \in Jobs
    BY <1>4 DEF Attempt, TypeOK
  <2>2. posts' \in [Jobs -> 0..2]
    BY <1>4 DEF Attempt, TypeOK
  <2>3. disturbed' \subseteq Jobs
    BY <1>4, <2>1 DEF Attempt, TypeOK
  <2>4. QED
    BY <1>4, <2>2, <2>3 DEF Attempt, TypeOK, Stages, rule, links, rows, readers, edits
<1>5. ASSUME NEW old \in SUBSET Jobs, Commit(w, old) PROVE TypeOK'
  <2>1. job[w] \in Jobs
    BY <1>5 DEF Commit, TypeOK
  <2>2. status' \in [Jobs -> JobStatus]
    BY <1>5, <2>1, WrittenType DEF Commit, TypeOK
  <2>3. tries' \in [Jobs -> 0..MaxAttempts]
    BY <1>5, <2>1 DEF Commit, TypeOK, Snapshot
  <2>4. postable' \subseteq Chats
    BY <1>5 DEF Commit, TypeOK
  <2>5. rstatus' \in RuleStatus
    BY <1>5 DEF Commit, TypeOK, RuleStatus
  <2>6. QED
    BY <1>5, <2>2, <2>3, <2>4, <2>5, RestType DEF Commit, TypeOK, readers, edits, group
<1>6. ASSUME LoseSession(w) PROVE TypeOK'
  <2>1. status' \in [Jobs -> JobStatus]
    BY <1>6, StopTypes DEF LoseSession, JobStatus
  <2>2. QED
    BY <1>6, <2>1, StopTypes, RestType DEF LoseSession, TypeOK, readers, edits, group
<1>7. ASSUME Abandon(w) \/ NoAdapter(w) PROVE TypeOK'
  BY <1>7, RestType DEF Abandon, NoAdapter, TypeOK, rule, links, rows, readers, edits, group
<1>8. QED
  BY <1>1, <1>2, <1>3, <1>4, <1>5, <1>6, <1>7 DEF Work

LEMMA CrashType ==
  ASSUME TypeOK, NEW w \in Workers, Crash(w)
  PROVE  TypeOK'
<1>1. job[w] \in Jobs
  BY DEF Crash, Live, TypeOK
<1>2. disturbed' \subseteq Jobs
  BY <1>1 DEF Crash, TypeOK
<1>3. budget' \in [Kinds -> Nat]
  BY SpendType DEF Crash, Kinds
<1>4. QED
  BY <1>2, <1>3, RestType DEF Crash, TypeOK, rule, links, rows, readers, edits

LEMMA ReclaimType ==
  ASSUME TypeOK, NEW expired \in SUBSET Expirable, Reclaim(expired)
  PROVE  TypeOK'
<1>1. status' \in [Jobs -> JobStatus] /\ disturbed' \subseteq Jobs
  BY DEF Reclaim, Expirable, TypeOK, JobStatus
<1>2. budget' \in [Kinds -> Nat]
  BY SpendType DEF Reclaim, TypeOK, Kinds
<1>3. QED
  BY <1>1, <1>2 DEF Reclaim, TypeOK, rule, links, readers, edits, tasks

LEMMA CustomerType ==
  ASSUME TypeOK, Customer
  PROVE  TypeOK'
<1>1. ASSUME Command PROVE budget' \in [Kinds -> Nat]
  BY <1>1, SpendType DEF Command, Kinds
<1>2. ASSUME Activate PROVE TypeOK'
  BY <1>1, <1>2 DEF Activate, TypeOK, RuleStatus, links, rows, readers, edits, tasks, group
<1>3. ASSUME Pause PROVE TypeOK'
  BY <1>1, <1>3, StopTypes DEF Pause, TypeOK, RuleStatus, links, readers, edits, tasks, group
<1>4. ASSUME Delete PROVE TypeOK'
  <2>1. status' \in [Jobs -> JobStatus] /\ jversion' \in [Jobs -> Nat]
        /\ tries' \in [Jobs -> 0..MaxAttempts]
    BY <1>4 DEF Delete, JobStatus
  <2>2. orphan' \subseteq Workers /\ disturbed' \subseteq Jobs
    BY <1>4 DEF Delete, TypeOK
  <2>3. QED
    BY <1>1, <1>4, <2>1, <2>2 DEF Delete, TypeOK, RuleStatus, links, readers, edits
<1>5. ASSUME Retry PROVE TypeOK'
  <2>1. status' \in [Jobs -> JobStatus] /\ tries' \in [Jobs -> 0..MaxAttempts]
    BY <1>5 DEF Retry, TypeOK, JobStatus
  <2>2. QED
    BY <1>1, <1>5, <2>1 DEF Retry, TypeOK, rule, links, readers, edits, tasks
<1>6. ASSUME NEW e \in Editors, OpenEdit(e) PROVE TypeOK'
  <2>1. [version |-> version, keyworded |-> keyworded] \in Form
    BY DEF TypeOK, Form
  <2>2. form' \in [Editors -> Form \union {Nothing}]
    BY <1>6, <2>1 DEF OpenEdit, TypeOK
  <2>3. QED
    BY <1>1, <1>6, <2>2 DEF OpenEdit, TypeOK, rule, links, rows, tasks, group
<1>7. ASSUME NEW e \in Editors, DropEdit(e) PROVE TypeOK'
  BY <1>7 DEF DropEdit, TypeOK, rule, links, rows, tasks, group
<1>8. ASSUME NEW e \in Editors, NEW k \in BOOLEAN, NEW chosen \in SUBSET Chats,
             SaveEdit(e, k, chosen)
      PROVE  TypeOK'
  <2>1. form[e] \in Form
    BY <1>8 DEF SaveEdit, TypeOK
  <2>2. version' \in Nat /\ keyworded' \in BOOLEAN /\ top' \in Nat /\ muddled' \subseteq Nat
    BY <1>8, <2>1 DEF SaveEdit, NextVersion, TypeOK, Form
  <2>3. saw' \in [Workers -> Snapshot]
    <3>1. ASSUME NEW w \in Workers PROVE [saw[w] EXCEPT !.current = FALSE] \in Snapshot
      <4>1. saw[w] \in Snapshot
        BY DEF TypeOK
      <4>2. QED
        BY <4>1 DEF Snapshot
    <3>2. QED
      BY <1>8, <3>1 DEF SaveEdit
  <2>4. form' \in [Editors -> Form \union {Nothing}]
    BY <1>8 DEF SaveEdit, TypeOK
  <2>5. QED
    BY <1>8, <2>2, <2>3, <2>4 DEF SaveEdit, TypeOK, links, rows, group
<1>9. QED
  BY <1>2, <1>3, <1>4, <1>5, <1>6, <1>7, <1>8 DEF Customer

LEMMA ElsewhereType ==
  ASSUME TypeOK, Elsewhere
  PROVE  TypeOK'
<1>1. ASSUME Spend("outage") PROVE budget' \in [Kinds -> Nat]
  BY <1>1, SpendType DEF Kinds
<1>2. ASSUME PauseConnection PROVE TypeOK'
  BY <1>1, <1>2, StopTypes DEF PauseConnection, TypeOK, readers, edits, tasks, group
<1>3. ASSUME Disconnect PROVE TypeOK'
  BY <1>1, <1>3, StopTypes DEF Disconnect, TypeOK, RuleStatus, readers, edits, tasks, group
<1>4. ASSUME FailHealth PROVE TypeOK'
  BY <1>1, <1>4 DEF FailHealth, TypeOK, rule, rows, readers, edits, tasks, group
<1>5. ASSUME Reconnect PROVE TypeOK'
  BY <1>5 DEF Reconnect, TypeOK, rule, rows, readers, edits, tasks, group
<1>6. ASSUME Suspend PROVE TypeOK'
  BY <1>1, <1>6, StopTypes DEF Suspend, TypeOK, readers, edits, tasks, group
<1>7. ASSUME Reinstate PROVE TypeOK'
  BY <1>7 DEF Reinstate, TypeOK, rule, rows, readers, edits, tasks, group
<1>8. ASSUME NEW d \in Chats, Synchronize(d) PROVE TypeOK'
  <2>1. postable' \subseteq Chats /\ budget' \in [Kinds -> Nat]
    BY <1>1, <1>8 DEF Synchronize, TypeOK
  <2>2. QED
    BY <1>8, <2>1 DEF Synchronize, TypeOK, rule, rows, readers, edits, tasks, group
<1>9. QED
  BY <1>2, <1>3, <1>4, <1>5, <1>6, <1>7, <1>8 DEF Elsewhere

LEMMA StepTypeOK == TypeOK /\ [Next]_vars => TypeOK'
<1> SUFFICES ASSUME TypeOK, [Next]_vars PROVE TypeOK'
  OBVIOUS
<1>1. CASE UNCHANGED vars
  BY <1>1 DEF vars, rule, links, rows, readers, edits, tasks, group, TypeOK
<1>2. CASE Next
  BY <1>2, ListenerType, WorkType, CrashType, ReclaimType, CustomerType, ElsewhereType DEF Next
<1>3. QED
  BY <1>1, <1>2

\* Every variable keeps its type in every behaviour of the listener, the worker,
\* the scheduler, the customer and the rest; only an idle task has no job.
THEOREM TypeCorrect == Spec => []TypeOK
<1>1. QED
  BY InitTypeOK, StepTypeOK, PTL DEF Spec

-----------------------------------------------------------------------------
(* What carries the present version fits the rule, unless edits overlapped. *)

LEMMA InitVersions == Init => VersionsTell
<1> SUFFICES ASSUME Init PROVE VersionsTell
  OBVIOUS
<1>1. \A j \in Jobs : jversion[j] = 0 /\ version = 1 /\ top = 1 /\ muddled = {}
  BY DEF Init
<1>2. QED
  BY <1>1 DEF Init, VersionsTell

\* A step that leaves the rule's text, the versions and the readers alone keeps
\* VersionsTell if it clears no task for a send and deletes no row.
LEMMA SameVersions ==
  ASSUME TypeOK, VersionsTell,
         UNCHANGED <<version, keyworded, dests, jversion, readers>>,
         \A j \in Jobs : status'[j] = "absent" => status[j] = "absent",
         \A w \in Workers : at'[w] = "cleared" /\ saw'[w].current /\ w \notin orphan' =>
             at[w] = "cleared" /\ saw[w].current /\ job'[w] = job[w] /\ w \notin orphan
  PROVE  VersionsTell'
<1>1. UNCHANGED <<heard, form, top, muddled>>
  BY DEF readers, edits
<1>2. QED
  BY <1>1 DEF VersionsTell, Fits, Passes

LEMMA ListenerVersions ==
  ASSUME TypeOK, VersionsTell, NEW l \in Listeners,
         (\E m \in Messages : Hear(l, m)) \/ Dispatch(l) \/ Forget(l)
  PROVE  VersionsTell'
<1>1. ASSUME NEW m \in Messages, Hear(l, m) PROVE VersionsTell'
  <2>1. UNCHANGED <<version, keyworded, dests, status, jversion, form, top, muddled,
                    at, saw, job, orphan>>
    BY <1>1 DEF Hear, rule, rows, edits, tasks
  <2>2. Passes(m) /\ heard' = [heard EXCEPT ![l] = [message |-> m, version |-> version, dests |-> dests]]
    BY <1>1 DEF Hear
  <2>3. version <= top
    BY DEF VersionsTell, TypeOK
  <2>4. ASSUME NEW k \in Listeners, heard'[k] # Nothing
        PROVE  /\ heard'[k].version <= top
               /\ heard'[k].version = version /\ version \notin muddled =>
                      heard'[k].dests = dests /\ Passes(heard'[k].message)
    BY <2>2, <2>3, <2>4 DEF VersionsTell, TypeOK
  <2>5. QED
    BY <2>1, <2>4 DEF VersionsTell, Fits, Passes
<1>2. ASSUME Dispatch(l) PROVE VersionsTell'
  <2>1. UNCHANGED <<version, keyworded, dests, form, top, muddled, at, saw, job, orphan>>
    BY <1>2 DEF Dispatch, rule, edits, tasks
  <2>2. ASSUME NEW j \in NewJobs(l)
        PROVE  /\ heard[l].version <= top /\ jversion[j] = 0 /\ status'[j] = "pending"
               /\ heard[l].version = version /\ version \notin muddled => Fits(j[1], j[2])
    BY <1>2 DEF Dispatch, NewJobs, VersionsTell, Fits
  <2>3. ASSUME NEW j \in Jobs
        PROVE  /\ jversion'[j] <= top /\ (status'[j] = "absent" => jversion'[j] = 0)
               /\ jversion'[j] = version /\ version \notin muddled => Fits(j[1], j[2])
               /\ jversion[j] \in muddled => jversion'[j] = jversion[j]
    <3>1. CASE j \in NewJobs(l)
      <4>1. 0 \notin muddled
        BY DEF VersionsTell
      <4>2. QED
        BY <1>2, <2>2, <3>1, <4>1 DEF Dispatch
    <3>2. CASE j \notin NewJobs(l)
      BY <1>2, <3>2 DEF Dispatch, VersionsTell
    <3>3. QED
      BY <3>1, <3>2
  <2>4. ASSUME NEW k \in Listeners, heard'[k] # Nothing PROVE heard'[k] = heard[k]
    BY <1>2, <2>4 DEF Dispatch, TypeOK
  <2>5. \A w \in Workers : at[w] = "cleared" => job[w] \in Jobs
    BY DEF TypeOK
  <2>6. QED
    BY <2>1, <2>3, <2>4, <2>5 DEF VersionsTell, Fits, Passes
<1>3. ASSUME Forget(l) PROVE VersionsTell'
  <2>1. UNCHANGED <<version, keyworded, dests, status, jversion, form, top, muddled,
                    at, saw, job, orphan>>
    BY <1>3 DEF Forget, rule, rows, edits, tasks
  <2>2. ASSUME NEW k \in Listeners, heard'[k] # Nothing PROVE heard'[k] = heard[k]
    BY <1>3, <2>2 DEF Forget, TypeOK
  <2>3. QED
    BY <2>1, <2>2 DEF VersionsTell, Fits, Passes
<1>4. QED
  BY <1>1, <1>2, <1>3

\* A task put to rest is not about to send.
LEMMA RestVersions ==
  ASSUME TypeOK, VersionsTell, NEW w \in Workers, Rest(w),
         UNCHANGED <<version, keyworded, dests, jversion, readers>>,
         \A j \in Jobs : status'[j] = "absent" => status[j] = "absent"
  PROVE  VersionsTell'
<1>1. \A v \in Workers : at'[v] = "cleared" =>
          /\ at[v] = "cleared" /\ saw'[v] = saw[v] /\ job'[v] = job[v]
          /\ v \in orphan => v \in orphan'
  BY DEF Rest, TypeOK
<1>2. QED
  BY <1>1, SameVersions

LEMMA WorkVersions ==
  ASSUME TypeOK, VersionsTell, NEW w \in Workers, Work(w) \/ Crash(w)
  PROVE  VersionsTell'
<1>1. ASSUME NEW j \in Jobs, Claim(w, j) PROVE VersionsTell'
  BY <1>1, SameVersions DEF Claim, TypeOK, rule, readers
<1>2. ASSUME Load(w) PROVE VersionsTell'
  BY <1>2, SameVersions DEF Load, TypeOK, rule, rows, readers
<1>3. ASSUME Check(w) PROVE VersionsTell'
  <2>1. job[w] \in Jobs
    BY <1>3 DEF Check, TypeOK
  <2>2. UNCHANGED <<version, keyworded, dests, status, jversion, heard, form, top, muddled,
                    job, orphan>>
    BY <1>3 DEF Check, rule, rows, readers, edits
  <2>3. ASSUME MayDeliver(w), jversion[job[w]] \notin muddled PROVE Fits(job[w][1], job[w][2])
    BY <2>1, <2>3 DEF MayDeliver, Stale, Fits, Passes, VersionsTell
  <2>4. ASSUME NEW v \in Workers \ orphan, at'[v] = "cleared", saw'[v].current,
               jversion[job[v]] \notin muddled
        PROVE  Fits(job[v][1], job[v][2])
    <3>1. CASE v = w
      BY <1>3, <2>3, <2>4, <3>1 DEF Check, TypeOK
    <3>2. CASE v # w
      BY <1>3, <2>4, <3>2 DEF Check, TypeOK, VersionsTell
    <3>3. QED
      BY <3>1, <3>2
  <2>5. QED
    BY <2>2, <2>4 DEF VersionsTell, Fits, Passes
<1>4. ASSUME NEW a \in Answers, Attempt(w, a) PROVE VersionsTell'
  BY <1>4, SameVersions DEF Attempt, TypeOK, rule, rows, readers
<1>5. ASSUME NEW old \in SUBSET Jobs, Commit(w, old) PROVE VersionsTell'
  <2>1. \A j \in Jobs : status'[j] = "absent" => status[j] = "absent"
    BY <1>5 DEF Commit, Written, Outcome, TypeOK
  <2>2. QED
    BY <1>5, <2>1, RestVersions DEF Commit
<1>6. ASSUME LoseSession(w) PROVE VersionsTell'
  <2>1. \A j \in Jobs : status'[j] = "absent" => status[j] = "absent"
    BY <1>6 DEF LoseSession, Cancelled
  <2>2. QED
    BY <1>6, <2>1, RestVersions DEF LoseSession
<1>7. ASSUME Abandon(w) \/ NoAdapter(w) \/ Crash(w) PROVE VersionsTell'
  BY <1>7, RestVersions DEF Abandon, NoAdapter, Crash, rule, rows
<1>8. QED
  BY <1>1, <1>2, <1>3, <1>4, <1>5, <1>6, <1>7 DEF Work

\* An edit takes the number after the one it read.  If the rule moved on since, or
\* had fallen back, that number was in use, and it and those above are muddled.
LEMMA EditVersions ==
  ASSUME TypeOK, VersionsTell, NEW e \in Editors, NEW k \in BOOLEAN,
         NEW chosen \in SUBSET Chats, SaveEdit(e, k, chosen)
  PROVE  VersionsTell'
<1>1. /\ form[e] # Nothing /\ form[e].version \in 1..top /\ version' = form[e].version + 1
      /\ top \in Nat /\ version \in 1..top /\ muddled \subseteq 1..top
      /\ version + 1 .. top \subseteq muddled
  BY DEF SaveEdit, NextVersion, VersionsTell, TypeOK
<1>2. /\ top' = IF version' > top THEN version' ELSE top
      /\ muddled' = IF form[e].version = version THEN muddled
                    ELSE muddled \union (version'..top)
      /\ UNCHANGED <<status, jversion, heard, orphan>>
      /\ form' = [form EXCEPT ![e] = Nothing]
  BY DEF SaveEdit, rows
<1>3. /\ version' \in 1..top' /\ top' \in Nat /\ top <= top'
      /\ muddled' \subseteq 1..top' /\ version' + 1 .. top' \subseteq muddled'
  <2>1. /\ version' \in 1..top' /\ top' \in Nat /\ top <= top' /\ version' \in Nat
        /\ version' >= 1
        /\ top' <= top \/ top' = version'
    BY <1>1, <1>2
  <2>2. muddled' \subseteq 1..top'
    <3>1. ASSUME NEW n \in muddled' PROVE n \in muddled \/ n \in version' .. top
      BY <1>2, <3>1
    <3>2. ASSUME NEW n, n \in 1..top \/ n \in version' .. top PROVE n \in 1..top'
      BY <1>1, <2>1, <3>2
    <3>3. QED
      BY <1>1, <3>1, <3>2
  <2>3. ASSUME NEW n \in version' + 1 .. top' PROVE n \in muddled'
    <3>1. n \in version' .. top
      BY <1>1, <1>2, <2>1, <2>3
    <3>2. form[e].version = version => n \in version + 1 .. top
      BY <1>1, <3>1
    <3>3. QED
      BY <1>1, <1>2, <3>1, <3>2
  <2>4. QED
    BY <2>1, <2>2, <2>3
<1>4. version' \in muddled' \/ version' = top + 1
  BY <1>1, <1>2
<1>5. \A w \in Workers : ~saw'[w].current
  <2>1. ASSUME NEW w \in Workers PROVE saw'[w] = [saw[w] EXCEPT !.current = FALSE]
    BY DEF SaveEdit
  <2>2. \A w \in Workers : saw[w] \in Snapshot
    BY DEF TypeOK
  <2>3. QED
    BY <2>1, <2>2 DEF Snapshot
<1>6. ASSUME NEW j \in Jobs
      PROVE  /\ jversion'[j] <= top' /\ (status'[j] = "absent" => jversion'[j] = 0)
             /\ ~(jversion'[j] = version' /\ version' \notin muddled')
  <2>1. jversion[j] \in Nat /\ jversion[j] <= top /\ (status[j] = "absent" => jversion[j] = 0)
    BY DEF TypeOK, VersionsTell
  <2>2. QED
    BY <1>1, <1>2, <1>3, <1>4, <2>1
<1>7. ASSUME NEW l \in Listeners, heard'[l] # Nothing
      PROVE  /\ heard'[l].version <= top'
             /\ ~(heard'[l].version = version' /\ version' \notin muddled')
  <2>1. heard[l].version \in Nat /\ heard[l].version <= top
    BY <1>2, <1>7 DEF TypeOK, VersionsTell, Read
  <2>2. QED
    BY <1>1, <1>2, <1>3, <1>4, <2>1
<1>8. ASSUME NEW f \in Editors, form'[f] # Nothing PROVE form'[f].version \in 1..top'
  <2>1. f # e /\ form'[f] = form[f]
    BY <1>2, <1>8 DEF TypeOK
  <2>2. form[f].version \in 1..top
    BY <1>8, <2>1 DEF VersionsTell
  <2>3. QED
    BY <1>1, <1>3, <2>1, <2>2
<1>9. QED
  BY <1>3, <1>5, <1>6, <1>7, <1>8 DEF VersionsTell

LEMMA CustomerVersions ==
  ASSUME TypeOK, VersionsTell, Customer
  PROVE  VersionsTell'
<1>1. ASSUME Activate \/ Pause \/ Retry PROVE VersionsTell'
  <2>1. \A j \in Jobs : status'[j] = "absent" => status[j] = "absent"
    BY <1>1 DEF Activate, Pause, Retry, Cancelled, rows
  <2>2. QED
    BY <1>1, <2>1, SameVersions DEF Activate, Pause, Retry, rule, rows, tasks
<1>2. ASSUME Delete PROVE VersionsTell'
  <2>1. UNCHANGED <<version, keyworded, dests, heard, form, top, muddled, at, saw, job>>
        /\ orphan' = {w \in Workers : Live(w)}
        /\ \A j \in Jobs : jversion'[j] = 0
    BY <1>2 DEF Delete, readers, edits
  <2>2. version >= 1 /\ top \in Nat
    BY DEF VersionsTell, TypeOK
  <2>3. \A w \in Workers \ orphan' : at'[w] # "cleared"
    BY <2>1 DEF Live
  <2>4. QED
    BY <2>1, <2>2, <2>3 DEF VersionsTell, Fits, Passes, TypeOK
<1>3. ASSUME NEW e \in Editors, OpenEdit(e) \/ DropEdit(e) PROVE VersionsTell'
  <2>1. UNCHANGED <<version, keyworded, dests, status, jversion, heard, top, muddled,
                    at, saw, job, orphan>>
    BY <1>3 DEF OpenEdit, DropEdit, rule, rows, tasks
  <2>2. ASSUME NEW f \in Editors, form'[f] # Nothing PROVE form'[f].version \in 1..top
    <3>1. form'[f] = form[f] \/ form'[f] = [version |-> version, keyworded |-> keyworded]
      BY <1>3, <2>2 DEF OpenEdit, DropEdit, TypeOK
    <3>2. QED
      BY <2>2, <3>1 DEF VersionsTell
  <2>3. QED
    BY <2>1, <2>2 DEF VersionsTell, Fits, Passes
<1>4. QED
  BY <1>1, <1>2, <1>3, EditVersions DEF Customer

LEMMA StepVersions ==
  ASSUME TypeOK, VersionsTell, [Next]_vars
  PROVE  VersionsTell'
<1>1. CASE UNCHANGED vars
  BY <1>1, SameVersions DEF vars, rule, rows, tasks
<1>2. ASSUME NEW expired \in SUBSET Expirable, Reclaim(expired) PROVE VersionsTell'
  <2>1. \A j \in Jobs : status'[j] = "absent" => status[j] = "absent"
    BY <1>2 DEF Reclaim
  <2>2. QED
    BY <1>2, <2>1, SameVersions DEF Reclaim, rule, tasks
<1>3. CASE Elsewhere
  <2>1. \A j \in Jobs : status'[j] = "absent" => status[j] = "absent"
    BY <1>3 DEF Elsewhere, PauseConnection, Disconnect, FailHealth, Reconnect, Suspend,
                Reinstate, Synchronize, Cancelled, rows
  <2>2. QED
    BY <1>3, <2>1, SameVersions
    DEF Elsewhere, PauseConnection, Disconnect, FailHealth, Reconnect, Suspend, Reinstate,
        Synchronize, rule, rows, tasks
<1>4. QED
  BY <1>1, <1>2, <1>3, ListenerVersions, WorkVersions, CustomerVersions DEF Next

\* Whoever carries the rule's present version carries what the rule says at present
\* (domain/idempotency.py, the rule's version), unless edits that overlapped gave
\* that number to two texts.
THEOREM VersionsTellTheRule == Spec => []VersionsTell
<1>1. Init => TypeOK /\ VersionsTell
  BY InitTypeOK, InitVersions
<1>2. TypeOK /\ VersionsTell /\ [Next]_vars => TypeOK' /\ VersionsTell'
  BY StepTypeOK, StepVersions
<1>3. QED
  BY <1>1, <1>2, PTL DEF Spec

\* Hence, whatever the number of messages, chats, tasks and editors, no job is sent
\* past the destinations and keywords that its task found in the rule, but for the
\* jobs of a version that overlapping edits gave to two texts.
THEOREM SendsFitTheRule == Spec => []FitsTheRule
<1>1. VersionsTell => FitsTheRule
  BY DEF VersionsTell, FitsTheRule
<1>2. QED
  BY <1>1, VersionsTellTheRule, PTL

-----------------------------------------------------------------------------
(* Every job is held by one task or told of by its row. *)

LEMMA InitIInv == Init => IInv
  BY DEF Init, IInv, Accounted, InFlight, Live, Told, Gone

\* The status of a job after a step that at most cancels it.
Cancels(j) == status'[j] = status[j] \/ (status[j] \in Unfinished /\ status'[j] = "skipped")

\* A job whose tasks and destination a step leaves alone, its row unless it
\* cancels it, is accounted for afterwards.
LEMMA SameJob ==
  ASSUME TypeOK, NEW j \in Jobs, Accounted(j), Cancels(j), posts'[j] = posts[j],
         \A w \in Workers : (at'[w] # "idle" /\ job'[w] = j) <=> Works(w, j),
         \A w \in Workers : Works(w, j) =>
             /\ at'[w] = at[w] /\ answer'[w] = answer[w]
             /\ saw'[w].status = saw[w].status /\ (w \in orphan' => w \in orphan),
         rstatus = "deleted" => rstatus' = "deleted"
  PROVE  Accounted(j)'
<1>1. InFlight(j)' <=> InFlight(j)
  BY DEF InFlight, Live, Works
<1>2. CASE InFlight(j)
  <2>1. Held(j)
    BY <1>2 DEF Accounted
  <2>2. Held(j)'
    <3> SUFFICES ASSUME NEW w \in Workers, Works(w, j)'
                 PROVE  /\ w \notin orphan'
                        /\ \A v \in Workers : Works(v, j)' => v = w
                        /\ status'[j] \in {"leased", "skipped"}
                        /\ at'[w] # "claimed" => saw'[w].status \in {"leased", status'[j]}
                        /\ CASE at'[w] = "answered" /\ answer'[w] = "posted" -> posts'[j] = 1
                             [] at'[w] = "answered" /\ answer'[w] = "unclear" -> posts'[j] <= 1
                             [] OTHER -> posts'[j] = 0
      BY DEF Held
    <3>1. Works(w, j) /\ at'[w] = at[w] /\ answer'[w] = answer[w]
          /\ saw'[w].status = saw[w].status /\ w \notin orphan'
          /\ \A v \in Workers : Works(v, j)' => v = w
      BY <2>1 DEF Works, Live, Held
    <3>2. status[j] \in {"leased", "skipped"} /\ status'[j] \in {"leased", "skipped"}
          /\ (status'[j] = status[j] \/ (status[j] = "leased" /\ status'[j] = "skipped"))
      BY <2>1, <3>1 DEF Held, Cancels, Unfinished
    <3>3. at[w] # "claimed" => saw[w].status \in {"leased", status[j]}
      BY <2>1, <3>1 DEF Held
    <3>4. QED
      BY <2>1, <3>1, <3>2, <3>3 DEF Held
  <2>3. QED
    BY <1>1, <1>2, <2>2 DEF Accounted
<1>3. CASE ~InFlight(j)
  <2>1. Told(j)
    BY <1>3 DEF Accounted
  <2>2. Told(j)'
    BY <2>1 DEF Told, Cancels, Unfinished
  <2>3. QED
    BY <1>1, <1>3, <2>2 DEF Accounted
<1>4. QED
  BY <1>2, <1>3

\* A step that leaves the tasks and the chats alone, and the rows unless it
\* cancels them.
LEMMA SameTasks ==
  ASSUME TypeOK, IInv, UNCHANGED <<at, job, answer, orphan, posts, disturbed>>,
         \A w \in Workers : saw'[w].status = saw[w].status,
         \A j \in Jobs : Cancels(j),
         rstatus' = "deleted" <=> rstatus = "deleted"
  PROVE  IInv'
<1>1. ASSUME NEW j \in Jobs \ disturbed PROVE Accounted(j)'
  BY <1>1, SameJob DEF IInv, Works, Live
<1>2. Gone'
  BY DEF IInv, Gone, Live, Cancels, Unfinished
<1>3. QED
  BY <1>1, <1>2 DEF IInv

\* A step that puts a task to rest and leaves its job told of by its row.
LEMMA RestIInv ==
  ASSUME TypeOK, IInv, NEW w \in Workers, Live(w), Rest(w), posts' = posts,
         disturbed \subseteq disturbed',
         \A j \in Jobs : j = job[w] /\ j \notin disturbed' => Told(j)',
         \A j \in Jobs : j # job[w] => Cancels(j),
         rstatus' = "deleted" <=> rstatus = "deleted",
         rstatus = "deleted" => status' = status
  PROVE  IInv'
<1>1. ASSUME NEW j \in Jobs, j \notin disturbed' PROVE Accounted(j)'
  <2>1. Accounted(j) /\ j \notin disturbed
    BY <1>1 DEF IInv
  <2>2. CASE j = job[w]
    <3>1. \A v \in Workers : Works(v, j) => v = w
      BY <2>1, <2>2 DEF Accounted, InFlight, Held, Works
    <3>2. ~InFlight(j)'
      BY <3>1 DEF InFlight, Live, Works, Rest, TypeOK
    <3>3. QED
      BY <1>1, <2>2, <3>2 DEF Accounted
  <2>3. CASE j # job[w]
    <3>1. ASSUME NEW v \in Workers PROVE (at'[v] # "idle" /\ job'[v] = j) <=> Works(v, j)
      <4>1. CASE v = w
        <5>1. at'[v] = "idle"
          BY <4>1 DEF Rest, TypeOK
        <5>2. ~Works(v, j)
          BY <2>3, <4>1 DEF Works
        <5>3. QED
          BY <5>1, <5>2
      <4>2. CASE v # w
        BY <4>2 DEF Works, Live, Rest, TypeOK
      <4>3. QED
        BY <4>1, <4>2
    <3>2. \A v \in Workers : Works(v, j) =>
             /\ at'[v] = at[v] /\ answer'[v] = answer[v]
             /\ saw'[v].status = saw[v].status /\ (v \in orphan' => v \in orphan)
      BY <2>3 DEF Works, Live, Rest, TypeOK
    <3>3. QED
      BY <2>1, <2>3, <3>1, <3>2, SameJob
  <2>4. QED
    BY <2>2, <2>3
<1>2. Gone'
  BY DEF IInv, Gone, Live, Rest, TypeOK
<1>3. QED
  BY <1>1, <1>2 DEF IInv

LEMMA ListenerIInv ==
  ASSUME TypeOK, IInv, NEW l \in Listeners,
         (\E m \in Messages : Hear(l, m)) \/ Dispatch(l) \/ Forget(l)
  PROVE  IInv'
<1>1. CASE (\E m \in Messages : Hear(l, m)) \/ Forget(l)
  BY <1>1, SameTasks DEF Hear, Forget, Cancels, rule, rows, tasks, group
<1>2. CASE Dispatch(l)
  <2>1. rstatus # "deleted" /\ rstatus' = rstatus
        /\ UNCHANGED <<at, job, saw, answer, orphan, posts, disturbed>>
    BY <1>2 DEF Dispatch, rule, tasks, group
  <2>2. ASSUME NEW j \in Jobs \ disturbed PROVE Accounted(j)'
    <3>1. Accounted(j)
      BY DEF IInv
    <3>2. CASE j \in NewJobs(l)
      <4>1. status[j] = "absent" /\ status'[j] = "pending"
        BY <1>2, <3>2 DEF Dispatch, NewJobs
      <4>2. ~InFlight(j)
        BY <3>1, <4>1 DEF Accounted, InFlight, Held, Works
      <4>3. posts[j] = 0
        BY <2>1, <3>1, <4>1, <4>2 DEF Accounted, Told
      <4>4. QED
        BY <2>1, <4>1, <4>2, <4>3 DEF Accounted, InFlight, Live, Told
    <3>3. CASE j \notin NewJobs(l)
      <4>1. Cancels(j)
        BY <1>2, <3>3 DEF Dispatch, Cancels
      <4>2. QED
        BY <2>1, <3>1, <4>1, SameJob DEF Works, Live
    <3>4. QED
      BY <3>2, <3>3
  <2>3. QED
    BY <2>1, <2>2 DEF IInv, Gone, Live
<1>3. QED
  BY <1>1, <1>2

\* What a task holds of a job it works on that nothing was lost track of.
LEMMA WorkerHolds ==
  ASSUME TypeOK, IInv, NEW w \in Workers, Live(w), job[w] \notin disturbed
  PROVE  /\ job[w] \in Jobs /\ w \notin orphan /\ rstatus # "deleted"
         /\ \A v \in Workers : Works(v, job[w]) => v = w
         /\ status[job[w]] \in {"leased", "skipped"}
         /\ at[w] # "claimed" => saw[w].status \in {"leased", status[job[w]]}
         /\ CASE at[w] = "answered" /\ answer[w] = "posted" -> posts[job[w]] = 1
              [] at[w] = "answered" /\ answer[w] = "unclear" -> posts[job[w]] <= 1
              [] OTHER -> posts[job[w]] = 0
<1>1. job[w] \in Jobs
  BY DEF TypeOK, Live
<1>2. Works(w, job[w]) /\ InFlight(job[w])
  BY DEF Works, InFlight
<1>3. Held(job[w])
  BY <1>1, <1>2 DEF IInv, Accounted
<1>4. QED
  BY <1>1, <1>2, <1>3 DEF Held, IInv, Gone

\* A step of one task on its own job accounts for every job, if it does for that one.
LEMMA OwnJob ==
  ASSUME TypeOK, IInv, NEW w \in Workers, Live(w), at'[w] # "idle", job' = job,
         \A v \in Workers : v # w =>
             at'[v] = at[v] /\ answer'[v] = answer[v] /\ saw'[v] = saw[v],
         \A j \in Jobs : j # job[w] => posts'[j] = posts[j],
         UNCHANGED <<rstatus, status, orphan>>, disturbed \subseteq disturbed',
         job[w] \notin disturbed' => Held(job[w])'
  PROVE  IInv'
<1>1. ASSUME NEW j \in Jobs, j \notin disturbed' PROVE Accounted(j)'
  <2>1. Accounted(j)
    BY <1>1 DEF IInv
  <2>2. CASE j = job[w]
    <3>1. InFlight(j)'
      BY <2>2 DEF InFlight, Live
    <3>2. QED
      BY <1>1, <2>2, <3>1 DEF Accounted
  <2>3. CASE j # job[w]
    <3>1. \A v \in Workers : (at'[v] # "idle" /\ job'[v] = j) <=> Works(v, j)
      BY <2>3 DEF Works, Live
    <3>2. \A v \in Workers : Works(v, j) =>
             /\ at'[v] = at[v] /\ answer'[v] = answer[v]
             /\ saw'[v].status = saw[v].status /\ (v \in orphan' => v \in orphan)
      BY <2>3 DEF Works
    <3>3. QED
      BY <2>1, <2>3, <3>1, <3>2, SameJob DEF Cancels
  <2>4. QED
    BY <2>2, <2>3
<1>2. \A v \in Workers : at'[v] # "idle" <=> at[v] # "idle"
  BY DEF Live
<1>3. Gone'
  <2>1. orphan \subseteq Workers
    BY DEF TypeOK
  <2>2. QED
    BY <1>2, <2>1 DEF IInv, Gone, Live
<1>4. QED
  BY <1>1, <1>3 DEF IInv

\* What the commit of a task writes tells what its answer brought.
LEMMA CommitTells ==
  ASSUME TypeOK, IInv, NEW w \in Workers, at[w] = "answered",
         NEW j \in Jobs, j = job[w], j \notin disturbed,
         posts' = posts, status'[j] = Written(w)
  PROVE  Told(j)'
<1>1. /\ status[j] \in {"leased", "skipped"}
      /\ saw[w].status \in {"leased", status[j]}
      /\ CASE answer[w] = "posted" -> posts[j] = 1
           [] answer[w] = "unclear" -> posts[j] <= 1
           [] OTHER -> posts[j] = 0
  BY WorkerHolds DEF Live
<1>2. /\ answer[w] = "posted" => Outcome(w) = "succeeded"
      /\ answer[w] = "unclear" => Outcome(w) = "needs_attention"
      /\ answer[w] \notin {"posted", "unclear"} =>
             Outcome(w) \in {"skipped", "failed", "dead_letter", "pending"}
  BY DEF Outcome
<1>3. Written(w) = Outcome(w)
  BY <1>1, <1>2 DEF Written
<1>4. QED
  BY <1>1, <1>2, <1>3 DEF Told

LEMMA WorkIInv ==
  ASSUME TypeOK, IInv, NEW w \in Workers, Work(w)
  PROVE  IInv'
<1>1. ASSUME NEW j \in Jobs, Claim(w, j) PROVE IInv'
  <2>1. status[j] = "pending" /\ at[w] = "idle" /\ rstatus' = rstatus
        /\ UNCHANGED <<saw, answer, orphan, posts, disturbed>>
        /\ rstatus # "deleted" /\ w \notin orphan
    BY <1>1 DEF Claim, rule, group, IInv, Gone, Live
  <2>2. ASSUME NEW i \in Jobs \ disturbed PROVE Accounted(i)'
    <3>1. Accounted(i)
      BY DEF IInv
    <3>2. CASE i = j
      <4>1. ~InFlight(j)
        BY <2>1, <3>1, <3>2 DEF Accounted, InFlight, Held, Works
      <4>2. posts[j] = 0
        BY <2>1, <3>1, <3>2, <4>1 DEF Accounted, Told
      <4>3. at'[w] = "claimed" /\ status'[j] = "leased"
            /\ \A v \in Workers : Works(v, j)' => v = w
        BY <1>1, <4>1 DEF Claim, Works, Live, InFlight, TypeOK
      <4>4. Held(j)'
        BY <2>1, <4>2, <4>3 DEF Held
      <4>5. InFlight(j)'
        BY <1>1, <4>3 DEF Claim, InFlight, Live, TypeOK
      <4>6. QED
        BY <3>2, <4>4, <4>5 DEF Accounted
    <3>3. CASE i # j
      <4>1. ASSUME NEW v \in Workers
            PROVE  /\ (at'[v] # "idle" /\ job'[v] = i) <=> Works(v, i)
                   /\ Works(v, i) => at'[v] = at[v]
        BY <1>1, <2>1, <3>3 DEF Claim, Works, Live, TypeOK
      <4>2. Cancels(i)
        BY <1>1, <3>3 DEF Claim, Cancels, TypeOK
      <4>3. QED
        BY <2>1, <3>1, <4>1, <4>2, SameJob
    <3>4. QED
      BY <3>2, <3>3
  <2>3. Gone'
    BY <1>1, <2>1 DEF IInv, Gone, Claim, Live, TypeOK
  <2>4. QED
    BY <2>1, <2>2, <2>3 DEF IInv
<1>2. ASSUME Load(w) PROVE IInv'
  <2>1. Live(w) /\ job' = job /\ at' = [at EXCEPT ![w] = "loaded"]
        /\ saw'[w].status = status[job[w]]
        /\ UNCHANGED <<rstatus, status, orphan, posts, disturbed, answer>>
    BY <1>2 DEF Load, Live, TypeOK, rule, rows, group
  <2>2. at'[w] = "loaded" /\ at[w] = "claimed"
    BY <1>2, <2>1 DEF TypeOK, Load
  <2>3. \A v \in Workers : v # w => at'[v] = at[v] /\ answer'[v] = answer[v] /\ saw'[v] = saw[v]
    BY <1>2 DEF Load, TypeOK
  <2>4. ASSUME job[w] \notin disturbed' PROVE Held(job[w])'
    BY <2>1, <2>2, <2>4, WorkerHolds DEF Held, Works, Live
  <2>5. QED
    BY <2>1, <2>2, <2>3, <2>4, OwnJob
<1>3. ASSUME Check(w) PROVE IInv'
  <2>1. Live(w) /\ job' = job /\ at[w] = "loaded"
        /\ UNCHANGED <<rstatus, status, orphan, posts, disturbed>>
    BY <1>3 DEF Check, Live, rule, rows, group
  <2>2. /\ at'[w] \in {"cleared", "answered"}
        /\ at'[w] = "answered" => answer'[w] \in {"denied", "barred"}
        /\ saw'[w].status = saw[w].status
        /\ \A v \in Workers : v # w =>
              at'[v] = at[v] /\ answer'[v] = answer[v] /\ saw'[v] = saw[v]
    <3>1. CASE at' = [at EXCEPT ![w] = "cleared"] /\ saw' = [saw EXCEPT ![w].current = TRUE]
               /\ answer' = answer
      BY <3>1 DEF TypeOK, Snapshot
    <3>2. CASE at' = [at EXCEPT ![w] = "answered"] /\ saw' = saw
               /\ answer' = [answer EXCEPT ![w] = IF MayDeliver(w) THEN "denied" ELSE "barred"]
      BY <3>2 DEF TypeOK
    <3>3. QED
      BY <1>3, <3>1, <3>2 DEF Check
  <2>3. ASSUME job[w] \notin disturbed' PROVE Held(job[w])'
    BY <2>1, <2>2, <2>3, WorkerHolds DEF Held, Works, Live
  <2>4. QED
    BY <2>1, <2>2, <2>3, OwnJob
<1>4. ASSUME NEW a \in Answers, Attempt(w, a) PROVE IInv'
  <2>1. Live(w) /\ at[w] = "cleared" /\ at'[w] = "answered" /\ answer'[w] = a
        /\ UNCHANGED <<rstatus, status, orphan, saw, job>>
        /\ \A v \in Workers : v # w => at'[v] = at[v] /\ answer'[v] = answer[v]
    BY <1>4 DEF Attempt, Live, TypeOK, rule, rows
  <2>2. \A j \in Jobs : j # job[w] => posts'[j] = posts[j]
    BY <1>4 DEF Attempt, TypeOK
  <2>3. disturbed \subseteq disturbed' /\ (a = "lost" => job[w] \in disturbed')
    BY <1>4 DEF Attempt
  <2>4. ASSUME job[w] \notin disturbed' PROVE Held(job[w])'
    <3>1. job[w] \notin disturbed /\ a # "lost"
      BY <2>3, <2>4
    <3>2. job[w] \in Jobs /\ posts[job[w]] = 0
      BY <2>1, <3>1, WorkerHolds
    <3>3. /\ a = "posted" => posts'[job[w]] = 1
          /\ a = "unclear" => posts'[job[w]] <= 1
          /\ a \notin {"posted", "unclear"} => posts'[job[w]] = 0
      BY <1>4, <3>1, <3>2 DEF Attempt, TypeOK
    <3>4. QED
      BY <2>1, <3>1, <3>3, WorkerHolds DEF Held, Works, Live
  <2>5. QED
    BY <2>1, <2>2, <2>3, <2>4, OwnJob
<1>5. ASSUME NEW old \in SUBSET Jobs, Commit(w, old) PROVE IInv'
  <2>1. Live(w) /\ at[w] = "answered" /\ Rest(w) /\ w \notin orphan
        /\ UNCHANGED <<posts, disturbed>> /\ job[w] \in Jobs
        /\ status' = [status EXCEPT ![job[w]] = Written(w)]
    BY <1>5 DEF Commit, Live, group, TypeOK
  <2>2. rstatus # "deleted" /\ rstatus' # "deleted"
    BY <1>5, <2>1 DEF Commit, IInv, Gone
  <2>3. \A j \in Jobs : j # job[w] => Cancels(j)
    BY <2>1 DEF Cancels, TypeOK
  <2>4. \A j \in Jobs : j = job[w] /\ j \notin disturbed' => Told(j)'
    BY <2>1, CommitTells DEF TypeOK
  <2>5. QED
    BY <2>1, <2>2, <2>3, <2>4, RestIInv
<1>6. ASSUME LoseSession(w) PROVE IInv'
  <2>1. Live(w) /\ at[w] = "answered" /\ answer[w] = "auth" /\ Rest(w) /\ w \notin orphan
        /\ UNCHANGED <<posts, disturbed>> /\ job[w] \in Jobs
        /\ status' = [Cancelled EXCEPT ![job[w]] = "failed"]
    BY <1>6 DEF LoseSession, Live, group, TypeOK
  <2>2. rstatus # "deleted" /\ rstatus' # "deleted"
    BY <1>6, <2>1 DEF LoseSession, Stopped, IInv, Gone
  <2>3. \A j \in Jobs : j # job[w] => Cancels(j)
    BY <2>1 DEF Cancels, Cancelled
  <2>4. ASSUME NEW j \in Jobs, j = job[w], j \notin disturbed' PROVE Told(j)'
    <3>1. posts[j] = 0
      BY <2>1, <2>4, WorkerHolds
    <3>2. status'[j] = "failed" /\ posts'[j] = 0
      BY <2>1, <2>4, <3>1 DEF Cancelled
    <3>3. QED
      BY <3>2 DEF Told
  <2>5. QED
    BY <2>1, <2>2, <2>3, <2>4, RestIInv
<1>7. ASSUME Abandon(w) PROVE IInv'
  <2>1. Live(w) /\ w \in orphan /\ Rest(w) /\ UNCHANGED <<rstatus, status, posts, disturbed>>
    BY <1>7 DEF Abandon, Live, rule, rows, group
  <2>2. job[w] \in disturbed
    BY <2>1, WorkerHolds
  <2>3. QED
    BY <2>1, <2>2, RestIInv DEF Cancels
<1>8. ASSUME NoAdapter(w) PROVE IInv'
  <2>1. /\ Live(w) /\ at[w] = "claimed" /\ Rest(w)
        /\ UNCHANGED <<rstatus, status, posts, disturbed>>
    BY <1>8 DEF NoAdapter, Live, rule, rows, group
  <2>2. job[w] \notin disturbed => status[job[w]] \in {"leased", "skipped"} /\ posts[job[w]] = 0
    BY <2>1, WorkerHolds
  <2>3. ASSUME NEW j \in Jobs, j = job[w], j \notin disturbed' PROVE Told(j)'
    BY <2>1, <2>2, <2>3 DEF Told
  <2>4. QED
    BY <2>1, <2>3, RestIInv DEF Cancels
<1>9. QED
  BY <1>1, <1>2, <1>3, <1>4, <1>5, <1>6, <1>7, <1>8 DEF Work

LEMMA CrashIInv ==
  ASSUME TypeOK, IInv, NEW w \in Workers, Crash(w)
  PROVE  IInv'
<1>1. Live(w) /\ Rest(w) /\ UNCHANGED <<rstatus, status, posts>> /\ disturbed \subseteq disturbed'
      /\ (answer[w] \in {"posted", "unclear"} => job[w] \in disturbed')
  BY DEF Crash, rule, rows
<1>2. ASSUME NEW j \in Jobs, j = job[w], j \notin disturbed' PROVE Told(j)'
  <2>1. status[j] \in {"leased", "skipped"} /\ posts[j] = 0
    BY <1>1, <1>2, WorkerHolds
  <2>2. QED
    BY <1>1, <2>1 DEF Told
<1>3. QED
  BY <1>1, <1>2, RestIInv DEF Cancels

\* A row that is neither leased nor skipped has no task, if nothing was lost track of.
LEMMA Unworked ==
  ASSUME TypeOK, IInv, NEW j \in Jobs \ disturbed, status[j] \notin {"leased", "skipped"}
  PROVE  ~InFlight(j) /\ Told(j)
  BY DEF IInv, Accounted, InFlight, Held, Works

LEMMA ReclaimIInv ==
  ASSUME TypeOK, IInv, NEW expired \in SUBSET Expirable, Reclaim(expired)
  PROVE  IInv'
<1>1. UNCHANGED <<rstatus, at, job, saw, answer, orphan, posts>>
      /\ disturbed' = disturbed \union {j \in expired : Owned(j)}
      /\ \A j \in Jobs : status'[j] = IF j \in expired THEN "pending" ELSE status[j]
  BY DEF Reclaim, rule, tasks
<1>2. ASSUME NEW j \in Jobs, j \notin disturbed' PROVE Accounted(j)'
  <2>1. Accounted(j)
    BY <1>1, <1>2 DEF IInv
  <2>2. CASE j \in expired
    <3>1. ~InFlight(j)
      BY <1>1, <1>2, <2>1, <2>2 DEF Accounted, InFlight, Held, Works, Owned
    <3>2. status[j] = "leased" /\ status'[j] = "pending" /\ posts[j] = 0
      BY <1>1, <2>1, <2>2, <3>1 DEF Accounted, Told, Expirable
    <3>3. QED
      BY <1>1, <3>1, <3>2 DEF Accounted, InFlight, Live, Told
  <2>3. CASE j \notin expired
    BY <1>1, <2>1, <2>3, SameJob DEF Cancels, Works, Live
  <2>4. QED
    BY <2>2, <2>3
<1>3. Gone'
  BY <1>1 DEF IInv, Gone, Live, Expirable
<1>4. QED
  BY <1>2, <1>3 DEF IInv

LEMMA CustomerIInv ==
  ASSUME TypeOK, IInv, Customer
  PROVE  IInv'
<1>1. ASSUME Activate \/ Pause PROVE IInv'
  <2>1. UNCHANGED <<at, job, saw, answer, orphan, posts, disturbed>>
        /\ rstatus # "deleted" /\ rstatus' # "deleted"
    BY <1>1 DEF Activate, Pause, Command, tasks, group
  <2>2. \A j \in Jobs : Cancels(j)
    BY <1>1 DEF Activate, Pause, Cancels, Cancelled, rows
  <2>3. QED
    BY <2>1, <2>2, SameTasks
<1>2. ASSUME NEW e \in Editors, OpenEdit(e) \/ DropEdit(e) PROVE IInv'
  BY <1>2, SameTasks DEF OpenEdit, DropEdit, Cancels, rule, rows, tasks, group
<1>3. ASSUME NEW e \in Editors, NEW k \in BOOLEAN, NEW chosen \in SUBSET Chats,
             SaveEdit(e, k, chosen)
      PROVE  IInv'
  <2>1. UNCHANGED <<at, job, answer, orphan, posts, disturbed, status, rstatus>>
    BY <1>3 DEF SaveEdit, rows, group
  <2>2. ASSUME NEW w \in Workers PROVE saw'[w].status = saw[w].status
    <3>1. saw[w] \in Snapshot /\ saw'[w] = [saw[w] EXCEPT !.current = FALSE]
      BY <1>3 DEF SaveEdit, TypeOK
    <3>2. QED
      BY <3>1 DEF Snapshot
  <2>3. QED
    BY <2>1, <2>2, SameTasks DEF Cancels
<1>4. ASSUME Delete PROVE IInv'
  <2>1. UNCHANGED <<at, job, posts>> /\ rstatus' = "deleted"
        /\ disturbed' = disturbed \union {j \in Jobs : InFlight(j)}
        /\ orphan' = {w \in Workers : Live(w)}
        /\ \A j \in Jobs : status'[j] = "absent"
    BY <1>4 DEF Delete
  <2>2. ASSUME NEW j \in Jobs, j \notin disturbed' PROVE Accounted(j)'
    <3>1. ~InFlight(j) /\ Told(j) /\ posts[j] \in 0..2
      BY <2>1, <2>2 DEF IInv, Accounted, TypeOK
    <3>2. posts[j] \in {0, 1}
      BY <3>1 DEF Told
    <3>3. QED
      BY <2>1, <3>1, <3>2 DEF Accounted, InFlight, Live, Told
  <2>3. Gone'
    BY <2>1 DEF Gone, Live
  <2>4. QED
    BY <2>2, <2>3 DEF IInv
<1>5. ASSUME Retry PROVE IInv'
  <2>1. UNCHANGED <<rstatus, at, job, saw, answer, orphan, posts>> /\ rstatus # "deleted"
        /\ disturbed' = disturbed \union {j \in Jobs : status[j] = "needs_attention"}
        /\ \A j \in Jobs : status'[j] = IF j \in Requeued THEN "pending" ELSE status[j]
    BY <1>5 DEF Retry, Command, rule, tasks
  <2>2. ASSUME NEW j \in Jobs, j \notin disturbed' PROVE Accounted(j)'
    <3>1. CASE j \in Requeued
      <4>1. status[j] \in {"failed", "dead_letter"} /\ j \notin disturbed
        BY <2>1, <2>2, <3>1 DEF Requeued
      <4>2. ~InFlight(j) /\ posts[j] = 0
        BY <4>1, Unworked DEF Told
      <4>3. QED
        BY <2>1, <3>1, <4>2 DEF Accounted, InFlight, Live, Told
    <3>2. CASE j \notin Requeued
      <4>1. Accounted(j)
        BY <2>1, <2>2 DEF IInv
      <4>2. QED
        BY <2>1, <3>2, <4>1, SameJob DEF Cancels, Works, Live
    <3>3. QED
      BY <3>1, <3>2
  <2>3. Gone'
    BY <2>1 DEF IInv, Gone, Live
  <2>4. QED
    BY <2>2, <2>3 DEF IInv
<1>6. QED
  BY <1>1, <1>2, <1>3, <1>4, <1>5 DEF Customer

LEMMA ElsewhereIInv ==
  ASSUME TypeOK, IInv, Elsewhere
  PROVE  IInv'
<1>1. UNCHANGED <<at, job, saw, answer, orphan, posts, disturbed>>
  BY DEF Elsewhere, PauseConnection, Disconnect, FailHealth, Reconnect, Suspend, Reinstate,
         Synchronize, tasks, group
<1>2. \A j \in Jobs : Cancels(j)
  BY DEF Elsewhere, PauseConnection, Disconnect, FailHealth, Reconnect, Suspend, Reinstate,
         Synchronize, Cancels, Cancelled, rows
<1>3. rstatus' = "deleted" <=> rstatus = "deleted"
  BY DEF Elsewhere, PauseConnection, Disconnect, FailHealth, Reconnect, Suspend, Reinstate,
         Synchronize, Stopped, rule
<1>4. QED
  BY <1>1, <1>2, <1>3, SameTasks

LEMMA StepIInv ==
  ASSUME TypeOK, IInv, [Next]_vars
  PROVE  IInv'
<1>1. CASE UNCHANGED vars
  BY <1>1, SameTasks DEF Cancels, vars, rule, rows, tasks, group
<1>2. CASE Next
  BY <1>2, ListenerIInv, WorkIInv, CrashIInv, ReclaimIInv, CustomerIInv, ElsewhereIInv DEF Next
<1>3. QED
  BY <1>1, <1>2

\* A job nothing was lost track of has at most one task, and its row and that
\* task's answer tell what its destination got.
THEOREM InductiveInvariant == Spec => []IInv
<1>1. Init => TypeOK /\ IInv
  BY InitTypeOK, InitIInv
<1>2. TypeOK /\ IInv /\ [Next]_vars => TypeOK' /\ IInv'
  BY StepTypeOK, StepIInv
<1>3. QED
  BY <1>1, <1>2, PTL DEF Spec

\* What IInv says of one job, in flight or not.
LEMMA OnceEach ==
  ASSUME TypeOK, IInv, NEW j \in Jobs \ disturbed
  PROVE  posts[j] <= 1
<1>1. CASE InFlight(j)
  <2>1. PICK w \in Workers : Works(w, j)
    BY <1>1 DEF InFlight, Works
  <2>2. QED
    BY <2>1, WorkerHolds DEF Works
<1>2. CASE ~InFlight(j)
  BY <1>2 DEF IInv, Accounted, Told
<1>3. QED
  BY <1>1, <1>2

\* A message reaches a destination at most once, for any number of messages,
\* destinations and tasks, unless the code lost track of an attempt.
THEOREM DeliversOnce == Spec => []DeliveredOnce
<1>1. TypeOK /\ IInv => DeliveredOnce
  BY OnceEach DEF DeliveredOnce, TypeOK
<1>2. QED
  BY <1>1, TypeCorrect, InductiveInvariant, PTL

\* The row of a job nobody works on says what the destination got.
THEOREM RecordsTell == Spec => []RecordsMatchPosts
<1>1. IInv => RecordsMatchPosts
  BY DEF IInv, Accounted, Told, RecordsMatchPosts
<1>2. QED
  BY <1>1, InductiveInvariant, PTL
=============================================================================
