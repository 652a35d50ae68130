--------------------------- MODULE ControlTasksProofs ---------------------------
(***************************************************************************)
(* The queue of control tasks keeps the promise of LeasedQueue, for any    *)
(* number of tasks, workers and chats: the sweep, the claims and the runs  *)
(* that write their task without looking at it again only ever disturb     *)
(* each other over a task whose lease ran out under a run.                 *)
(***************************************************************************)
EXTENDS ControlTasks, FiniteSetTheorems, TLAPS

USE ControlAssumption DEF ControlAssumption

-----------------------------------------------------------------------------
(* The invariant *)

IsRun(x) ==
    x = [at |-> x.at, item |-> x.item, saw |-> x.saw, tries |-> x.tries, listed |-> x.listed,
         verdict |-> x.verdict, before |-> x.before, had |-> x.had, mixed |-> x.mixed]

RunsAreRuns ==
    /\ run = [r \in Runs |-> run[r]]
    /\ \A r \in Runs : /\ IsRun(run[r])
                       /\ run[r].at # "free" => run[r].item \in Items
                       /\ run[r].at = "free" => run[r].item = NoItem

StatusesTyped ==
    /\ taskStatus \in [Items -> ControlTaskStatus \cup {"none", "asked"}]
    /\ lapsed \subseteq Items /\ overrun \subseteq Items

\* A lease runs out while its task is leased, and under a run it is overrun.
LeasesTimed ==
    \A k \in lapsed : taskStatus[k] = "leased" /\ (Holds(k) # {} => k \in overrun)

\* The run of a task whose lease held has it for itself: the row says what the
\* run read.
HeldAlone ==
    \A k \in Items \ overrun : \A r \in Holds(k) :
        /\ taskStatus[k] = "leased"
        /\ run[r].at # "waiting" => run[r].saw = "leased"
        /\ \A s \in Holds(k) : s = r

QueueInv == RunsAreRuns /\ StatusesTyped /\ LeasesTimed /\ HeldAlone

-----------------------------------------------------------------------------
LEMMA QueueInvInit == ControlInit => QueueInv
<1> SUFFICES ASSUME ControlInit PROVE QueueInv
  OBVIOUS
<1>1. /\ run = [r \in Runs |-> NoRun] /\ lapsed = {} /\ overrun = {}
      /\ taskStatus = [k \in Items |-> "none"]
  BY DEF ControlInit
<1>2. IsRun(NoRun) /\ NoRun.at = "free" /\ NoRun.item = NoItem
  BY DEF IsRun, NoRun
<1>3. RunsAreRuns
  BY <1>1, <1>2 DEF RunsAreRuns
<1>4. \A k \in Items : Holds(k) = {}
  BY <1>1, <1>2 DEF Holds
<1>5. StatusesTyped /\ LeasesTimed /\ HeldAlone
  BY <1>1, <1>4 DEF StatusesTyped, LeasesTimed, HeldAlone
<1>6. QED
  BY <1>3, <1>5 DEF QueueInv

LEMMA RunsKept ==
  ASSUME QueueInv, UNCHANGED run
  PROVE  RunsAreRuns' /\ \A k \in Items : Holds(k)' = Holds(k)
  BY DEF QueueInv, RunsAreRuns, IsRun, Holds

\* A request touches no task that is leased.
LEMMA RequestKeeps ==
  ASSUME QueueInv, NEW k \in Items, Request(k) \/ EnqueueControl(k)
  PROVE  QueueInv'
<1> USE DEF QueueInv
<1>1. /\ UNCHANGED <<run, lapsed, overrun>>
      /\ taskStatus[k] # "leased"
      /\ \E s \in {"asked", "pending"} : taskStatus' = [taskStatus EXCEPT ![k] = s]
  BY DEF Request, EnqueueControl
<1>2. RunsAreRuns' /\ \A j \in Items : Holds(j)' = Holds(j)
  BY <1>1, RunsKept
<1>3. StatusesTyped' /\ \A j \in Items : taskStatus[j] = "leased" => taskStatus'[j] = "leased"
  BY <1>1 DEF StatusesTyped, ControlTaskStatus
<1>4. LeasesTimed'
  BY <1>1, <1>2, <1>3 DEF LeasesTimed, StatusesTyped
<1>5. HeldAlone'
  BY <1>1, <1>2, <1>3 DEF HeldAlone
<1>6. QED
  BY <1>2, <1>3, <1>4, <1>5

\* Nobody holds a task that is pending, unless it was overrun.
LEMMA ClaimKeeps ==
  ASSUME QueueInv, NEW r \in Runs, NEW k \in Items, ClaimControl(r, k)
  PROVE  QueueInv'
<1> USE DEF QueueInv
<1>1. /\ taskStatus[k] = "pending" /\ run[r] = NoRun
      /\ taskStatus' = [taskStatus EXCEPT ![k] = "leased"]
      /\ UNCHANGED <<lapsed, overrun>>
      /\ run' = [run EXCEPT ![r].at = "waiting", ![r].item = k]
  BY DEF ClaimControl, ClaimableTasks
<1>2. /\ run'[r] = [NoRun EXCEPT !.at = "waiting", !.item = k]
      /\ \A s \in Runs \ {r} : run'[s] = run[s]
      /\ run' = [s \in Runs |-> run'[s]]
  BY <1>1 DEF RunsAreRuns
<1>3. run'[r].at = "waiting" /\ run'[r].item = k /\ IsRun(run'[r])
  BY <1>2 DEF IsRun, NoRun
<1>4. RunsAreRuns'
  BY <1>2, <1>3 DEF RunsAreRuns, IsRun
<1>5. StatusesTyped'
  BY <1>1 DEF StatusesTyped, ControlTaskStatus
<1>6. k \notin overrun => Holds(k) = {}
  BY <1>1 DEF HeldAlone
<1>7. run[r].item = NoItem
  BY <1>1 DEF NoRun
<1>8. \A j \in Items, s \in Runs : s \in Holds(j)' <=> s \in Holds(j) \/ (j = k /\ s = r)
  BY <1>2, <1>3, <1>7 DEF Holds
<1>9. LeasesTimed'
  BY <1>1, <1>8 DEF LeasesTimed, StatusesTyped, Holds
<1>10. HeldAlone'
  <2> SUFFICES ASSUME NEW j \in Items \ overrun, NEW s \in Holds(j)'
               PROVE  /\ taskStatus'[j] = "leased"
                      /\ run'[s].at # "waiting" => run'[s].saw = "leased"
                      /\ \A t \in Holds(j)' : t = s
    BY <1>1 DEF HeldAlone
  <2>1. s \in Runs /\ Holds(j)' \subseteq Runs /\ Holds(j) \subseteq Runs
    BY DEF Holds
  <2>2. CASE j = k
    BY <1>1, <1>3, <1>6, <1>8, <2>1, <2>2 DEF StatusesTyped
  <2>3. CASE j # k
    <3>1. \A t \in Runs : t \in Holds(j)' => t \in Holds(j)
      BY <1>8, <2>3
    <3>2. s \in Holds(j) /\ s # r
      BY <1>7, <2>1, <3>1 DEF Holds
    <3>3. QED
      BY <1>1, <1>2, <2>1, <2>3, <3>1, <3>2, ZenonT(60) DEF HeldAlone, StatusesTyped
  <2>4. QED
    BY <2>2, <2>3
<1>11. QED
  BY <1>4, <1>5, <1>9, <1>10

LEMMA LapseKeeps ==
  ASSUME QueueInv, NEW k \in Items, Lapse(k)
  PROVE  QueueInv'
<1> USE DEF QueueInv
<1>1. /\ UNCHANGED <<run, taskStatus>> /\ taskStatus[k] = "leased"
      /\ lapsed' = lapsed \cup {k}
      /\ overrun' = overrun \/ overrun' = overrun \cup {k}
      /\ Holds(k) # {} => k \in overrun'
  BY DEF Lapse
<1>2. RunsAreRuns' /\ \A j \in Items : Holds(j)' = Holds(j)
  BY <1>1, RunsKept
<1>3. StatusesTyped' /\ LeasesTimed'
  BY <1>1, <1>2 DEF StatusesTyped, LeasesTimed
<1>4. HeldAlone'
  BY <1>1, <1>2 DEF HeldAlone
<1>5. QED
  BY <1>2, <1>3, <1>4

LEMMA ReclaimKeeps ==
  ASSUME QueueInv, ReclaimExpiredControl
  PROVE  QueueInv'
  BY DEF QueueInv, RunsAreRuns, StatusesTyped, LeasesTimed, HeldAlone, IsRun, Holds,
         ReclaimExpiredControl, Expired, ControlTaskStatus

\* A run that goes on keeps its task, and has read its row once it has its turn.
Continues(r) ==
    /\ UNCHANGED queue
    /\ run' = [run EXCEPT ![r] = run'[r]]
    /\ IsRun(run'[r]) /\ run[r].at # "free"
    /\ run'[r].at \notin {"free", "waiting"} /\ run'[r].item = run[r].item
    /\ run'[r].saw = IF run[r].at = "waiting" THEN taskStatus[run[r].item] ELSE run[r].saw

LEMMA ContinuesKeeps ==
  ASSUME QueueInv, NEW r \in Runs, Continues(r)
  PROVE  QueueInv'
<1> USE DEF QueueInv
<1>1. UNCHANGED <<taskStatus, lapsed, overrun>> /\ \A s \in Runs \ {r} : run'[s] = run[s]
  BY DEF Continues, queue, RunsAreRuns
<1>2. RunsAreRuns' /\ StatusesTyped'
  BY <1>1 DEF Continues, RunsAreRuns, StatusesTyped
<1>3. \A k \in Items : Holds(k)' = Holds(k)
  BY <1>1 DEF Continues, Holds, RunsAreRuns
<1>4. LeasesTimed' /\ HeldAlone'
  BY <1>1, <1>3 DEF Continues, LeasesTimed, HeldAlone, Holds, StatusesTyped
<1>5. QED
  BY <1>2, <1>4

LEMMA AskContinues ==
  ASSUME QueueInv, NEW r \in Runs, Ask(r) \/ ReadChats(r)
  PROVE  Continues(r)
<1> USE DEF QueueInv
<1>0. run = [s \in Runs |-> run[s]] /\ IsRun(run[r])
  BY DEF RunsAreRuns
<1>1. CASE ReadChats(r)
  BY <1>0, <1>1 DEF ReadChats, Continues, IsRun
<1>2. CASE Ask(r)
  <2>1. run[r].at = "waiting" /\ UNCHANGED queue
    BY <1>2 DEF Ask
  <2> DEFINE k == run[r].item
  <2>2. CASE /\ Kind(k) = "sync_chats" /\ usable
             /\ run' = [run EXCEPT ![r] = [RunBegins(r, "listed") EXCEPT
                           !.listed = Listed, !.verdict = [d \in Chats |-> Verdict(d)]]]
    BY <1>0, <2>1, <2>2 DEF Continues, IsRun, RunBegins
  <2>3. CASE \E v \in Checked(command[k].chat) :
                run' = [run EXCEPT ![r] = [RunBegins(r, "read") EXCEPT
                           !.verdict = [d \in {command[k].chat} |-> v], !.had = access]]
    BY <1>0, <2>1, <2>3, ZenonT(60) DEF Continues, IsRun, RunBegins
  <2>4. CASE \E how \in Raises(k) : run' = [run EXCEPT ![r] = RunBegins(r, how)]
    <3>1. Raises(k) \subseteq {"retryable", "final"}
      BY DEF Raises
    <3>2. QED
      BY <1>0, <2>1, <2>4, <3>1, ZenonT(60) DEF Continues, IsRun, RunBegins
  <2>5. QED
    BY <1>2, <2>2, <2>3, <2>4 DEF Ask
<1>3. QED
  BY <1>1, <1>2

\* A run that ends writes its task, if that changes what it read.
WritesTask(r, to) ==
    /\ run[r].at \notin {"free", "waiting"} /\ run'[r] = NoRun
    /\ \A s \in Runs \ {r} :
           \E m \in BOOLEAN : run'[s] \in {run[s], [run[s] EXCEPT !.mixed = m]}
    /\ run' = [s \in Runs |-> run'[s]]
    /\ UNCHANGED overrun
    /\ taskStatus' = [taskStatus EXCEPT ![run[r].item] =
                          IF to = run[r].saw THEN @ ELSE to]
    /\ lapsed' = {j \in lapsed : taskStatus'[j] = "leased"}
    /\ to \in {"succeeded", "failed", "pending"}

LEMMA WritesKeeps ==
  ASSUME QueueInv, NEW r \in Runs, NEW to, WritesTask(r, to)
  PROVE  QueueInv'
<1> USE DEF QueueInv
<1> DEFINE k == run[r].item
<1>1. k \in Items /\ IsRun(NoRun) /\ NoRun.at = "free" /\ NoRun.item = NoItem
  BY DEF WritesTask, RunsAreRuns, IsRun, NoRun
<1>2. \A s \in Runs \ {r} : /\ IsRun(run'[s]) /\ run'[s].at = run[s].at
                            /\ run'[s].item = run[s].item /\ run'[s].saw = run[s].saw
  BY DEF WritesTask, RunsAreRuns, IsRun
<1>3. RunsAreRuns'
  BY <1>1, <1>2 DEF WritesTask, RunsAreRuns
<1>4. StatusesTyped'
  BY <1>1 DEF WritesTask, StatusesTyped, ControlTaskStatus
<1>5. \A j \in Items : Holds(j)' = Holds(j) \ {r}
  BY <1>1, <1>2 DEF WritesTask, Holds
<1>6. LeasesTimed'
  BY <1>1, <1>5 DEF WritesTask, LeasesTimed, StatusesTyped
<1>7. HeldAlone'
  <2> SUFFICES ASSUME NEW j \in Items \ overrun, NEW s \in Holds(j)'
               PROVE  /\ taskStatus'[j] = "leased"
                      /\ run'[s].at # "waiting" => run'[s].saw = "leased"
                      /\ \A t \in Holds(j)' : t = s
    BY DEF HeldAlone, WritesTask
  <2>1. s \in Holds(j) /\ s \in Runs \ {r} /\ Holds(j)' \subseteq Holds(j)
    BY <1>5 DEF Holds
  <2>2. j # k
    BY <2>1 DEF HeldAlone, Holds
  <2>3. taskStatus'[j] = taskStatus[j]
    BY <1>1, <2>2 DEF WritesTask, StatusesTyped
  <2>4. QED
    BY <1>2, <2>1, <2>3 DEF HeldAlone
<1>8. QED
  BY <1>3, <1>4, <1>6, <1>7

LEMMA FinishWrites ==
  ASSUME QueueInv, NEW r \in Runs, Finish(r)
  PROVE  WritesTask(r, "succeeded")
<1>1. /\ run[r].at = "read" /\ UNCHANGED overrun
      /\ taskStatus' = [taskStatus EXCEPT ![run[r].item] = IF "succeeded" = run[r].saw THEN @
                                                           ELSE "succeeded"]
      /\ lapsed' = {j \in lapsed : taskStatus'[j] = "leased"}
  BY DEF Finish, Wrote
<1>2. run' = [s \in Runs |-> IF s = r THEN NoRun
                             ELSE [run[s] EXCEPT !.mixed = run[s].at \in {"listed", "read"}]]
  BY DEF Finish, Frees
<1>3. run'[r] = NoRun /\ run' = [s \in Runs |-> run'[s]]
  BY <1>2
<1>4. ASSUME NEW s \in Runs \ {r}
      PROVE  \E m \in BOOLEAN : run'[s] \in {run[s], [run[s] EXCEPT !.mixed = m]}
  <2>1. run'[s] = [run[s] EXCEPT !.mixed = run[s].at \in {"listed", "read"}]
    BY <1>2
  <2>2. (run[s].at \in {"listed", "read"}) \in BOOLEAN
    OBVIOUS
  <2>3. QED
    BY <2>1, <2>2, Zenon
<1>5. QED
  BY <1>1, <1>3, <1>4 DEF WritesTask

LEMMA FailWrites ==
  ASSUME QueueInv, NEW r \in Runs, Fail(r)
  PROVE  \E to \in {"failed", "pending"} : WritesTask(r, to)
<1>1. /\ run[r].at \notin {"free", "waiting"} /\ UNCHANGED overrun
      /\ run' = [run EXCEPT ![r] = NoRun]
      /\ lapsed' = {j \in lapsed : taskStatus'[j] = "leased"}
  BY DEF Fail
<1>2. \E to \in {"failed", "pending"} :
          taskStatus' = [taskStatus EXCEPT ![run[r].item] = IF to = run[r].saw THEN @ ELSE to]
  <2>1. CASE GivesUpOn(r)
    BY <2>1 DEF Fail, Wrote
  <2>2. CASE ~GivesUpOn(r)
    BY <2>2 DEF Fail, Wrote
  <2>3. QED
    BY <2>1, <2>2
<1>3. /\ run'[r] = NoRun /\ run' = [s \in Runs |-> run'[s]]
      /\ \A s \in Runs \ {r} : run'[s] = run[s]
  BY <1>1 DEF QueueInv, RunsAreRuns
<1>4. QED
  BY <1>1, <1>2, <1>3 DEF WritesTask

\* A run that dies leaves its task as it is; one whose rows changed goes on.
LEMMA AbandonKeeps ==
  ASSUME QueueInv, NEW r \in Runs, AbandonRun(r)
  PROVE  QueueInv'
<1> USE DEF QueueInv
<1>1. /\ UNCHANGED <<taskStatus, lapsed, overrun>> /\ run' = [run EXCEPT ![r] = NoRun]
      /\ IsRun(NoRun) /\ NoRun.at = "free" /\ NoRun.item = NoItem
  BY DEF AbandonRun, queue, IsRun, NoRun
<1>2. \A s \in Runs : run'[s] = IF s = r THEN NoRun ELSE run[s]
  BY <1>1 DEF RunsAreRuns
<1>3. RunsAreRuns' /\ StatusesTyped'
  BY <1>1, <1>2 DEF RunsAreRuns, StatusesTyped
<1>4. \A k \in Items : Holds(k)' = Holds(k) \ {r}
  BY <1>1, <1>2 DEF Holds
<1>5. LeasesTimed' /\ HeldAlone'
  BY <1>1, <1>2, <1>4 DEF LeasesTimed, HeldAlone, StatusesTyped, Holds
<1>6. QED
  BY <1>3, <1>5

LEMMA RefuseKeeps ==
  ASSUME QueueInv, NEW c \in Chats, RefusePosting(c)
  PROVE  QueueInv'
<1> USE DEF QueueInv
<1>1. /\ UNCHANGED <<taskStatus, lapsed, overrun>>
      /\ run' = [s \in Runs |-> [run[s] EXCEPT !.mixed = run[s].at \in {"listed", "read"}]]
  BY DEF RefusePosting, queue
<1>2. \A s \in Runs : /\ IsRun(run'[s]) /\ run'[s].at = run[s].at
                      /\ run'[s].item = run[s].item /\ run'[s].saw = run[s].saw
  BY <1>1 DEF RunsAreRuns, IsRun
<1>3. RunsAreRuns' /\ StatusesTyped'
  BY <1>1, <1>2 DEF RunsAreRuns, StatusesTyped
<1>4. \A k \in Items : Holds(k)' = Holds(k)
  BY <1>2 DEF Holds
<1>5. LeasesTimed' /\ HeldAlone'
  BY <1>1, <1>2, <1>4, SMTT(40) DEF LeasesTimed, HeldAlone, Holds
<1>6. QED
  BY <1>3, <1>5

LEMMA UnchangedKeeps ==
  ASSUME QueueInv, UNCHANGED <<queue, run>>
  PROVE  QueueInv'
<1>1. RunsAreRuns' /\ \A k \in Items : Holds(k)' = Holds(k)
  BY RunsKept
<1>2. QED
  BY <1>1 DEF QueueInv, StatusesTyped, LeasesTimed, HeldAlone, queue

-----------------------------------------------------------------------------
(* The invariant holds *)

LEMMA QueueInvStep == QueueInv /\ [ControlNext]_controlVars => QueueInv'
<1> SUFFICES ASSUME QueueInv, [ControlNext]_controlVars PROVE QueueInv'
  OBVIOUS
<1>1. CASE UNCHANGED controlVars
  BY <1>1, UnchangedKeeps DEF controlVars
<1>2. CASE \E k \in Items : Request(k) \/ EnqueueControl(k) \/ Lapse(k)
  BY <1>2, RequestKeeps, LapseKeeps
<1>3. CASE \E r \in Runs, k \in Items : ClaimControl(r, k)
  BY <1>3, ClaimKeeps
<1>4. CASE \E r \in Runs : RunStep(r) \/ AbandonRun(r)
  <2>1. ASSUME NEW r \in Runs, Ask(r) \/ ReadChats(r) PROVE QueueInv'
    BY <2>1, AskContinues, ContinuesKeeps
  <2>2. ASSUME NEW r \in Runs, Finish(r) PROVE QueueInv'
    BY <2>2, FinishWrites, WritesKeeps
  <2>3. ASSUME NEW r \in Runs, Fail(r) PROVE QueueInv'
    BY <2>3, FailWrites, WritesKeeps
  <2>4. ASSUME NEW r \in Runs, AbandonRun(r) PROVE QueueInv'
    BY <2>4, AbandonKeeps
  <2>5. QED
    BY <1>4, <2>1, <2>2, <2>3, <2>4 DEF RunStep
<1>5. CASE ReclaimExpiredControl
  BY <1>5, ReclaimKeeps
<1>6. CASE \E c \in Chats : Changes(c) \/ RefusePosting(c)
  BY <1>6, RefuseKeeps, UnchangedKeeps DEF Changes
<1>7. QED
  BY <1>1, <1>2, <1>3, <1>4, <1>5, <1>6 DEF ControlNext

\* However runs fail, stall and are claimed again, the run of a task whose lease
\* held is its only run and finds the row as it read it (worker.py
\* process_control_task, repositories/jobs.py claim_control_tasks).
THEOREM RunsHoldAlone == ControlSpec => []QueueInv
<1>1. QED
  BY QueueInvInit, QueueInvStep, PTL DEF ControlSpec

-----------------------------------------------------------------------------
(* The refinement *)

LEMMA WritesMaps ==
  ASSUME QueueInv, NEW r \in Runs, NEW to, WritesTask(r, to)
  PROVE  [Leases!QueueNext]_<<Place, overrun>>
<1> DEFINE k == run[r].item
           put == IF to = "pending" THEN "waiting" ELSE "ended"
<1>1. k \in Items /\ r \in Holds(k)
  BY DEF WritesTask, QueueInv, RunsAreRuns, Holds
<1>2. CASE to = run[r].saw
  <2>1. taskStatus' = taskStatus
    BY <1>2 DEF WritesTask, QueueInv, StatusesTyped
  <2>2. QED
    BY <2>1 DEF WritesTask, Place
<1>3. CASE to # run[r].saw
  <2>1. taskStatus' = [taskStatus EXCEPT ![k] = to] /\ UNCHANGED overrun
    BY <1>3 DEF WritesTask
  <2>2. Place' = [Place EXCEPT ![k] = put]
    BY <1>1, <2>1 DEF Place, WritesTask, QueueInv, StatusesTyped
  <2>3. CASE k \in overrun
    BY <1>1, <2>1, <2>2, <2>3 DEF Leases!QueueNext, Leases!Rewrite
  <2>4. CASE k \notin overrun
    <3>1. Place[k] = "taken"
      BY <1>1, <2>4 DEF QueueInv, HeldAlone, Place
    <3>2. QED
      BY <1>1, <2>1, <2>2, <3>1 DEF Leases!QueueNext, Leases!Return, Leases!End, Leases!Moves
  <2>5. QED
    BY <2>3, <2>4
<1>4. QED
  BY <1>2, <1>3

LEMMA RequestMaps ==
  ASSUME QueueInv, NEW k \in Items, Request(k) \/ EnqueueControl(k)
  PROVE  [Leases!QueueNext]_<<Place, overrun>>
<1>1. CASE Request(k)
  BY <1>1 DEF Request, Place, QueueInv, StatusesTyped
<1>2. CASE EnqueueControl(k)
  <2>1. Place[k] = "new" /\ Place' = [Place EXCEPT ![k] = "waiting"] /\ UNCHANGED overrun
    BY <1>2 DEF EnqueueControl, Place, QueueInv, StatusesTyped
  <2>2. QED
    BY <2>1 DEF Leases!QueueNext, Leases!Put, Leases!Moves
<1>3. QED
  BY <1>1, <1>2

LEMMA LapseMaps ==
  ASSUME QueueInv, NEW k \in Items, Lapse(k)
  PROVE  [Leases!QueueNext]_<<Place, overrun>>
<1>1. Place[k] = "taken" /\ Place' = Place
  BY DEF Lapse, Place
<1>2. overrun' = overrun \/ overrun' = overrun \cup {k}
  BY DEF Lapse
<1>3. QED
  BY <1>1, <1>2 DEF Leases!QueueNext, Leases!Overrun

LEMMA ClaimMaps ==
  ASSUME QueueInv, NEW r \in Runs, NEW k \in Items, ClaimControl(r, k)
  PROVE  [Leases!QueueNext]_<<Place, overrun>>
<1>1. Place[k] = "waiting" /\ Place' = [Place EXCEPT ![k] = "taken"] /\ UNCHANGED overrun
  BY DEF ClaimControl, ClaimableTasks, Place, QueueInv, StatusesTyped
<1>2. QED
  BY <1>1 DEF Leases!QueueNext, Leases!Take, Leases!Moves

LEMMA ReclaimMaps ==
  ASSUME QueueInv, ReclaimExpiredControl
  PROVE  [Leases!QueueNext]_<<Place, overrun>>
<1>1. /\ Expired \subseteq Items /\ UNCHANGED overrun
      /\ \A i \in Expired : Place[i] = "taken"
  BY DEF ReclaimExpiredControl, Expired, Place, QueueInv, StatusesTyped
<1>2. Place' = [i \in Items |-> IF i \in Expired THEN "waiting" ELSE Place[i]]
  BY DEF ReclaimExpiredControl, Place
<1>3. QED
  BY <1>1, <1>2 DEF Leases!QueueNext, Leases!Sweep

LEMMA StepMaps ==
  QueueInv /\ [ControlNext]_controlVars => [Leases!QueueNext]_<<Place, overrun>>
<1> SUFFICES ASSUME QueueInv, [ControlNext]_controlVars
             PROVE  [Leases!QueueNext]_<<Place, overrun>>
  OBVIOUS
<1>1. ASSUME UNCHANGED <<taskStatus, overrun>> PROVE UNCHANGED <<Place, overrun>>
  BY <1>1 DEF Place
<1>2. CASE UNCHANGED controlVars
  BY <1>1, <1>2 DEF controlVars, queue
<1>3. CASE \E k \in Items : Request(k) \/ EnqueueControl(k) \/ Lapse(k)
  BY <1>3, RequestMaps, LapseMaps
<1>4. CASE \E r \in Runs, k \in Items : ClaimControl(r, k)
  BY <1>4, ClaimMaps
<1>5. CASE \E r \in Runs : Finish(r) \/ Fail(r)
  BY <1>5, FinishWrites, FailWrites, WritesMaps
<1>6. CASE \E r \in Runs : Ask(r) \/ ReadChats(r) \/ AbandonRun(r)
  BY <1>1, <1>6 DEF Ask, ReadChats, AbandonRun, queue
<1>7. CASE ReclaimExpiredControl
  BY <1>7, ReclaimMaps
<1>8. CASE \E c \in Chats : Changes(c) \/ RefusePosting(c)
  BY <1>1, <1>8 DEF Changes, RefusePosting, queue
<1>9. QED
  BY <1>2, <1>3, <1>4, <1>5, <1>6, <1>7, <1>8 DEF ControlNext, RunStep

\* The queue of control tasks implements LeasedQueue: every step of a request, a
\* claim, a run or the sweep is a step of the queue or none (worker.py,
\* repositories/jobs.py).
THEOREM TasksImplementLeasedQueue == ControlSpec => QueueKept
<1>1. ControlInit => Leases!QueueInit
  BY DEF ControlInit, Leases!QueueInit, Place
<1>2. QED
  BY <1>1, StepMaps, RunsHoldAlone, PTL
     DEF ControlSpec, QueueKept, Leases!QueueSpec, Leases!queueVars

\* What the queue promises, the tasks keep: a command that has succeeded or was
\* given up is not taken up again, unless its lease ran out under a run.
THEOREM TasksEndForGood == ControlSpec => Leases!EndsForGood
<1>1. [Leases!QueueNext]_<<Place, overrun>> =>
          [\A i \in Items \ overrun : Place[i] = "ended" => Place'[i] = "ended"]_<<Place, overrun>>
  <2> SUFFICES ASSUME Leases!QueueNext, NEW i \in Items \ overrun, Place[i] = "ended"
               PROVE  Place'[i] = "ended"
    OBVIOUS
  <2>1. DOMAIN Place = Items
    BY DEF Place
  <2>2. QED
    BY <2>1 DEF Place, Leases!QueueNext, Leases!Put, Leases!Take, Leases!Return, Leases!End,
       Leases!Overrun, Leases!Rewrite, Leases!Sweep, Leases!Moves
<1>2. QED
  BY <1>1, TasksImplementLeasedQueue, PTL
     DEF QueueKept, Leases!QueueSpec, Leases!queueVars, Leases!EndsForGood

-----------------------------------------------------------------------------
(* What the rows of the chats tell *)

AtWork(r) == run[r].at \in {"listed", "read"}
Syncs(r) == AtWork(r) /\ Kind(run[r].item) = "sync_chats"
Checks(r) == AtWork(r) /\ Kind(run[r].item) = "check_chat_access"

RowsTyped ==
    /\ command \in Commands
    /\ row \in [Chats -> {"none", "active", "inactive"}]
    /\ access \in [Chats -> [read : BOOLEAN, post : BOOLEAN]]
    /\ learned \in [Chats -> {"nothing", "absent", "open", "closed"}]

\* A run nobody interfered with found the rows as they are.
ReadIsFresh ==
    \A r \in Runs :
        run[r].at = "read" /\ ~run[r].mixed =>
            run[r].had = access /\ (Syncs(r) => run[r].before = row)

\* A synchronisation lists the chats that its verdicts say the account is in.
VerdictsFit ==
    \A r \in Runs :
        /\ Syncs(r) => /\ \A c \in Chats : run[r].verdict[c].in <=> c \in run[r].listed
                       /\ \A c \in Chats : /\ run[r].verdict[c].read \in BOOLEAN
                                           /\ run[r].verdict[c].post \in BOOLEAN
                       /\ run[r].listed \subseteq Chats
        /\ Checks(r) => LET v == run[r].verdict[command[run[r].item].chat] IN
                            v.read \in BOOLEAN /\ v.post \in BOOLEAN /\ v.in

RowsInv == RowsTyped /\ ReadIsFresh /\ VerdictsFit /\ RowsTell

LEMMA RowsInvInit == ControlInit => RowsInv
<1> SUFFICES ASSUME ControlInit PROVE RowsInv
  OBVIOUS
<1>1. \A r \in Runs : run[r].at = "free"
  BY DEF ControlInit, NoRun
<1>2. RowsTyped /\ RowsTell
  BY SMTT(40) DEF ControlInit, RowsTyped, RowsTell, NoAccess
<1>3. QED
  BY <1>1, <1>2 DEF RowsInv, ReadIsFresh, VerdictsFit, Syncs, Checks, AtWork

\* Runs that are not at work, or as they were, keep what is known of them.
Kept(r) ==
    \/ run'[r].at \notin {"listed", "read"}
    \/ /\ run'[r].at = run[r].at /\ run'[r].item = run[r].item
       /\ run'[r].listed = run[r].listed /\ run'[r].verdict = run[r].verdict
       /\ run'[r].before = run[r].before /\ run'[r].had = run[r].had
       /\ (~run'[r].mixed /\ run[r].at = "read") =>
              ~run[r].mixed /\ UNCHANGED <<row, access>>

LEMMA KeptIsFine ==
  ASSUME RowsInv, UNCHANGED command, NEW r \in Runs, Kept(r)
  PROVE  /\ run'[r].at = "read" /\ ~run'[r].mixed =>
                run'[r].had = access' /\ (Syncs(r)' => run'[r].before = row')
         /\ Syncs(r)' => /\ \A c \in Chats : run'[r].verdict[c].in <=> c \in run'[r].listed
                         /\ \A c \in Chats : /\ run'[r].verdict[c].read \in BOOLEAN
                                             /\ run'[r].verdict[c].post \in BOOLEAN
                         /\ run'[r].listed \subseteq Chats
         /\ Checks(r)' => LET v == run'[r].verdict[command'[run'[r].item].chat] IN
                              v.read \in BOOLEAN /\ v.post \in BOOLEAN /\ v.in
<1>1. Kind(run[r].item)' = Kind(run'[r].item)
  BY DEF Kind
<1>2. CASE run'[r].at \notin {"listed", "read"}
  BY <1>2, SMTT(40) DEF Syncs, Checks, AtWork
<1>3. CASE run'[r].at \in {"listed", "read"}
  <2>1. /\ run'[r].at = run[r].at /\ run'[r].item = run[r].item
        /\ run'[r].listed = run[r].listed /\ run'[r].verdict = run[r].verdict
        /\ run'[r].before = run[r].before /\ run'[r].had = run[r].had
        /\ (~run'[r].mixed /\ run[r].at = "read") =>
               ~run[r].mixed /\ UNCHANGED <<row, access>>
    BY <1>3 DEF Kept
  <2>2. (Syncs(r)' <=> Syncs(r)) /\ (Checks(r)' <=> Checks(r))
    BY <1>1, <2>1 DEF Syncs, Checks, AtWork
  <2>3. run'[r].at = "read" /\ ~run'[r].mixed =>
            run'[r].had = access' /\ (Syncs(r)' => run'[r].before = row')
    BY <2>1, <2>2 DEF RowsInv, ReadIsFresh
  <2>4. command'[run'[r].item].chat = command[run[r].item].chat
    BY <2>1
  <2>5. QED
    BY <2>1, <2>2, <2>3, <2>4 DEF RowsInv, VerdictsFit
<1>4. QED
  BY <1>2, <1>3, SMTT(40)

\* A step that writes no row keeps what the rows tell.
LEMMA KeptKeeps ==
  ASSUME RowsInv, UNCHANGED <<command, chats>>, \A r \in Runs : Kept(r)
  PROVE  RowsInv'
<1>1. RowsTyped' /\ RowsTell'
  BY DEF RowsInv, RowsTyped, RowsTell, chats
<1>2. ReadIsFresh' /\ VerdictsFit'
  BY KeptIsFine DEF ReadIsFresh, VerdictsFit
<1>3. QED
  BY <1>1, <1>2 DEF RowsInv

LEMMA RunsUnchangedKeep ==
  ASSUME RowsInv, UNCHANGED <<command, chats, run>>
  PROVE  RowsInv'
<1>1. \A r \in Runs : Kept(r)
  BY DEF Kept, chats
<1>2. QED
  BY <1>1, KeptKeeps

\* One run moves and no row is written.
LEMMA OneMovesKeeps ==
  ASSUME QueueInv, RowsInv, UNCHANGED <<command, chats>>, NEW r \in Runs, NEW x,
         run' = [run EXCEPT ![r] = x], x.at \notin {"listed", "read"}
  PROVE  RowsInv'
<1>1. \A s \in Runs : run'[s] = IF s = r THEN x ELSE run[s]
  BY DEF QueueInv, RunsAreRuns
<1>2. UNCHANGED <<row, access>>
  BY DEF chats
<1>3. \A s \in Runs : Kept(s)
  BY <1>1, <1>2 DEF Kept
<1>4. QED
  BY <1>3, KeptKeeps

\* Telegram's answer: what it lists is what it says the account is in.
LEMMA AskKeeps ==
  ASSUME ~OfBot, QueueInv, RowsInv, NEW r \in Runs, Ask(r)
  PROVE  RowsInv'
<1> DEFINE k == run[r].item  c == command[k].chat
<1>1. /\ run[r].at = "waiting" /\ UNCHANGED <<command, chats, row, access>> /\ IsRun(run[r])
      /\ run = [s \in Runs |-> run[s]]
  BY DEF Ask, queue, chats, QueueInv, RunsAreRuns
<1>2. CASE /\ Kind(k) = "sync_chats"
           /\ run' = [run EXCEPT ![r] = [RunBegins(r, "listed") EXCEPT
                         !.listed = Listed, !.verdict = [d \in Chats |-> Verdict(d)]]]
  <2>1. /\ run'[r].at = "listed" /\ run'[r].item = k
        /\ run'[r].listed = Listed /\ run'[r].verdict = [d \in Chats |-> Verdict(d)]
        /\ \A s \in Runs \ {r} : run'[s] = run[s]
    BY <1>1, <1>2 DEF RunBegins, IsRun
  <2>2. /\ Listed \subseteq Chats
        /\ \A d \in Chats : /\ Verdict(d).in <=> d \in Listed
                            /\ Verdict(d).read \in BOOLEAN /\ Verdict(d).post \in BOOLEAN
    BY DEF Listed, Verdict, MayRead, MayPost
  <2>3. \A s \in Runs \ {r} : Kept(s)
    BY <1>1, <2>1 DEF Kept
  <2>4. RowsTyped' /\ RowsTell'
    BY <1>1 DEF RowsInv, RowsTyped, RowsTell, chats
  <2>5. ~Checks(r)' /\ run'[r].at # "read"
    BY <1>1, <1>2, <2>1 DEF Checks, Kind
  <2>6. ReadIsFresh'
    BY <1>1, <2>3, <2>5, KeptIsFine, SMTT(40) DEF ReadIsFresh
  <2>7. VerdictsFit'
    BY <1>1, <2>1, <2>2, <2>3, <2>5, KeptIsFine DEF VerdictsFit
  <2>8. QED
    BY <2>4, <2>6, <2>7 DEF RowsInv
<1>3. CASE /\ Kind(k) # "sync_chats"
           /\ \E v \in Checked(c) :
                 run' = [run EXCEPT ![r] = [RunBegins(r, "read") EXCEPT
                            !.verdict = [d \in {c} |-> v], !.had = access]]
  <2>1. PICK v \in Checked(c) :
            run' = [run EXCEPT ![r] = [RunBegins(r, "read") EXCEPT
                       !.verdict = [d \in {c} |-> v], !.had = access]]
    BY <1>3
  <2>2. /\ run'[r].at = "read" /\ run'[r].item = k
        /\ run'[r].had = access /\ run'[r].verdict = [d \in {c} |-> v]
        /\ \A s \in Runs \ {r} : run'[s] = run[s]
    BY <1>1, <2>1 DEF RunBegins, IsRun
  <2>3. v.read \in BOOLEAN /\ v.post \in BOOLEAN /\ v.in
    BY DEF Checked
  <2>4. run'[r].verdict[c] = v
    BY <2>2
  <2>5. \A s \in Runs \ {r} : Kept(s)
    BY <1>1, <2>2 DEF Kept
  <2>6. RowsTyped' /\ RowsTell'
    BY <1>1 DEF RowsInv, RowsTyped, RowsTell, chats
  <2>7. ~Syncs(r)'
    BY <1>1, <1>3, <2>2, SMTT(40) DEF Syncs, Kind
  <2>8. ReadIsFresh'
    BY <1>1, <2>2, <2>5, <2>7, KeptIsFine, SMTT(40) DEF ReadIsFresh
  <2>9. VerdictsFit'
    BY <1>1, <2>2, <2>3, <2>4, <2>5, <2>7, KeptIsFine, ZenonT(60) DEF VerdictsFit
  <2>10. QED
    BY <2>6, <2>8, <2>9 DEF RowsInv
<1>4. CASE \E how \in Raises(k) : run' = [run EXCEPT ![r] = RunBegins(r, how)]
  <2>1. PICK how \in {"retryable", "final"} : run' = [run EXCEPT ![r] = RunBegins(r, how)]
    BY <1>4 DEF Raises
  <2>2. RunBegins(r, how).at = how
    BY <1>1 DEF RunBegins, IsRun
  <2>3. QED
    BY <1>1, <2>1, <2>2, OneMovesKeeps
<1>5. QED
  BY <1>2, <1>3, <1>4 DEF Ask

\* The rows are read.
LEMMA ReadKeeps ==
  ASSUME QueueInv, RowsInv, NEW r \in Runs, ReadChats(r)
  PROVE  RowsInv'
<1>1. /\ run[r].at = "listed" /\ UNCHANGED <<command, chats, row, access>>
      /\ IsRun(run[r]) /\ run = [s \in Runs |-> run[s]]
      /\ run' = [run EXCEPT ![r].at = "read", ![r].before = row, ![r].had = access]
  BY DEF ReadChats, queue, chats, QueueInv, RunsAreRuns
<1>2. /\ run'[r].at = "read" /\ run'[r].before = row /\ run'[r].had = access
      /\ run'[r].item = run[r].item /\ run'[r].listed = run[r].listed
      /\ run'[r].verdict = run[r].verdict
      /\ \A s \in Runs \ {r} : run'[s] = run[s]
  BY <1>1 DEF IsRun
<1>3. \A s \in Runs \ {r} : Kept(s)
  BY <1>1, <1>2 DEF Kept
<1>4. RowsTyped' /\ RowsTell'
  BY <1>1 DEF RowsInv, RowsTyped, RowsTell, chats
<1>5. ReadIsFresh'
  BY <1>1, <1>2, <1>3, KeptIsFine, ZenonT(60) DEF ReadIsFresh
<1>6. /\ Syncs(r)' => Syncs(r)
      /\ Checks(r)' => Checks(r)
  BY <1>1, <1>2 DEF Syncs, Checks, AtWork, Kind
<1>7. VerdictsFit'
  <2>1. command'[run'[r].item].chat = command[run[r].item].chat
    BY <1>1, <1>2
  <2>2. /\ Syncs(r) => /\ \A c \in Chats : run[r].verdict[c].in <=> c \in run[r].listed
                       /\ \A c \in Chats : /\ run[r].verdict[c].read \in BOOLEAN
                                           /\ run[r].verdict[c].post \in BOOLEAN
                       /\ run[r].listed \subseteq Chats
        /\ Checks(r) => LET v == run[r].verdict[command[run[r].item].chat] IN
                            v.read \in BOOLEAN /\ v.post \in BOOLEAN /\ v.in
    BY SMTT(40) DEF RowsInv, VerdictsFit
  <2>3. /\ Syncs(r)' => /\ \A c \in Chats : run'[r].verdict[c].in <=> c \in run'[r].listed
                        /\ \A c \in Chats : /\ run'[r].verdict[c].read \in BOOLEAN
                                            /\ run'[r].verdict[c].post \in BOOLEAN
                        /\ run'[r].listed \subseteq Chats
        /\ Checks(r)' => LET v == run'[r].verdict[command'[run'[r].item].chat] IN
                             v.read \in BOOLEAN /\ v.post \in BOOLEAN /\ v.in
    BY <1>2, <1>6, <2>1, <2>2
  <2>4. QED
    BY <1>1, <1>3, <2>3, KeptIsFine, ZenonT(60) DEF VerdictsFit
<1>8. QED
  BY <1>4, <1>5, <1>7 DEF RowsInv

\* A run that writes rows spoils what the others have read.
LEMMA OthersKept ==
  ASSUME QueueInv, NEW r \in Runs, Frees(r)
  PROVE  \A s \in Runs : Kept(s)
<1>1. \A s \in Runs \ {r} : run'[s] = [run[s] EXCEPT !.mixed = run[s].at \in {"listed", "read"}]
  BY DEF Frees
<1>2. run'[r] = NoRun
  BY DEF Frees
<1>3. ASSUME NEW s \in Runs \ {r} PROVE Kept(s)
  <2>1. IsRun(run[s])
    BY DEF QueueInv, RunsAreRuns
  <2>2. /\ run'[s].at = run[s].at /\ run'[s].item = run[s].item
        /\ run'[s].listed = run[s].listed /\ run'[s].verdict = run[s].verdict
        /\ run'[s].before = run[s].before /\ run'[s].had = run[s].had
    BY <1>1, <2>1 DEF IsRun
  <2>3. run'[s].mixed = (run[s].at \in {"listed", "read"})
    BY <1>1, <2>1 DEF IsRun
  <2>4. QED
    BY <2>2, <2>3 DEF Kept
<1>4. QED
  BY <1>2, <1>3 DEF Kept, NoRun

LEMMA FinishKeeps ==
  ASSUME QueueInv, RowsInv, NEW r \in Runs, Finish(r)
  PROVE  RowsInv'
<1> DEFINE k == run[r].item  c == command[k].chat
<1>1. run[r].at = "read" /\ UNCHANGED command /\ Frees(r)
  BY SMTT(40) DEF Finish
<1>2. ReadIsFresh' /\ VerdictsFit'
  BY <1>1, OthersKept, KeptIsFine DEF ReadIsFresh, VerdictsFit
<1>3. k \in Items
  BY <1>1 DEF QueueInv, RunsAreRuns
<1>4. CASE Synchronize(r)
  <2>1. Syncs(r)
    BY <1>1, <1>4 DEF Synchronize, Syncs, AtWork
  <2>2. /\ row' = [d \in Chats |-> SyncedRow(r, d)]
        /\ access' = [d \in Chats |-> IF d \in run[r].listed THEN StoredAccess(r, d)
                                      ELSE access[d]]
        /\ learned' = [d \in Chats |->
              IF d \notin Chats THEN learned[d] ELSE IF run[r].mixed THEN "nothing"
              ELSE IF ~run[r].verdict[d].in THEN "absent"
              ELSE IF run[r].verdict[d].post THEN "open" ELSE "closed"]
    BY <1>4 DEF Synchronize, Learns
  <2>3. ASSUME NEW d \in Chats
        PROVE  /\ row'[d] \in {"none", "active", "inactive"}
               /\ access'[d] \in [read : BOOLEAN, post : BOOLEAN]
               /\ learned'[d] \in {"nothing", "absent", "open", "closed"}
    <3>1. row'[d] \in {"none", "active", "inactive"}
      BY <2>2 DEF SyncedRow, Wrote, RowsInv, RowsTyped
    <3>2. learned'[d] \in {"nothing", "absent", "open", "closed"}
      BY <2>2
    <3>3. access'[d] \in [read : BOOLEAN, post : BOOLEAN]
      <4>1. run[r].verdict[d].read \in BOOLEAN /\ run[r].verdict[d].post \in BOOLEAN
        BY <2>1 DEF RowsInv, VerdictsFit
      <4>2. access[d] \in [read : BOOLEAN, post : BOOLEAN]
        BY DEF RowsInv, RowsTyped
      <4>3. StoredAccess(r, d) \in [read : BOOLEAN, post : BOOLEAN]
        BY <4>1, <4>2 DEF StoredAccess, Wrote
      <4>4. QED
        BY <2>2, <4>2, <4>3, SMTT(40)
    <3>4. QED
      BY <3>1, <3>2, <3>3
  <2>4. RowsTyped'
    BY <1>1, <2>2, <2>3 DEF RowsInv, RowsTyped
  <2>5. ASSUME NEW d \in Chats, ~run[r].mixed
        PROVE  /\ learned'[d] = "absent" => row'[d] # "active"
               /\ learned'[d] \in {"open", "closed"} =>
                      row'[d] = "active" /\ (access'[d].post <=> learned'[d] = "open")
    <3>1. run[r].had = access /\ run[r].before = row
      BY <1>1, <2>1, <2>5, SMTT(40) DEF RowsInv, ReadIsFresh
    <3>2. run[r].verdict[d].in <=> d \in run[r].listed
      BY <2>1 DEF RowsInv, VerdictsFit
    <3>3. CASE d \in run[r].listed
      <4>1. row'[d] = "active"
        BY <2>2, <3>1, <3>3 DEF SyncedRow, Wrote
      <4>2. access'[d].post = run[r].verdict[d].post
        BY <2>2, <3>1, <3>3 DEF StoredAccess, Wrote
      <4>3. learned'[d] = IF run[r].verdict[d].post THEN "open" ELSE "closed"
        BY <2>2, <2>5, <3>2, <3>3
      <4>4. QED
        BY <4>1, <4>2, <4>3
    <3>4. CASE d \notin run[r].listed
      <4>1. row'[d] # "active" /\ learned'[d] = "absent"
        BY <2>2, <2>5, <3>2, <3>4 DEF SyncedRow
      <4>2. QED
        BY <4>1
    <3>5. QED
      BY <3>3, <3>4
  <2>6. run[r].mixed => \A d \in Chats : learned'[d] = "nothing"
    BY <2>2
  <2>7. RowsTell'
    BY <2>5, <2>6 DEF RowsTell
  <2>8. QED
    BY <1>2, <2>4, <2>7 DEF RowsInv
<1>5. CASE RecheckChat(r)
  <2>1. Checks(r) /\ c \in Chats
    BY <1>1, <1>3, <1>5, ZenonT(60) DEF RecheckChat, Checks, AtWork, RowsInv, RowsTyped
  <2>2. /\ access' = [access EXCEPT ![c] = StoredAccess(r, c)] /\ row' = row
        /\ learned' = [d \in Chats |->
              IF d \notin {c} THEN learned[d] ELSE IF run[r].mixed THEN "nothing"
              ELSE IF row[d] # "active" THEN "absent"
              ELSE IF run[r].verdict[d].post THEN "open" ELSE "closed"]
    BY <1>5 DEF RecheckChat, Learns
  <2>3. run[r].verdict[c].read \in BOOLEAN /\ run[r].verdict[c].post \in BOOLEAN
    BY <2>1 DEF RowsInv, VerdictsFit
  <2>4. access[c] \in [read : BOOLEAN, post : BOOLEAN]
    BY <2>1, SMTT(40) DEF RowsInv, RowsTyped
  <2>5. StoredAccess(r, c) \in [read : BOOLEAN, post : BOOLEAN]
    BY <2>3, <2>4 DEF StoredAccess, Wrote
  <2>6. RowsTyped'
    BY <1>1, <2>1, <2>2, <2>5 DEF RowsInv, RowsTyped
  <2>7. ASSUME NEW d \in Chats
        PROVE  /\ learned'[d] = "absent" => row'[d] # "active"
               /\ learned'[d] \in {"open", "closed"} =>
                      row'[d] = "active" /\ (access'[d].post <=> learned'[d] = "open")
    <3>1. CASE d # c
      <4>1. learned'[d] = learned[d] /\ access'[d] = access[d]
        BY <2>1, <2>2, <3>1 DEF RowsInv, RowsTyped
      <4>2. QED
        BY <2>2, <4>1 DEF RowsInv, RowsTell
    <3>2. CASE d = c /\ run[r].mixed
      BY <2>2, <3>2, SMTT(40)
    <3>3. CASE d = c /\ ~run[r].mixed
      <4>1. run[r].had = access
        BY <1>1, <3>3, SMTT(40) DEF RowsInv, ReadIsFresh
      <4>2. access'[c].post = run[r].verdict[c].post
        BY <2>1, <2>2, <4>1 DEF StoredAccess, Wrote, RowsInv, RowsTyped
      <4>3. QED
        BY <2>2, <2>3, <3>3, <4>2, ZenonT(60)
    <3>4. QED
      BY <3>1, <3>2, <3>3
  <2>8. QED
    BY <1>2, <2>6, <2>7 DEF RowsInv, RowsTell
<1>6. CASE HealthOrDisconnect(r)
  <2>1. UNCHANGED <<row, access, learned, command>>
    BY <1>1, <1>6 DEF HealthOrDisconnect, chats
  <2>2. QED
    BY <1>2, <2>1 DEF RowsInv, RowsTyped, RowsTell
<1>7. QED
  BY <1>4, <1>5, <1>6 DEF Finish

\* A delivery that is refused says so in the row and spoils what others have read.
LEMMA RefuseRowsKeeps ==
  ASSUME QueueInv, RowsInv, NEW c \in Chats, RefusePosting(c)
  PROVE  RowsInv'
<1>1. /\ row[c] = "active" /\ UNCHANGED <<row, command>>
      /\ access' = [access EXCEPT ![c].post = FALSE]
      /\ learned' = [learned EXCEPT ![c] = IF @ = "nothing" THEN @ ELSE "closed"]
      /\ run' = [s \in Runs |-> [run[s] EXCEPT !.mixed = run[s].at \in {"listed", "read"}]]
  BY DEF RefusePosting, queue
<1>2. ASSUME NEW s \in Runs PROVE Kept(s)
  <2>1. IsRun(run[s]) /\ run'[s] = [run[s] EXCEPT !.mixed = run[s].at \in {"listed", "read"}]
    BY <1>1 DEF QueueInv, RunsAreRuns
  <2>2. /\ run'[s].at = run[s].at /\ run'[s].item = run[s].item
        /\ run'[s].listed = run[s].listed /\ run'[s].verdict = run[s].verdict
        /\ run'[s].before = run[s].before /\ run'[s].had = run[s].had
    BY <2>1 DEF IsRun
  <2>3. run'[s].mixed = (run[s].at \in {"listed", "read"})
    BY <2>1 DEF IsRun
  <2>4. QED
    BY <2>2, <2>3 DEF Kept
<1>3. ReadIsFresh' /\ VerdictsFit'
  BY <1>1, <1>2, KeptIsFine DEF ReadIsFresh, VerdictsFit
<1>4. RowsTyped'
  BY <1>1 DEF RowsInv, RowsTyped
<1>5. \A d \in Chats :
        /\ row'[d] = row[d]
        /\ d # c => access'[d] = access[d] /\ learned'[d] = learned[d]
  BY <1>1 DEF RowsInv, RowsTyped
<1>6. /\ row'[c] = "active" /\ ~access'[c].post
      /\ learned'[c] \in {"nothing", "closed"} \/ learned'[c] = learned[c]
      /\ learned'[c] # "open"
      /\ learned[c] # "absent"
  BY <1>1 DEF RowsInv, RowsTyped, RowsTell
<1>7. RowsTell'
  <2> SUFFICES ASSUME NEW d \in Chats
               PROVE  /\ learned'[d] = "absent" => row'[d] # "active"
                      /\ learned'[d] \in {"open", "closed"} =>
                             row'[d] = "active" /\ (access'[d].post <=> learned'[d] = "open")
    BY DEF RowsTell
  <2>1. CASE d = c
    BY <2>1, <1>6
  <2>2. CASE d # c
    BY <2>2, <1>5 DEF RowsInv, RowsTell
  <2>3. QED
    BY <2>1, <2>2
<1>8. QED
  BY <1>3, <1>4, <1>7 DEF RowsInv

LEMMA RowsInvStep ==
  ~OfBot /\ QueueInv /\ RowsInv /\ [ControlNext]_controlVars => RowsInv'
<1> SUFFICES ASSUME ~OfBot, QueueInv, RowsInv, [ControlNext]_controlVars PROVE RowsInv'
  OBVIOUS
<1>1. CASE UNCHANGED <<command, chats, run>>
  BY <1>1, RunsUnchangedKeep
<1>2. ASSUME NEW k \in Items, Request(k) \/ EnqueueControl(k) \/ Lapse(k)
      PROVE  UNCHANGED <<command, chats, run>>
  BY <1>2 DEF Request, EnqueueControl, Lapse
<1>3. ASSUME NEW r \in Runs, NEW k \in Items, ClaimControl(r, k) PROVE RowsInv'
  <2>1. /\ UNCHANGED <<command, chats, row, access>>
        /\ run' = [run EXCEPT ![r].at = "waiting", ![r].item = k]
        /\ IsRun(run[r]) /\ run = [s \in Runs |-> run[s]]
    BY <1>3 DEF ClaimControl, QueueInv, RunsAreRuns, chats
  <2>2. run'[r].at = "waiting" /\ \A s \in Runs \ {r} : run'[s] = run[s]
    BY <2>1 DEF IsRun
  <2>3. \A s \in Runs : Kept(s)
    BY <2>1, <2>2 DEF Kept
  <2>4. QED
    BY <2>1, <2>3, KeptKeeps
<1>4. ASSUME NEW r \in Runs, Fail(r) \/ AbandonRun(r) PROVE RowsInv'
  <2>1. UNCHANGED <<command, chats>> /\ run' = [run EXCEPT ![r] = NoRun]
    BY <1>4 DEF Fail, AbandonRun, queue
  <2>2. QED
    BY <2>1, OneMovesKeeps DEF NoRun
<1>5. ASSUME NEW r \in Runs, RunStep(r) \/ AbandonRun(r) PROVE RowsInv'
  BY <1>4, <1>5, AskKeeps, ReadKeeps, FinishKeeps DEF RunStep
<1>6. CASE ReclaimExpiredControl
  BY <1>1, <1>6 DEF ReclaimExpiredControl
<1>7. ASSUME NEW c \in Chats, Changes(c) \/ RefusePosting(c) PROVE RowsInv'
  BY <1>1, <1>7, RefuseRowsKeeps DEF Changes, queue
<1>8. CASE UNCHANGED controlVars
  BY <1>1, <1>8 DEF controlVars, queue
<1>9. QED
  BY <1>1, <1>2, <1>3, <1>5, <1>6, <1>7, <1>8 DEF ControlNext

\* For an account: what the rows of its chats say is what the last run that nobody
\* interfered with was shown, however runs overlap, fail or die (services/sync.py,
\* repositories/chats.py).  A bot's synchronisation lists nothing.
THEOREM RowsTellWhatWasShown == ~OfBot => (ControlSpec => []RowsTell)
<1> SUFFICES ASSUME ~OfBot PROVE ControlSpec => []RowsTell
  OBVIOUS
<1>1. ControlInit => RowsInv
  BY RowsInvInit
<1>2. QueueInv /\ RowsInv /\ [ControlNext]_controlVars => RowsInv'
  BY RowsInvStep
<1>3. RowsInv => RowsTell
  BY DEF RowsInv
<1>4. QED
  BY <1>1, <1>2, <1>3, RunsHoldAlone, PTL DEF ControlSpec

-----------------------------------------------------------------------------
(* The types, for an account's connection and for a bot's *)

\* A run that has had its turn has read its row, and counts from what it read.
Performed(r) == run[r].at \notin {"free", "waiting"}

WrittenTyped ==
    /\ command \in Commands
    /\ row \in [Chats -> {"none", "active", "inactive"}]
    /\ access \in [Chats -> [read : BOOLEAN, post : BOOLEAN]]
    /\ outbox \subseteq Items \X {"sync_complete", "control_task_failed"}
    /\ attempts \in [Items -> Nat]

\* What a run will write is of the columns' types.
AnswersTyped ==
    \A r \in Runs :
        /\ Performed(r) => run[r].tries \in Nat
        /\ Syncs(r) => /\ run[r].listed \subseteq Chats
                       /\ \A c \in Chats : /\ run[r].verdict[c].read \in BOOLEAN
                                           /\ run[r].verdict[c].post \in BOOLEAN
        /\ Checks(r) => LET v == run[r].verdict[command[run[r].item].chat] IN
                            v.read \in BOOLEAN /\ v.post \in BOOLEAN

\* A command whose lease held has not used up its attempts before it ends, and the
\* run that holds it knows how many it has used.
TriesTell ==
    \A k \in Items \ overrun :
        /\ attempts[k] <= GiveUpAfter
        /\ taskStatus[k] \notin {"succeeded", "failed"} => attempts[k] < GiveUpAfter
        /\ \A r \in Holds(k) : Performed(r) => run[r].tries = attempts[k]

ControlInv == WrittenTyped /\ AnswersTyped /\ TriesTell

LEMMA ControlInvInit == ControlInit => ControlInv
<1> SUFFICES ASSUME ControlInit PROVE ControlInv
  OBVIOUS
<1>1. \A r \in Runs : run[r].at = "free" /\ run[r].item = NoItem
  BY DEF ControlInit, NoRun
<1>2. WrittenTyped
  BY DEF ControlInit, WrittenTyped, NoAccess
<1>3. AnswersTyped
  BY <1>1 DEF AnswersTyped, Performed, Syncs, Checks, AtWork
<1>4. TriesTell
  BY <1>1 DEF ControlInit, TriesTell, Holds
<1>5. QED
  BY <1>2, <1>3, <1>4 DEF ControlInv

\* A run that is freed, or claims, or goes on with what it had.
Carries(r) ==
    \/ ~Performed(r)'
    \/ /\ Performed(r) /\ (AtWork(r)' => AtWork(r))
       /\ run'[r].item = run[r].item /\ run'[r].tries = run[r].tries
       /\ run'[r].listed = run[r].listed /\ run'[r].verdict = run[r].verdict

LEMMA AnswersCarried ==
  ASSUME AnswersTyped, UNCHANGED command, NEW r \in Runs, Carries(r)
  PROVE  /\ Performed(r)' => run'[r].tries \in Nat
         /\ Syncs(r)' => /\ run'[r].listed \subseteq Chats
                         /\ \A c \in Chats : /\ run'[r].verdict[c].read \in BOOLEAN
                                             /\ run'[r].verdict[c].post \in BOOLEAN
         /\ Checks(r)' => LET v == run'[r].verdict[command'[run'[r].item].chat] IN
                              v.read \in BOOLEAN /\ v.post \in BOOLEAN
<1>1. CASE ~Performed(r)'
  BY <1>1 DEF Performed, Syncs, Checks, AtWork
<1>2. CASE /\ Performed(r) /\ (AtWork(r)' => AtWork(r))
           /\ run'[r].item = run[r].item /\ run'[r].tries = run[r].tries
           /\ run'[r].listed = run[r].listed /\ run'[r].verdict = run[r].verdict
  <2>1. (Syncs(r)' => Syncs(r)) /\ (Checks(r)' => Checks(r))
    BY <1>2 DEF Syncs, Checks, Kind
  <2>2. /\ Performed(r) => run[r].tries \in Nat
        /\ Syncs(r) => /\ run[r].listed \subseteq Chats
                       /\ \A c \in Chats : /\ run[r].verdict[c].read \in BOOLEAN
                                           /\ run[r].verdict[c].post \in BOOLEAN
        /\ Checks(r) => LET v == run[r].verdict[command[run[r].item].chat] IN
                            v.read \in BOOLEAN /\ v.post \in BOOLEAN
    BY DEF AnswersTyped
  <2>3. QED
    BY <1>2, <2>1, <2>2
<1>3. QED
  BY <1>1, <1>2 DEF Carries

\* No run computes anything: what runs will write is as it was.
LEMMA AnswersKept ==
  ASSUME AnswersTyped, UNCHANGED command, \A r \in Runs : Carries(r)
  PROVE  AnswersTyped'
<1>1. \A r \in Runs :
         /\ Performed(r)' => run'[r].tries \in Nat
         /\ Syncs(r)' => /\ run'[r].listed \subseteq Chats
                         /\ \A c \in Chats : /\ run'[r].verdict[c].read \in BOOLEAN
                                             /\ run'[r].verdict[c].post \in BOOLEAN
         /\ Checks(r)' => LET v == run'[r].verdict[command'[run'[r].item].chat] IN
                              v.read \in BOOLEAN /\ v.post \in BOOLEAN
  BY AnswersCarried
<1>2. QED
  BY <1>1 DEF AnswersTyped

\* No attempt is counted, no lease is renewed, no command that ended is revived.
LEMMA TriesKept ==
  ASSUME TriesTell, UNCHANGED attempts, overrun \subseteq overrun',
         \A k \in Items \ overrun' : taskStatus[k] \in {"succeeded", "failed"} =>
                                        taskStatus'[k] \in {"succeeded", "failed"},
         \A r \in Runs : Carries(r)
  PROVE  TriesTell'
<1>1. \A k \in Items, r \in Runs : r \in Holds(k)' /\ Performed(r)' =>
          r \in Holds(k) /\ Performed(r) /\ run'[r].tries = run[r].tries
  BY DEF Carries, Holds
<1>2. \A k \in Items : Holds(k)' \subseteq Runs
  BY DEF Holds
<1>3. QED
  BY <1>1, <1>2 DEF TriesTell

LEMMA StillCarries ==
  ASSUME UNCHANGED run, NEW r \in Runs
  PROVE  Carries(r)
  BY DEF Carries, Performed, AtWork

\* A request, a claim, a lease that runs out, the sweep, a change at Telegram.
LEMMA RestTyped ==
  ASSUME QueueInv, ControlInv,
         \/ \E k \in Items : Request(k) \/ EnqueueControl(k) \/ Lapse(k)
         \/ \E r \in Runs, k \in Items : ClaimControl(r, k)
         \/ ReclaimExpiredControl
         \/ \E c \in Chats : Changes(c)
         \/ \E r \in Runs : AbandonRun(r)
         \/ UNCHANGED controlVars
  PROVE  ControlInv'
<1>1. UNCHANGED <<command, attempts, row, access, outbox>> /\ overrun \subseteq overrun'
  BY DEF Request, EnqueueControl, Lapse, ClaimControl, ReclaimExpiredControl, Changes, AbandonRun,
         controlVars, queue, chats
<1>2. WrittenTyped'
  BY <1>1 DEF ControlInv, WrittenTyped
<1>3. ASSUME NEW k \in Items, taskStatus[k] \in {"succeeded", "failed"}
      PROVE  taskStatus'[k] \in {"succeeded", "failed"}
  <2>1. CASE \E j \in Items : Request(j) \/ EnqueueControl(j)
    BY <1>3, <2>1 DEF Request, EnqueueControl, QueueInv, StatusesTyped
  <2>2. CASE \E r \in Runs, j \in Items : ClaimControl(r, j)
    BY <1>3, <2>2 DEF ClaimControl, ClaimableTasks, QueueInv, StatusesTyped
  <2>3. CASE ReclaimExpiredControl
    BY <1>3, <2>3 DEF ReclaimExpiredControl, Expired
  <2>4. CASE UNCHANGED taskStatus
    BY <1>3, <2>4
  <2>5. QED
    BY <2>1, <2>2, <2>3, <2>4 DEF Lapse, Changes, AbandonRun, controlVars, queue
<1>4. ASSUME NEW s \in Runs PROVE Carries(s)
  <2>1. CASE UNCHANGED run
    BY <2>1, StillCarries
  <2>2. ASSUME NEW r \in Runs, AbandonRun(r) PROVE Carries(s)
    <3>1. run'[s] = IF s = r THEN NoRun ELSE run[s]
      BY <2>2 DEF AbandonRun, QueueInv, RunsAreRuns
    <3>2. QED
      BY <3>1 DEF Carries, Performed, AtWork, NoRun
  <2>3. ASSUME NEW r \in Runs, NEW k \in Items, ClaimControl(r, k) PROVE Carries(s)
    <3>1. /\ run' = [run EXCEPT ![r].at = "waiting", ![r].item = k]
          /\ IsRun(run[r]) /\ run = [q \in Runs |-> run[q]]
      BY <2>3 DEF ClaimControl, QueueInv, RunsAreRuns
    <3>2. run'[r].at = "waiting" /\ \A q \in Runs \ {r} : run'[q] = run[q]
      BY <3>1 DEF IsRun
    <3>3. QED
      BY <3>2 DEF Carries, Performed, AtWork
  <2>4. QED
    BY <2>1, <2>2, <2>3 DEF Request, EnqueueControl, Lapse, ReclaimExpiredControl, Changes,
       controlVars, queue
<1>5. QED
  BY <1>1, <1>2, <1>3, <1>4, AnswersKept, TriesKept DEF ControlInv

\* One run is at work; the others carry on.
LEMMA OneAnswers ==
  ASSUME ControlInv, UNCHANGED <<queue, chats, outbox>>, NEW r \in Runs,
         \A s \in Runs \ {r} : run'[s] = run[s],
         run'[r].item = run[r].item, run'[r].tries = attempts[run[r].item],
         run'[r].tries \in Nat,
         Syncs(r)' => /\ run'[r].listed \subseteq Chats
                      /\ \A c \in Chats : /\ run'[r].verdict[c].read \in BOOLEAN
                                          /\ run'[r].verdict[c].post \in BOOLEAN,
         Checks(r)' => LET v == run'[r].verdict[command[run'[r].item].chat] IN
                           v.read \in BOOLEAN /\ v.post \in BOOLEAN
  PROVE  ControlInv'
<1>1. UNCHANGED <<command, attempts, overrun, taskStatus, row, access, outbox>>
  BY DEF queue, chats
<1>2. WrittenTyped'
  BY <1>1 DEF ControlInv, WrittenTyped
<1>3. \A s \in Runs \ {r} : Carries(s)
  BY DEF Carries, Performed, AtWork
<1>4. AnswersTyped'
  <2>1. \A s \in Runs \ {r} :
         /\ Performed(s)' => run'[s].tries \in Nat
         /\ Syncs(s)' => /\ run'[s].listed \subseteq Chats
                         /\ \A c \in Chats : /\ run'[s].verdict[c].read \in BOOLEAN
                                             /\ run'[s].verdict[c].post \in BOOLEAN
         /\ Checks(s)' => LET v == run'[s].verdict[command'[run'[s].item].chat] IN
                              v.read \in BOOLEAN /\ v.post \in BOOLEAN
    BY <1>1, <1>3, AnswersCarried DEF ControlInv
  <2>2. QED
    BY <1>1, <2>1 DEF AnswersTyped
<1>5. TriesTell'
  <2>1. \A k \in Items : Holds(k)' = Holds(k) /\ Holds(k) \subseteq Runs
    BY DEF Holds
  <2>2. \A k \in Items : r \in Holds(k) => run'[r].tries = attempts[k]
    BY DEF Holds
  <2>3. \A s \in Runs \ {r} : Performed(s)' = Performed(s) /\ run'[s].tries = run[s].tries
    BY DEF Performed
  <2>4. QED
    BY <1>1, <2>1, <2>2, <2>3 DEF ControlInv, TriesTell
<1>6. QED
  BY <1>2, <1>4, <1>5 DEF ControlInv

LEMMA CommandTyped ==
  ASSUME ControlInv, NEW k \in Items
  PROVE  command[k].chat \in Chats /\ Kind(k) \in CommandKinds
  BY DEF ControlInv, WrittenTyped, Kind

LEMMA AskTyped ==
  ASSUME QueueInv, ControlInv, NEW r \in Runs, Ask(r)
  PROVE  ControlInv'
<1> DEFINE k == run[r].item
<1>1. /\ run[r].at = "waiting" /\ IsRun(run[r]) /\ run = [s \in Runs |-> run[s]] /\ k \in Items
      /\ UNCHANGED <<queue, chats, outbox>>
  BY DEF Ask, QueueInv, RunsAreRuns
<1>2. attempts[k] \in Nat
  BY <1>1 DEF ControlInv, WrittenTyped
<1>3. CASE /\ Kind(k) = "sync_chats"
           /\ run' = [run EXCEPT ![r] = [RunBegins(r, "listed") EXCEPT
                           !.listed = Listed, !.verdict = [d \in Chats |-> Verdict(d)]]]
  <2>1. /\ run'[r].item = k /\ run'[r].tries = attempts[k]
        /\ run'[r].listed = Listed /\ run'[r].verdict = [d \in Chats |-> Verdict(d)]
        /\ \A s \in Runs \ {r} : run'[s] = run[s]
    BY <1>1, <1>3 DEF RunBegins, IsRun
  <2>2. Listed \subseteq Chats
    BY DEF Listed
  <2>3. ASSUME NEW c \in Chats
        PROVE  Verdict(c).read \in BOOLEAN /\ Verdict(c).post \in BOOLEAN
    BY DEF Verdict, MayRead, MayPost
  <2>4. ~Checks(r)'
    BY <1>1, <1>3, <2>1 DEF Checks, Kind, queue
  <2>5. QED
    BY <1>1, <1>2, <2>1, <2>2, <2>3, <2>4, OneAnswers
<1>4. CASE /\ Kind(k) # "sync_chats"
           /\ \E v \in Checked(command[k].chat) :
                run' = [run EXCEPT ![r] = [RunBegins(r, "read") EXCEPT
                           !.verdict = [d \in {command[k].chat} |-> v], !.had = access]]
  <2>1. PICK v \in Checked(command[k].chat) :
                run' = [run EXCEPT ![r] = [RunBegins(r, "read") EXCEPT
                           !.verdict = [d \in {command[k].chat} |-> v], !.had = access]]
    BY <1>4
  <2>2. v.read \in BOOLEAN /\ v.post \in BOOLEAN
    BY DEF Checked
  <2>3. /\ run'[r].item = k /\ run'[r].tries = attempts[k]
        /\ run'[r].verdict[command[k].chat] = v
        /\ \A s \in Runs \ {r} : run'[s] = run[s]
    BY <1>1, <2>1 DEF RunBegins, IsRun
  <2>4. ~Syncs(r)'
    BY <1>1, <1>4, <2>3 DEF Syncs, Kind, queue
  <2>5. QED
    BY <1>1, <1>2, <2>2, <2>3, <2>4, OneAnswers
<1>5. CASE \E how \in Raises(k) : run' = [run EXCEPT ![r] = RunBegins(r, how)]
  <2>1. Raises(k) \subseteq {"retryable", "final"}
    BY DEF Raises
  <2>2. /\ run'[r].item = k /\ run'[r].tries = attempts[k]
        /\ run'[r].at \in {"retryable", "final"}
        /\ \A s \in Runs \ {r} : run'[s] = run[s]
    BY <1>1, <1>5, <2>1, ZenonT(60) DEF RunBegins, IsRun
  <2>3. ~Syncs(r)' /\ ~Checks(r)'
    BY <2>2 DEF Syncs, Checks, AtWork
  <2>4. QED
    BY <1>1, <1>2, <2>2, <2>3, OneAnswers
<1>6. QED
  BY <1>3, <1>4, <1>5 DEF Ask

LEMMA ReadTyped ==
  ASSUME QueueInv, ControlInv, NEW r \in Runs, ReadChats(r)
  PROVE  ControlInv'
<1>1. /\ run[r].at = "listed" /\ IsRun(run[r]) /\ run = [s \in Runs |-> run[s]]
      /\ UNCHANGED <<queue, chats, outbox>>
      /\ run' = [run EXCEPT ![r].at = "read", ![r].before = row, ![r].had = access]
  BY DEF ReadChats, QueueInv, RunsAreRuns
<1>2. /\ run'[r].item = run[r].item /\ run'[r].tries = run[r].tries
      /\ run'[r].listed = run[r].listed /\ run'[r].verdict = run[r].verdict
      /\ \A s \in Runs \ {r} : run'[s] = run[s]
  BY <1>1 DEF IsRun
<1>3. \A s \in Runs : Carries(s)
  <2>1. Carries(r)
    BY <1>1, <1>2 DEF Carries, Performed, AtWork
  <2>2. \A s \in Runs \ {r} : Carries(s)
    BY <1>2 DEF Carries, Performed, AtWork
  <2>3. QED
    BY <2>1, <2>2
<1>4. UNCHANGED <<command, attempts, overrun, taskStatus, row, access, outbox>>
  BY <1>1 DEF queue, chats
<1>5. WrittenTyped'
  BY <1>4 DEF ControlInv, WrittenTyped
<1>6. QED
  BY <1>3, <1>4, <1>5, AnswersKept, TriesKept DEF ControlInv

\* The rows of the chats are written with what is of their types.
LEMMA FinishTyped ==
  ASSUME QueueInv, ControlInv, NEW r \in Runs, Finish(r)
  PROVE  ControlInv'
<1> DEFINE k == run[r].item
<1>1. /\ run[r].at = "read" /\ k \in Items /\ UNCHANGED <<command, attempts, overrun>>
      /\ WritesTask(r, "succeeded")
  BY FinishWrites DEF Finish, QueueInv, RunsAreRuns
<1>2. \A s \in Runs : Carries(s)
  <2>1. ASSUME NEW s \in Runs \ {r} PROVE Carries(s)
    <3>1. /\ IsRun(run[s])
          /\ run'[s] = [run[s] EXCEPT !.mixed = run[s].at \in {"listed", "read"}]
      BY DEF Finish, Frees, QueueInv, RunsAreRuns
    <3>2. /\ run'[s].at = run[s].at /\ run'[s].item = run[s].item /\ run'[s].tries = run[s].tries
          /\ run'[s].listed = run[s].listed /\ run'[s].verdict = run[s].verdict
      BY <3>1 DEF IsRun
    <3>3. QED
      BY <3>2 DEF Carries, Performed, AtWork
  <2>2. Carries(r)
    BY <1>1 DEF WritesTask, Carries, Performed, NoRun
  <2>3. QED
    BY <2>1, <2>2
<1>3. ASSUME NEW c \in Chats, Syncs(r) \/ (Checks(r) /\ c = command[k].chat)
      PROVE  StoredAccess(r, c) \in [read : BOOLEAN, post : BOOLEAN]
  <2>1. /\ run[r].verdict[c].read \in BOOLEAN /\ run[r].verdict[c].post \in BOOLEAN
        /\ access[c].read \in BOOLEAN /\ access[c].post \in BOOLEAN
    BY <1>3 DEF ControlInv, AnswersTyped, WrittenTyped
  <2>2. /\ Wrote(run[r].had[c].read, run[r].verdict[c].read, access[c].read) \in BOOLEAN
        /\ Wrote(run[r].had[c].post, run[r].verdict[c].post, access[c].post) \in BOOLEAN
    BY <2>1, Zenon DEF Wrote
  <2>3. QED
    BY <2>2, Zenon DEF StoredAccess
<1>4. WrittenTyped'
  <2> USE DEF ControlInv, WrittenTyped
  <2>1. CASE Synchronize(r)
    <3>1. Syncs(r)
      BY <1>1, <2>1 DEF Synchronize, Syncs, AtWork
    <3>2. access' \in [Chats -> [read : BOOLEAN, post : BOOLEAN]]
      BY <1>3, <2>1, <3>1 DEF Synchronize
    <3>3. row' \in [Chats -> {"none", "active", "inactive"}]
      BY <2>1 DEF Synchronize, SyncedRow, Wrote
    <3>4. outbox' \subseteq Items \X {"sync_complete", "control_task_failed"}
      <4>1. outbox' = outbox \cup {<<k, "sync_complete">>}
        BY <2>1 DEF Synchronize, Done
      <4>2. <<k, "sync_complete">> \in Items \X {"sync_complete", "control_task_failed"}
        BY <1>1
      <4>3. QED
        BY <4>1, <4>2
    <3>5. QED
      BY <1>1, <3>2, <3>3, <3>4
  <2>2. CASE RecheckChat(r)
    <3>1. Checks(r) /\ command[k].chat \in Chats
      BY <1>1, <2>2, CommandTyped DEF RecheckChat, Checks, AtWork
    <3>2. StoredAccess(r, command[k].chat) \in [read : BOOLEAN, post : BOOLEAN]
      BY <1>3, <3>1
    <3>3. /\ access' = [access EXCEPT ![command[k].chat] = StoredAccess(r, command[k].chat)]
          /\ UNCHANGED <<row, outbox>>
      BY <2>2 DEF RecheckChat
    <3>4. QED
      BY <1>1, <3>2, <3>3
  <2>3. CASE HealthOrDisconnect(r)
    BY <1>1, <2>3 DEF HealthOrDisconnect, chats
  <2>4. QED
    BY <2>1, <2>2, <2>3 DEF Finish
<1>5. \A j \in Items \ overrun' : taskStatus[j] \in {"succeeded", "failed"} =>
                                     taskStatus'[j] \in {"succeeded", "failed"}
  BY <1>1 DEF WritesTask, QueueInv, StatusesTyped
<1>6. QED
  BY <1>1, <1>2, <1>4, <1>5, AnswersKept, TriesKept DEF ControlInv

\* The attempt counts one more than the run read: of a lease that held, than there were.
LEMMA FailTyped ==
  ASSUME QueueInv, ControlInv, NEW r \in Runs, Fail(r)
  PROVE  ControlInv'
<1> DEFINE k == run[r].item
<1>1. /\ run[r].at \in {"retryable", "final"} /\ k \in Items /\ r \in Holds(k)
      /\ attempts' = [attempts EXCEPT ![k] = run[r].tries + 1]
      /\ run' = [run EXCEPT ![r] = NoRun]
      /\ outbox' \in {outbox, outbox \cup {GaveUp(k)}}
      /\ UNCHANGED <<command, overrun, row, access>>
  BY DEF Fail, QueueInv, RunsAreRuns, Holds, chats
<1>2. \A s \in Runs : run'[s] = IF s = r THEN NoRun ELSE run[s]
  BY <1>1 DEF QueueInv, RunsAreRuns
<1>3. \A s \in Runs : Carries(s)
  BY <1>2 DEF Carries, Performed, AtWork, NoRun
<1>4. run[r].tries \in Nat
  BY <1>1 DEF ControlInv, AnswersTyped, Performed
<1>5. WrittenTyped'
  BY <1>1, <1>4 DEF ControlInv, WrittenTyped, GaveUp
<1>6. AnswersTyped'
  BY <1>1, <1>3, AnswersKept DEF ControlInv
<1>7. ASSUME NEW j \in Items \ overrun'
      PROVE  /\ attempts'[j] <= GiveUpAfter
             /\ taskStatus'[j] \notin {"succeeded", "failed"} => attempts'[j] < GiveUpAfter
             /\ \A s \in Holds(j)' : Performed(s)' => run'[s].tries = attempts'[j]
  <2>1. /\ attempts[j] \in Nat
        /\ attempts[j] <= GiveUpAfter
        /\ taskStatus[j] \notin {"succeeded", "failed"} => attempts[j] < GiveUpAfter
        /\ \A s \in Holds(j) : Performed(s) => run[s].tries = attempts[j]
    BY <1>1 DEF ControlInv, TriesTell, WrittenTyped
  <2>2. CASE j # k
    <3>1. attempts'[j] = attempts[j] /\ taskStatus'[j] = taskStatus[j]
      BY <1>1, <2>2 DEF Fail, ControlInv, WrittenTyped, QueueInv, StatusesTyped
    <3>2. \A s \in Holds(j)' : s \in Runs \ {r} /\ s \in Holds(j)
      BY <1>2 DEF Holds, NoRun
    <3>3. QED
      BY <1>2, <2>1, <3>1, <3>2 DEF Performed
  <2>3. CASE j = k
    <3>1. /\ taskStatus[k] = "leased" /\ run[r].saw = "leased" /\ \A s \in Holds(k) : s = r
          /\ run[r].tries = attempts[k]
      BY <1>1, <2>1, <2>3 DEF QueueInv, HeldAlone, Performed
    <3>2. attempts'[k] = attempts[k] + 1 /\ attempts[k] + 1 <= GiveUpAfter
      BY <1>1, <2>1, <2>3, <3>1 DEF ControlInv, WrittenTyped
    <3>3. taskStatus'[k] \notin {"succeeded", "failed"} => attempts[k] + 1 < GiveUpAfter
      <4>1. CASE GivesUpOn(r)
        BY <1>1, <3>1, <4>1 DEF Fail, Wrote, QueueInv, StatusesTyped
      <4>2. CASE ~GivesUpOn(r)
        BY <2>1, <2>3, <3>1, <4>2 DEF GivesUpOn
      <4>3. QED
        BY <4>1, <4>2
    <3>4. Holds(j)' = {}
      <4>1. NoRun.item # j
        BY DEF NoRun
      <4>2. \A s \in Runs \ {r} : run[s].item # j
        BY <2>3, <3>1 DEF Holds
      <4>3. QED
        BY <1>2, <4>1, <4>2 DEF Holds
    <3>5. QED
      BY <2>3, <3>2, <3>3, <3>4
  <2>4. QED
    BY <2>2, <2>3
<1>8. TriesTell'
  BY <1>7 DEF TriesTell
<1>9. QED
  BY <1>5, <1>6, <1>8 DEF ControlInv

\* A refusal writes to the row of a chat; the runs learn that theirs are not as read.
LEMMA RefuseTyped ==
  ASSUME QueueInv, ControlInv, NEW c \in Chats, RefusePosting(c)
  PROVE  ControlInv'
<1>1. /\ UNCHANGED <<command, attempts, overrun, taskStatus, row, outbox>>
      /\ access' = [access EXCEPT ![c].post = FALSE]
      /\ run' = [s \in Runs |-> [run[s] EXCEPT !.mixed = run[s].at \in {"listed", "read"}]]
  BY DEF RefusePosting, queue
<1>2. ASSUME NEW s \in Runs PROVE Carries(s)
  <2>1. IsRun(run[s])
    BY DEF QueueInv, RunsAreRuns
  <2>2. /\ run'[s].at = run[s].at /\ run'[s].item = run[s].item /\ run'[s].tries = run[s].tries
        /\ run'[s].listed = run[s].listed /\ run'[s].verdict = run[s].verdict
    BY <1>1, <2>1 DEF IsRun
  <2>3. QED
    BY <2>2 DEF Carries, Performed, AtWork
<1>3. access' \in [Chats -> [read : BOOLEAN, post : BOOLEAN]]
  BY <1>1, ZenonT(60) DEF ControlInv, WrittenTyped
<1>4. WrittenTyped'
  BY <1>1, <1>3 DEF ControlInv, WrittenTyped
<1>5. QED
  BY <1>1, <1>2, <1>4, AnswersKept, TriesKept DEF ControlInv

LEMMA ControlInvStep == QueueInv /\ ControlInv /\ [ControlNext]_controlVars => ControlInv'
<1> SUFFICES ASSUME QueueInv, ControlInv, [ControlNext]_controlVars PROVE ControlInv'
  OBVIOUS
<1>1. ASSUME NEW r \in Runs, RunStep(r) \/ AbandonRun(r) PROVE ControlInv'
  BY <1>1, AskTyped, ReadTyped, FinishTyped, FailTyped, RestTyped DEF RunStep
<1>2. ASSUME NEW c \in Chats, Changes(c) \/ RefusePosting(c) PROVE ControlInv'
  BY <1>2, RefuseTyped, RestTyped
<1>3. QED
  BY <1>1, <1>2, RestTyped DEF ControlNext

LEMMA ControlInvTypes == QueueInv /\ ControlInv => ControlTypeOK
<1> SUFFICES ASSUME QueueInv, ControlInv PROVE ControlTypeOK
  OBVIOUS
<1>1. ASSUME NEW k \in Items \ overrun PROVE Cardinality(Holds(k)) <= 1
  <2>1. CASE Holds(k) = {}
    <3>1. Cardinality(Holds(k)) = 0
      BY <2>1, FS_EmptySet, Zenon
    <3>2. QED
      BY <3>1
  <2>2. CASE Holds(k) # {}
    <3>1. PICK r : Holds(k) = {r}
      <4>1. PICK s : s \in Holds(k)
        BY <2>2
      <4>2. \A q \in Holds(k) : q = s
        BY <4>1 DEF QueueInv, HeldAlone
      <4>3. Holds(k) = {s}
        BY <4>1, <4>2
      <4>4. QED
        BY <4>3
    <3>2. Cardinality(Holds(k)) = 1
      BY <3>1, FS_Singleton, Zenon
    <3>3. QED
      BY <3>2
  <2>3. QED
    BY <2>1, <2>2
<1>2. \A r \in Runs : (run[r].at = "free") <=> (run[r].item = NoItem)
  BY DEF QueueInv, RunsAreRuns
<1>3. \A k \in Items \ overrun : attempts[k] <= GiveUpAfter
  BY DEF ControlInv, TriesTell
<1>4. QED
  BY <1>1, <1>2, <1>3 DEF QueueInv, StatusesTyped, LeasesTimed, ControlInv, WrittenTyped, ControlTypeOK

\* The types of the rows; a command whose lease never ran out under a run is tried
\* as often as the worker means to, and has one run at a time (worker.py
\* process_control_task, repositories/jobs.py).
THEOREM ControlTyped == ControlSpec => []ControlTypeOK
<1>1. QED
  BY ControlInvInit, ControlInvStep, ControlInvTypes, RunsHoldAlone, PTL DEF ControlSpec
=============================================================================
