------------------------------ MODULE Broadcast ------------------------------
(***************************************************************************)
(* One ad (a Broadcast row), its BroadcastTarget rows, and everybody who    *)
(* writes them: the worker's delivery tasks, the scheduler's sweeps, the    *)
(* customer in the bot's chat, the operator who may suspend the account,    *)
(* and the work on the same connection that may pause or disconnect it.     *)
(*                                                                          *)
(* A delivery task is one database transaction that stays open across the   *)
(* call to Telegram: it reads the target, the ad and the connection once    *)
(* (Load), decides on what it read (Attempt), posts, and writes the row and *)
(* perhaps the ad when it commits.  Everything another actor commits in     *)
(* between is invisible to it, except the count of unfinished targets, a    *)
(* query of its own under READ COMMITTED that sees other transactions'      *)
(* committed rows and this transaction's uncommitted one.                   *)
(*                                                                          *)
(* Time is abstracted: short delays (the stagger between groups, backoff,   *)
(* a wait below the pause threshold, the repeat gap) pass unnoticed, and    *)
(* only a long Telegram wait, which pauses the ad, is state (flooded).      *)
(***************************************************************************)
EXTENDS Naturals

CONSTANTS
    Targets,      \* groups the ad may be posted to, one row each
    Workers,      \* delivery tasks that may run at once, over all processes
    NoOne,        \* "no group": what an idle task works on
    MaxAttempts,  \* settings.max_attempts
    Repeats,      \* whether the ad has repeat_every_s
    Answers,      \* what Telegram may answer a delivery attempt
    Budgets       \* how many commands, crashes, stalls and outages may happen

\* "unclear" is AmbiguousDeliveryError, a timeout the adapter reports as such;
\* "lost" a timeout or a broken connection that counts as a transient error
\* though the message may be there; "error" one that came before the message.
AllAnswers == {"posted", "refused", "unclear", "auth", "flood", "wait", "error", "lost"}
Kinds == {"command", "crash", "stall", "outage"}

ASSUME NoOneAssumption == NoOne \notin Targets
ASSUME MaxAttemptsAssumption == MaxAttempts \in Nat \ {0}
ASSUME RepeatsAssumption == Repeats \in BOOLEAN
ASSUME AnswersAssumption == Answers \subseteq AllAnswers
ASSUME BudgetsAssumption == Budgets \subseteq [Kinds -> Nat]

VARIABLES
    bstatus,   \* Broadcast.status ("deleted": the row is gone)
    reason,    \* Broadcast.paused_reason_code
    status,    \* BroadcastTarget.status per group ("absent": no row)
    tries,     \* BroadcastTarget.attempt_count, saturated at MaxAttempts
    flooded,   \* rows whose not_before is a long Telegram wait away
    conn,      \* TelegramConnection.status
    token,     \* adapter_for finds what it needs (a bot's: until it is revoked)
    active,    \* User.is_active
    at,        \* where each task is in its transaction
    job,       \* the target each task works on
    saw,       \* what each task read when it loaded its rows
    answer,    \* what its attempt came to
    last,      \* whether it counted no unfinished target
    orphan,    \* tasks whose target row was deleted under them
    posts,     \* messages the group got this round (0, 1, or 2 for more)
    disturbed, \* groups an attempt of this round was lost track of
    stopped,   \* somebody stopped the ad and the customer has not restarted it
    budget     \* what is left of the behaviour's budget

ad == <<bstatus, reason, stopped>>
rows == <<status, tries, flooded>>
links == <<conn, token, active>>
tasks == <<at, job, saw, answer, last, orphan>>
group == <<posts, disturbed>>
vars == <<ad, rows, links, tasks, group, budget>>

BroadcastStatus ==
    {"draft", "scheduled", "sending", "paused", "completed", "cancelled", "deleted"}
Reasons == {"none", "flood", "customer", "editing", "auth", "suspended"}
JobStatus == {"absent", "pending", "leased", "succeeded", "skipped", "failed",
              "dead_letter", "needs_attention"}
Stages == {"idle", "claimed", "loaded", "answered", "counted"}
Snapshot == [sending: BOOLEAN, conn: BOOLEAN, status: JobStatus, tries: 0..MaxAttempts]
Blank == [sending |-> FALSE, conn |-> FALSE, status |-> "absent", tries |-> 0]

-----------------------------------------------------------------------------
(* State formulae *)

Rows == {t \in Targets : status[t] # "absent"}
Unfinished == {"pending", "leased"}
Pending == {t \in Targets : status[t] = "pending"}
Open == {t \in Targets : status[t] \in Unfinished}
Live(w) == at[w] # "idle"
InFlight(t) == \E w \in Workers : Live(w) /\ job[w] = t
\* A task other than those whose row was deleted still means to write row t.
Owned(t) == \E w \in Workers \ orphan : Live(w) /\ job[w] = t
\* The row's lock: taken when the task flushes its row, kept to its commit.
Locked(t) == \E w \in Workers : at[w] = "counted" /\ job[w] = t
Free(S) == \A t \in S : ~Locked(t)

Spend(kind) == budget[kind] > 0 /\ budget' = [budget EXCEPT ![kind] = @ - 1]

\* Mutant: an unclear answer is taken for a delivery.
OutcomeHopeful(w) ==
    CASE answer[w] \in {"posted", "unclear"} -> "succeeded"
      [] answer[w] \in {"barred", "refused"} -> "skipped"
      [] answer[w] = "auth" -> "failed"
      [] answer[w] \in {"error", "lost"} /\ saw[w].tries + 1 >= MaxAttempts -> "dead_letter"
      [] OTHER -> "pending"

\* What the task will write into its row's status.
Outcome(w) ==
    CASE answer[w] = "posted" -> "succeeded"
      [] answer[w] \in {"barred", "refused"} -> "skipped"
      [] answer[w] = "unclear" -> "needs_attention"
      [] answer[w] = "auth" -> "failed"
      [] answer[w] \in {"error", "lost"} /\ saw[w].tries + 1 >= MaxAttempts -> "dead_letter"
      [] OTHER -> "pending"

\* The ORM writes an attribute only when it differs from what was loaded.
Written(w) == IF Outcome(w) = saw[w].status THEN status[job[w]] ELSE Outcome(w)

\* The outcomes after which the task calls settle, and settle goes on.
Settles(w) ==
    /\ Outcome(w) \in {"succeeded", "dead_letter", "skipped"}
    /\ saw[w].sending

\* Mutant: groups that other tasks are posting to are not counted.
RemainingUnclaimed(w) ==
    {t \in Targets : (IF t = job[w] THEN Written(w) ELSE status[t]) = "pending"}

\* remaining_count: this task's flushed row, every other row as committed.
Remaining(w) ==
    {t \in Targets : (IF t = job[w] THEN Written(w) ELSE status[t]) \in Unfinished}

Init ==
    /\ bstatus = "draft" /\ reason = "none" /\ stopped = FALSE
    /\ status \in [Targets -> {"absent", "pending"}]
    /\ tries = [t \in Targets |-> 0]
    /\ flooded = {}
    /\ conn = "active" /\ token = TRUE /\ active = TRUE
    /\ at = [w \in Workers |-> "idle"]
    /\ job = [w \in Workers |-> NoOne]
    /\ saw = [w \in Workers |-> Blank]
    /\ answer = [w \in Workers |-> "none"]
    /\ last = [w \in Workers |-> FALSE]
    /\ orphan = {}
    /\ posts = [t \in Targets |-> 0]
    /\ disturbed = {}
    /\ budget \in Budgets

-----------------------------------------------------------------------------
(* Effects shared by several actions *)

\* reopen_for_repeat: every row, whatever it came to, is pending again.
StartRound(inflight) ==
    /\ status' = [t \in Targets |-> IF t \in Rows THEN "pending" ELSE "absent"]
    /\ tries' = [t \in Targets |-> 0]
    /\ flooded' = {}
    /\ posts' = [t \in Targets |-> 0]
    /\ disturbed' = inflight

\* schedule_targets: the pending rows, and only they, are timed from now.
Retime == Free(Pending) /\ flooded' = flooded \ Pending

\* Rows deleted: the tasks at work on them are left without one.
Unrow(S) ==
    /\ orphan' = orphan \union {w \in Workers : Live(w) /\ job[w] \in S}
    /\ disturbed' = disturbed \union {t \in S : InFlight(t)}

\* The ad is stopped for `why` by somebody who only stops ads in "sending".
StopSending(why) ==
    IF bstatus = "sending"
    THEN bstatus' = "paused" /\ reason' = why /\ stopped' = TRUE
    ELSE UNCHANGED ad

\* cancel_pending_for_connection and cancel_pending, which write the same rows.
CancelOpen == [t \in Targets |-> IF t \in Open THEN "skipped" ELSE status[t]]

\* Mutant: the task keeps hold of the target it is done with.
RestClinging(w) ==
    /\ at' = [at EXCEPT ![w] = "idle"]
    /\ saw' = [saw EXCEPT ![w] = Blank]
    /\ answer' = [answer EXCEPT ![w] = "none"]
    /\ last' = [last EXCEPT ![w] = FALSE]
    /\ orphan' = orphan \ {w}
    /\ UNCHANGED job

\* The end of the task's transaction, committed or rolled back.
Rest(w) ==
    /\ at' = [at EXCEPT ![w] = "idle"]
    /\ job' = [job EXCEPT ![w] = NoOne]
    /\ saw' = [saw EXCEPT ![w] = Blank]
    /\ answer' = [answer EXCEPT ![w] = "none"]
    /\ last' = [last EXCEPT ![w] = FALSE]
    /\ orphan' = orphan \ {w}

-----------------------------------------------------------------------------
(* The worker *)

\* claim_batch, one row of it: due, pending, under a sending ad, unlocked.
Claim(w, t) ==
    /\ at[w] = "idle"
    /\ bstatus = "sending"
    /\ status[t] = "pending" /\ t \notin flooded /\ ~Locked(t)
    /\ status' = [status EXCEPT ![t] = "leased"]
    /\ at' = [at EXCEPT ![w] = "claimed"]
    /\ job' = [job EXCEPT ![w] = t]
    /\ UNCHANGED <<ad, tries, flooded, links, saw, answer, last, orphan, group, budget>>

\* process_broadcast_target reads the target, the ad and the connection once.
\* It does not ask whether the row is still leased, or by whom.
Load(w) ==
    /\ at[w] = "claimed" /\ w \notin orphan /\ token
    /\ at' = [at EXCEPT ![w] = "loaded"]
    /\ saw' = [saw EXCEPT ![w] =
                  [sending |-> bstatus = "sending", conn |-> conn = "active",
                   status |-> status[job[w]], tries |-> tries[job[w]]]]
    /\ UNCHANGED <<ad, rows, links, job, answer, last, orphan, group, budget>>

\* adapter_for raises before execute_target asks anything: the transaction is
\* rolled back, and the row stays leased with no attempt counted.
NoAdapter(w) ==
    /\ at[w] = "claimed" /\ w \notin orphan /\ ~token
    /\ Rest(w)
    /\ UNCHANGED <<ad, rows, links, group, budget>>

\* execute_target up to the answer: the account is asked about now, the
\* connection and the ad as loaded.
Attempt(w, a) ==
    /\ at[w] = "loaded"
    /\ IF active /\ saw[w].conn /\ saw[w].sending THEN a \in Answers ELSE a = "barred"
    /\ at' = [at EXCEPT ![w] = "answered"]
    /\ answer' = [answer EXCEPT ![w] = a]
    /\ saw' = [saw EXCEPT ![w].conn = FALSE]   \* not read again
    /\ LET t == job[w]
           once == [posts EXCEPT ![t] = IF @ = 0 THEN 1 ELSE 2]
       IN CASE a = "posted" -> posts' = once
            [] a \in {"unclear", "lost"} -> posts' \in {posts, once}
            [] OTHER -> posts' = posts
    /\ disturbed' = IF a = "lost" THEN disturbed \union {job[w]} ELSE disturbed
    /\ UNCHANGED <<ad, rows, links, job, last, orphan, budget>>

\* settle's query: the row is flushed, hence locked, then the rows counted.
Count(w) ==
    /\ at[w] = "answered" /\ Settles(w)
    /\ w \notin orphan /\ ~Locked(job[w])
    /\ at' = [at EXCEPT ![w] = "counted"]
    /\ last' = [last EXCEPT ![w] = (Remaining(w) = {})]
    /\ UNCHANGED <<ad, rows, links, job, saw, answer, orphan, group, budget>>

\* The commit of a task whose settle, if it got that far, found targets left.
Record(w) ==
    /\ \/ at[w] = "counted" /\ ~last[w]
       \/ at[w] = "answered" /\ ~Settles(w) /\ ~Locked(job[w])
    /\ w \notin orphan /\ answer[w] # "auth"
    /\ LET t == job[w] IN
        /\ status' = [status EXCEPT ![t] = Written(w)]
        /\ IF Outcome(w) = "pending"
           THEN /\ tries' = [tries EXCEPT ![t] =
                                IF saw[w].tries < MaxAttempts THEN saw[w].tries + 1 ELSE MaxAttempts]
                /\ flooded' = IF answer[w] = "flood" THEN flooded \union {t} ELSE flooded \ {t}
           ELSE UNCHANGED <<tries, flooded>>
    /\ IF answer[w] = "flood"
       THEN bstatus' = "paused" /\ reason' = "flood"
       ELSE UNCHANGED <<bstatus, reason>>
    /\ Rest(w)
    /\ UNCHANGED <<stopped, links, group, budget>>

\* The commit of a task whose settle found none: the round is over.
Settle(w) ==
    /\ at[w] = "counted" /\ last[w]
    /\ IF Repeats
       THEN /\ Free(Rows \ {job[w]})
            /\ StartRound({t \in Targets :
                    \E v \in Workers \ {w} : Live(v) /\ job[v] = t})
            /\ UNCHANGED ad
       ELSE /\ status' = [status EXCEPT ![job[w]] = Written(w)]
            /\ bstatus' = "completed"
            /\ UNCHANGED <<tries, flooded, group, reason, stopped>>
    /\ Rest(w)
    /\ UNCHANGED <<links, budget>>

\* The commit of a task told its session is revoked: pause_connection, which
\* also skips every unfinished row, and then its own row.
LoseSession(w) ==
    /\ at[w] = "answered" /\ answer[w] = "auth" /\ w \notin orphan
    /\ Free(Open \union {job[w]})
    /\ conn' = "paused_safety"
    /\ StopSending("auth")
    /\ status' = [CancelOpen EXCEPT ![job[w]] = "failed"]
    /\ Rest(w)
    /\ UNCHANGED <<tries, flooded, token, active, group, budget>>

\* The row was deleted: nothing to load, or the flush finds no row to update
\* and the transaction is rolled back.
Abandon(w) ==
    /\ w \in orphan /\ at[w] \in {"claimed", "answered"}
    /\ Rest(w)
    /\ UNCHANGED <<ad, rows, links, group, budget>>

\* The process dies, or an exception leaves the transaction: a rollback.  What
\* was posted stays posted.
Crash(w) ==
    /\ Live(w) /\ Spend("crash")
    /\ disturbed' = IF answer[w] \in {"posted", "unclear"}
                     THEN disturbed \union {job[w]} ELSE disturbed
    /\ Rest(w)
    /\ UNCHANGED <<ad, rows, links, posts>>

-----------------------------------------------------------------------------
(* The scheduler *)

\* The ads resume_flood_paused looks at.
Waiting == bstatus = "paused" /\ reason = "flood"

\* Mutant: the reclaim looks for leases among the pending rows.
ExpirablePending == {t \in Targets : status[t] = "pending" /\ ~Locked(t)}

\* The rows reclaim_expired may take back.
Expirable == {t \in Targets : status[t] = "leased" /\ ~Locked(t)}

\* reclaim_loop, one transaction: leases that ran out are pending again, then
\* an ad paused for a wait resumes if some pending row is due.  A lease with
\* nobody behind it runs out; one whose task still works only by a stall.
Sweep(expired) ==
    LET resumes == Waiting /\ \E t \in Targets : status'[t] = "pending" /\ t \notin flooded
    IN /\ status' = [t \in Targets |-> IF t \in expired THEN "pending" ELSE status[t]]
       /\ expired # {} \/ resumes
       /\ IF resumes
          THEN bstatus' = "sending" /\ reason' = "none"
          ELSE UNCHANGED <<bstatus, reason>>
       /\ disturbed' = disturbed \union {t \in expired : Owned(t)}
       /\ IF \E t \in expired : Owned(t) THEN Spend("stall") ELSE UNCHANGED budget
       /\ UNCHANGED <<stopped, tries, flooded, links, tasks, posts>>

\* The clock reaches the not_before that Telegram's number set.
WaitEnds(t) ==
    /\ t \in flooded /\ flooded' = flooded \ {t}
    /\ UNCHANGED <<ad, status, tries, links, tasks, group, budget>>

\* queue, for an ad validate accepts.
Queue ==
    /\ Rows # {} /\ Retime
    /\ bstatus' = "sending" /\ reason' = "none" /\ stopped' = FALSE
    /\ UNCHANGED <<status, tries>>

\* scheduled_broadcast_loop: the start time came; an ad that no longer
\* validates is a draft again.
StartScheduled ==
    /\ bstatus = "scheduled"
    /\ \/ Queue
       \/ bstatus' = "draft" /\ UNCHANGED <<rows, reason, stopped>>
    /\ UNCHANGED <<links, tasks, group, budget>>

-----------------------------------------------------------------------------
(* The customer; the bot answers only an account that is not suspended *)

Command == active /\ bstatus # "deleted" /\ Spend("command")

\* A finished ad is reopened first, and stays reopened if validate then
\* refuses the ad; a start time in the future turns sending into scheduling.
Send ==
    /\ Command
    /\ IF bstatus \in {"completed", "cancelled"}
       THEN /\ Free(Rows) /\ StartRound({t \in Targets : InFlight(t)})
            /\ \/ /\ Rows # {} /\ stopped' = FALSE
                  /\ \/ bstatus' = "sending" /\ reason' = "none"
                     \/ bstatus' = "scheduled" /\ UNCHANGED reason
               \/ UNCHANGED ad
       ELSE /\ \/ Queue
               \/ /\ Rows # {} /\ bstatus' = "scheduled" /\ stopped' = FALSE
                  /\ UNCHANGED <<rows, reason>>
            /\ UNCHANGED group
    /\ UNCHANGED <<links, tasks>>

Pause ==
    /\ Command
    /\ bstatus' = "paused" /\ reason' = "customer" /\ stopped' = TRUE
    /\ UNCHANGED <<rows, links, tasks, group>>

Edit ==
    /\ Command /\ bstatus = "sending"
    /\ StopSending("editing")
    /\ UNCHANGED <<rows, links, tasks, group>>

\* No status is asked for: a button of an old message resumes any ad.
Resume ==
    /\ Command /\ Retime
    /\ bstatus' = "sending" /\ reason' = "none" /\ stopped' = FALSE
    /\ UNCHANGED <<status, tries, links, tasks, group>>

Cancel ==
    /\ Command /\ Free(Open)
    /\ status' = CancelOpen
    /\ bstatus' = "cancelled" /\ stopped' = TRUE
    /\ UNCHANGED <<reason, tries, flooded, links, tasks, group>>

\* Mutant: Retry takes up the whole round again.
RequeuedAll == {t \in Targets : status[t] \in
                   {"failed", "needs_attention", "dead_letter", "succeeded"}}

\* requeue_failed: what Retry takes up again.
Requeued == {t \in Targets : status[t] \in {"failed", "needs_attention", "dead_letter"}}

\* retry_unfinished.  Whether an unclear attempt reached the group is not
\* known: retrying it gives up on posting there once.
Retry ==
    /\ Command /\ Requeued # {} /\ Free(Requeued \union Pending)
    /\ status' = [t \in Targets |-> IF t \in Requeued THEN "pending" ELSE status[t]]
    /\ tries' = [t \in Targets |-> IF t \in Requeued THEN 0 ELSE tries[t]]
    /\ flooded' = flooded \ (Requeued \union Pending)
    /\ bstatus' = "sending" /\ reason' = "none" /\ stopped' = FALSE
    /\ disturbed' = disturbed \union {t \in Targets : status[t] = "needs_attention"}
    /\ UNCHANGED <<links, tasks, posts>>

\* Mutant: the selection is written anew, row by row.
SelectedAnew(t, wanted) == IF t \in wanted THEN "pending" ELSE "absent"

\* What becomes of a group's row under a new selection.
Selected(t, wanted) ==
    CASE t \notin wanted -> "absent"
      [] t \in wanted \intersect Rows -> status[t]
      [] t \in wanted \ Rows -> "pending"

\* replace_targets: a group that stays keeps its row, a new one gets a row; one
\* that left the selection and comes back gets the ad again, whatever it got.
SaveSelection(wanted) ==
    /\ Command /\ Free(Rows \ wanted)
    /\ status' = [t \in Targets |-> Selected(t, wanted)]
    /\ tries' = [t \in Targets |-> IF t \in Rows \intersect wanted THEN tries[t] ELSE 0]
    /\ flooded' = flooded \intersect Rows \intersect wanted
    /\ orphan' = orphan \union {w \in Workers : Live(w) /\ job[w] \in Rows \ wanted}
    /\ disturbed' = disturbed \union {t \in Rows \ wanted : InFlight(t)}
                              \union {t \in wanted \ Rows : posts[t] > 0}
    /\ UNCHANGED <<ad, links, at, job, saw, answer, last, posts>>

\* drop_chats: refusing groups leave every ad, unless they got it once.
DropGroups(dropped) ==
    LET removed == {t \in Rows \intersect dropped : status[t] # "succeeded"} IN
    /\ Command /\ removed # {} /\ Free(removed)
    /\ status' = [t \in Targets |-> IF t \in removed THEN "absent" ELSE status[t]]
    /\ tries' = [t \in Targets |-> IF t \in removed THEN 0 ELSE tries[t]]
    /\ flooded' = flooded \ removed
    /\ Unrow(removed)
    /\ UNCHANGED <<ad, links, at, job, saw, answer, last, posts>>

\* remove, which the handler refuses for an ad that is sending or paused.
Delete ==
    /\ Command /\ bstatus \notin {"sending", "paused"} /\ Free(Rows)
    /\ bstatus' = "deleted" /\ reason' = "none" /\ stopped' = TRUE
    /\ status' = [t \in Targets |-> "absent"]
    /\ tries' = [t \in Targets |-> 0] /\ flooded' = {}
    /\ Unrow(Rows)
    /\ UNCHANGED <<links, at, job, saw, answer, last, posts>>

-----------------------------------------------------------------------------
(* The connection and the account *)

\* pause_connection, called by other work on the same connection.
PauseConnection ==
    /\ conn # "paused_safety" /\ Spend("outage") /\ Free(Open)
    /\ conn' = "paused_safety"
    /\ StopSending("auth")
    /\ status' = CancelOpen
    /\ UNCHANGED <<tries, flooded, token, active, tasks, group>>

\* disconnect, or a health check that fails: the ads are not told.  To disconnect
\* a bot with `revoke` deletes its token.
LoseConnection ==
    /\ conn # "disconnected" /\ Spend("outage")
    /\ conn' = "disconnected" /\ token' \in {token, FALSE}
    /\ UNCHANGED <<ad, rows, active, tasks, group>>

\* A health check or a sign-in, which needs an adapter; nothing stores a token anew.
Reconnect ==
    /\ conn # "active" /\ token /\ conn' = "active"
    /\ UNCHANGED <<ad, rows, token, active, tasks, group, budget>>

Suspend ==
    /\ active /\ Spend("outage") /\ Free(Open)
    /\ active' = FALSE
    /\ StopSending("suspended")
    /\ status' = CancelOpen
    /\ UNCHANGED <<tries, flooded, conn, token, tasks, group>>

\* reinstate restarts nothing.
Reinstate ==
    /\ ~active /\ active' = TRUE
    /\ UNCHANGED <<ad, rows, conn, token, tasks, group, budget>>

-----------------------------------------------------------------------------

Work(w) ==
    \/ \E t \in Targets : Claim(w, t)
    \/ Load(w) \/ NoAdapter(w)
    \/ \E a \in Answers \union {"barred"} : Attempt(w, a)
    \/ Count(w) \/ Record(w) \/ Settle(w) \/ LoseSession(w) \/ Abandon(w)

Customer ==
    \/ Send \/ Pause \/ Edit \/ Resume \/ Cancel \/ Retry \/ Delete
    \/ \E wanted \in SUBSET Targets : SaveSelection(wanted)
    \/ \E dropped \in SUBSET Targets : DropGroups(dropped)

Scheduler ==
    \/ \E expired \in SUBSET Expirable : Sweep(expired)
    \/ \E t \in Targets : WaitEnds(t)
    \/ StartScheduled

Elsewhere ==
    PauseConnection \/ LoseConnection \/ Reconnect \/ Suspend \/ Reinstate

Next ==
    \/ \E w \in Workers : Work(w) \/ Crash(w)
    \/ Scheduler
    \/ Customer
    \/ Elsewhere

Spec == Init /\ [][Next]_vars

-----------------------------------------------------------------------------
(* Properties *)

TypeOK ==
    /\ bstatus \in BroadcastStatus /\ reason \in Reasons /\ stopped \in BOOLEAN
    /\ status \in [Targets -> JobStatus]
    /\ tries \in [Targets -> 0..MaxAttempts]
    /\ flooded \subseteq Targets
    /\ conn \in {"active", "paused_safety", "disconnected"}
    /\ token \in BOOLEAN /\ active \in BOOLEAN
    /\ at \in [Workers -> Stages]
    /\ job \in [Workers -> Targets \union {NoOne}]
    /\ \A w \in Workers : job[w] = NoOne <=> at[w] = "idle"
    /\ saw \in [Workers -> Snapshot]
    /\ answer \in [Workers -> AllAnswers \union {"barred", "none"}]
    /\ last \in [Workers -> BOOLEAN]
    /\ orphan \subseteq Workers
    /\ posts \in [Targets -> 0..2]
    /\ disturbed \subseteq Targets
    /\ budget \in [Kinds -> Nat]

\* A group gets the ad once a round (ADR-043: "a group already posted to this
\* round is never posted to twice"), unless the code lost track of an attempt
\* there: a reply that got lost, a crash after the post, a lease that ran out under
\* a live task, a row deleted or reopened under one, an unclear attempt retried, a
\* group the customer took off the ad after its post and put back.
PostedOnce == \A t \in Targets : posts[t] > 1 => t \in disturbed

\* Once nobody works on a row it tells what the group got: "succeeded" exactly
\* when the message is there, and only "needs_attention" leaves it open.
RecordsMatchPosts ==
    \A t \in Rows \ disturbed :
        ~InFlight(t) => CASE status[t] = "succeeded" -> posts[t] = 1
                          [] status[t] = "needs_attention" -> posts[t] <= 1
                          [] OTHER -> posts[t] = 0

\* A round is closed, reported and reopened by one task: two may both find
\* nothing left only if one of their rows was cancelled under it.
SettledOnce ==
    \A v, w \in Workers :
        v # w /\ last[v] /\ last[w] =>
            \/ {job[v], job[w]} \intersect disturbed # {}
            \/ "skipped" \in {status[job[v]], status[job[w]]}

\* What the customer, the operator or the safety pause stopped is not sending
\* until the customer restarts it (repositories/broadcasts.py, resume_flood_paused:
\* "ends when they say so, never by a sweep"; docs/DECISIONS.md, ADR-045, the same).
StopsHold == stopped => bstatus # "sending"

\* A long wait is obeyed in full (services/broadcast.py, _handle_failure): the
\* ad does not send while a wait that paused it is still ahead.
FloodWaitObeyed == bstatus = "sending" => flooded \intersect Pending = {}

\* An ad with nothing left to do is not left "sending" (services/broadcast.py,
\* settle): some row is unfinished, or a task is there to settle the round.
NoOrphanedRound ==
    bstatus = "sending" /\ Rows # {} =>
        Open # {} \/ \E w \in Workers : Live(w)

-----------------------------------------------------------------------------
(* The inductive invariant behind PostedOnce and RecordsMatchPosts *)

\* What an attempt has put into its group so far.
Reached(w) == CASE answer[w] = "posted" -> {1}
                [] answer[w] = "unclear" -> {0, 1}
                [] OTHER -> {0}

\* The tasks at work on rows nothing was lost track of.
Sure(w) == Live(w) /\ job[w] \notin disturbed

AnswerInv ==
    \A w \in Workers : answer[w] = "none" <=> at[w] \in {"idle", "claimed", "loaded"}
OrphanInv == \A w \in orphan : Live(w) /\ job[w] \in disturbed
UniqueInv == \A v, w \in Workers : Sure(v) /\ Sure(w) /\ job[v] = job[w] => v = w

\* Such a task has its row to itself: leased for it, or cancelled under it.
OwnerInv ==
    \A w \in Workers : Sure(w) =>
        /\ status[job[w]] \in {"leased", "skipped"}
        /\ at[w] # "claimed" => saw[w].status \in {"leased", "skipped"}
        /\ posts[job[w]] \in Reached(w)

IInv == /\ AnswerInv /\ OrphanInv /\ UniqueInv /\ OwnerInv
        /\ PostedOnce /\ RecordsMatchPosts

-----------------------------------------------------------------------------
(* Fairness: the worker's loop and the scheduler's sweeps keep running. *)

Fairness ==
    /\ \A w \in Workers : WF_vars(Work(w))
    /\ WF_vars(\E expired \in SUBSET Expirable : Sweep(expired))
    /\ WF_vars(\E t \in Targets : WaitEnds(t))
    /\ WF_vars(StartScheduled)

FairSpec == Spec /\ Fairness

\* Every group of a sending ad gets an attempt that comes to an end: whatever
\* crashes, the round's rows all leave "pending" and "leased", or the ad stops, as
\* long as an adapter can be built for its connection.
RoundDrains ==
    (bstatus = "sending" /\ Open # {}) ~> (bstatus # "sending" \/ Open = {} \/ ~token)
=============================================================================
