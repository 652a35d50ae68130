----------------------------- MODULE Forwarding -----------------------------
(***************************************************************************)
(* One forwarding rule, the jobs its messages become, and everybody who     *)
(* writes them: the listener's dispatch, the worker's delivery tasks, the   *)
(* scheduler's reclaim, the customer's requests to the API, the operator,   *)
(* and the work on the same connection that may pause or disconnect it.     *)
(*                                                                          *)
(* A job is one message for one destination; its idempotency key makes it   *)
(* the only one, so a job is the pair itself.  Dispatch, a delivery task    *)
(* and an edit are transactions that read the rule first and write later;   *)
(* what another actor commits in between they do not see.                   *)
(*                                                                          *)
(* Time is abstracted: not_before and backoff only delay a claim, and       *)
(* failures may leave the hour that the safety pause looks at any time.     *)
(***************************************************************************)
EXTENDS Naturals, FiniteSets

CONSTANTS
    Messages,        \* messages of the source chat
    Matching,        \* those the rule's keywords let pass, when it has keywords
    Chats,           \* chats the rule may deliver to
    Workers,         \* delivery tasks that may run at once, over all processes
    Listeners,       \* dispatches that may run at once
    Editors,         \* requests to edit the rule that may run at once
    NoJob,           \* what an idle task works on
    Nothing,         \* what an idle listener or editor has read
    MaxAttempts,     \* min(rule.max_attempts, settings.max_attempts)
    PauseThreshold,  \* settings.safety_pause_threshold
    Answers,         \* what Telegram may answer a delivery attempt
    Budget           \* how many commands, crashes, stalls and outages may happen

Jobs == Messages \X Chats

\* "unclear" is AmbiguousDeliveryError; "lost" a transient error after which the
\* message may be there; "error" one that came before it.  In forward mode a
\* user account's random_id makes Telegram drop the second message: there "lost"
\* is as good as "error".  Copy mode and bots have no such token.
AllAnswers == {"posted", "refused", "unclear", "auth", "flood", "wait", "error", "lost"}
Kinds == {"command", "crash", "stall", "outage"}

ASSUME MatchingAssumption == Matching \subseteq Messages
ASSUME NoJobAssumption == NoJob \notin Jobs
ASSUME LimitsAssumption == MaxAttempts \in Nat \ {0} /\ PauseThreshold \in Nat \ {0}
ASSUME AnswersAssumption == Answers \subseteq AllAnswers
ASSUME BudgetAssumption == Budget \in [Kinds -> Nat]

VARIABLES
    rstatus,   \* ForwardingRule.status ("deleted": the row is gone)
    version,   \* ForwardingRule.version
    keyworded, \* whether the rule has keyword filters
    dests,     \* its destinations
    postable,  \* chats with ConnectionChatAccess.can_post_destination
    conn,      \* TelegramConnection.status ("off": error or disconnected)
    token,     \* adapter_for finds what it needs (a bot's: until it is revoked)
    active,    \* User.is_active
    status,    \* ForwardingJob.status per job ("absent": no row)
    jversion,  \* ForwardingJob.rule_version
    tries,     \* ForwardingJob.attempt_count, saturated at MaxAttempts
    heard,     \* what each dispatch has read of the rule
    form,      \* what each edit has read of the rule
    top,       \* the highest version written so far
    muddled,   \* versions that stand for two texts, or may come to, since edits overlapped
    at,        \* where each task is in its transaction
    job,       \* the job each task works on
    saw,       \* what each task read
    answer,    \* what its attempt came to
    orphan,    \* tasks whose job row was deleted under them
    posts,     \* copies of the message in the chat (0, 1, or 2 for more)
    disturbed, \* jobs an attempt of which was lost track of
    budget     \* what is left of Budget

rule == <<rstatus, version, keyworded, dests>>
links == <<postable, conn, token, active>>
rows == <<status, jversion, tries>>
edits == <<form, top, muddled>>
readers == <<heard, edits>>
tasks == <<at, job, saw, answer, orphan>>
group == <<posts, disturbed>>
vars == <<rule, links, rows, readers, tasks, group, budget>>

RuleStatus == {"draft", "active", "paused", "disconnected", "deleted"}
JobStatus == {"absent", "pending", "leased", "succeeded", "skipped", "failed",
              "dead_letter", "needs_attention"}
Stages == {"idle", "claimed", "loaded", "cleared", "answered"}
\* `current`: the rule was not edited since the task checked it.
Snapshot == [conn: BOOLEAN, status: JobStatus, tries: 0..MaxAttempts, current: BOOLEAN]
Blank == [conn |-> FALSE, status |-> "absent", tries |-> 0, current |-> FALSE]

-----------------------------------------------------------------------------
(* State formulae *)

Unfinished == {"pending", "leased"}
Live(w) == at[w] # "idle"
InFlight(j) == \E w \in Workers : Live(w) /\ job[w] = j
Owned(j) == \E w \in Workers \ orphan : Live(w) /\ job[w] = j

Spend(kind) == budget[kind] > 0 /\ budget' = [budget EXCEPT ![kind] = @ - 1]

\* evaluate: the keyword filters.
Passes(m) == keyworded => m \in Matching

\* _handle_stale_job: an older version's job is held against the rule as it is,
\* and against keywords never passes, for its text was not kept.
Stale(j) == jversion[j] # version /\ (j[2] \notin dests \/ keyworded)

\* What the task will write into its row's status.
Outcome(w) ==
    CASE answer[w] = "posted" -> "succeeded"
      [] answer[w] \in {"barred", "denied", "refused"} -> "skipped"
      [] answer[w] = "unclear" -> "needs_attention"
      [] answer[w] = "auth" -> "failed"
      [] answer[w] \in {"error", "lost"} /\ saw[w].tries + 1 >= MaxAttempts -> "dead_letter"
      [] OTHER -> "pending"

\* The ORM writes an attribute only when it differs from what was loaded.
Written(w) == IF Outcome(w) = saw[w].status THEN status[job[w]] ELSE Outcome(w)

\* cancel_pending_for_rule and cancel_pending_for_connection.
Cancelled == [j \in Jobs |-> IF status[j] \in Unfinished THEN "skipped" ELSE status[j]]

\* An active rule is paused by the connection's or the account's trouble.
Stopped == IF rstatus = "active" THEN "paused" ELSE rstatus

Init ==
    /\ rstatus = "draft" /\ version = 1 /\ keyworded \in BOOLEAN
    /\ dests \in SUBSET Chats \ {{}}
    /\ postable = Chats /\ conn = "active" /\ token = TRUE /\ active = TRUE
    /\ status = [j \in Jobs |-> "absent"]
    /\ jversion = [j \in Jobs |-> 0]
    /\ tries = [j \in Jobs |-> 0]
    /\ heard = [l \in Listeners |-> Nothing]
    /\ form = [e \in Editors |-> Nothing]
    /\ top = 1 /\ muddled = {}
    /\ at = [w \in Workers |-> "idle"]
    /\ job = [w \in Workers |-> NoJob]
    /\ saw = [w \in Workers |-> Blank]
    /\ answer = [w \in Workers |-> "none"]
    /\ orphan = {}
    /\ posts = [j \in Jobs |-> 0]
    /\ disturbed = {}
    /\ budget = Budget

-----------------------------------------------------------------------------
(* The listener: an update may be delivered again at any time. *)

\* dispatch_inbound finds the rule active and its filters pass.
Hear(l, m) ==
    /\ heard[l] = Nothing
    /\ rstatus = "active" /\ Passes(m)
    /\ heard' = [heard EXCEPT ![l] = [message |-> m, version |-> version, dests |-> dests]]
    /\ UNCHANGED <<rule, links, rows, edits, tasks, group, budget>>

\* Mutant: a job that is there is written again.
NewJobsAgain(l) == {j \in Jobs : j[1] = heard[l].message /\ j[2] \in heard[l].dests \intersect postable}

\* The jobs create_if_absent inserts: eligible destinations, keys not taken.
NewJobs(l) ==
    {j \in Jobs : /\ j[1] = heard[l].message
                  /\ j[2] \in heard[l].dests \intersect postable
                  /\ status[j] = "absent"}

Dispatch(l) ==
    /\ heard[l] # Nothing /\ rstatus # "deleted"
    /\ status' = [j \in Jobs |-> IF j \in NewJobs(l) THEN "pending" ELSE status[j]]
    /\ jversion' = [j \in Jobs |-> IF j \in NewJobs(l) THEN heard[l].version ELSE jversion[j]]
    /\ heard' = [heard EXCEPT ![l] = Nothing]
    /\ UNCHANGED <<rule, links, tries, edits, tasks, group, budget>>

\* The transaction fails (the rule is gone) or the process dies.
Forget(l) ==
    /\ heard[l] # Nothing
    /\ heard' = [heard EXCEPT ![l] = Nothing]
    /\ UNCHANGED <<rule, links, rows, edits, tasks, group, budget>>

-----------------------------------------------------------------------------
(* The worker *)

\* Mutant: the task keeps hold of the job it is done with.
RestClinging(w) ==
    /\ at' = [at EXCEPT ![w] = "idle"]
    /\ saw' = [saw EXCEPT ![w] = Blank]
    /\ answer' = [answer EXCEPT ![w] = "none"]
    /\ orphan' = orphan \ {w}
    /\ UNCHANGED job

\* The end of the task's transaction, committed or rolled back.
Rest(w) ==
    /\ at' = [at EXCEPT ![w] = "idle"]
    /\ job' = [job EXCEPT ![w] = NoJob]
    /\ saw' = [saw EXCEPT ![w] = Blank]
    /\ answer' = [answer EXCEPT ![w] = "none"]
    /\ orphan' = orphan \ {w}

\* claim_batch, one row of it.
Claim(w, j) ==
    /\ at[w] = "idle" /\ status[j] = "pending"
    /\ status' = [status EXCEPT ![j] = "leased"]
    /\ at' = [at EXCEPT ![w] = "claimed"]
    /\ job' = [job EXCEPT ![w] = j]
    /\ UNCHANGED <<rule, links, jversion, tries, readers, saw, answer, orphan, group, budget>>

\* process_job reads the job and the connection, then waits for its turn.  It
\* does not ask whether the row is still leased, or by whom.
Load(w) ==
    /\ at[w] = "claimed" /\ w \notin orphan /\ token
    /\ at' = [at EXCEPT ![w] = "loaded"]
    /\ saw' = [saw EXCEPT ![w] = [conn |-> conn = "active", status |-> status[job[w]],
                                  tries |-> tries[job[w]], current |-> FALSE]]
    /\ UNCHANGED <<rule, links, rows, readers, job, answer, orphan, group, budget>>

\* adapter_for raises before execute_job asks anything: the transaction is rolled
\* back, and the row stays leased with no attempt counted.
NoAdapter(w) ==
    /\ at[w] = "claimed" /\ w \notin orphan /\ ~token
    /\ Rest(w)
    /\ UNCHANGED <<rule, links, rows, readers, group, budget>>

\* The guards of execute_job, on the rule and the account as they are now and
\* the connection as loaded.
MayDeliver(w) == active /\ saw[w].conn /\ rstatus = "active" /\ ~Stale(job[w])

\* execute_job up to the check of the destination's access, which may refuse,
\* or fail and so refuse.
Check(w) ==
    /\ at[w] = "loaded"
    /\ \/ /\ MayDeliver(w)
          /\ at' = [at EXCEPT ![w] = "cleared"]
          /\ saw' = [saw EXCEPT ![w].current = TRUE]
          /\ UNCHANGED answer
       \/ /\ at' = [at EXCEPT ![w] = "answered"]
          /\ answer' = [answer EXCEPT ![w] = IF MayDeliver(w) THEN "denied" ELSE "barred"]
          /\ UNCHANGED saw
    /\ UNCHANGED <<rule, links, rows, readers, job, orphan, group, budget>>

\* The call to Telegram.
Attempt(w, a) ==
    /\ at[w] = "cleared"
    /\ at' = [at EXCEPT ![w] = "answered"]
    /\ answer' = [answer EXCEPT ![w] = a]
    /\ LET once == [posts EXCEPT ![job[w]] = IF @ = 0 THEN 1 ELSE 2]
       IN CASE a = "posted" -> posts' = once
            [] a \in {"unclear", "lost"} -> posts' \in {posts, once}
            [] OTHER -> posts' = posts
    /\ disturbed' = IF a = "lost" THEN disturbed \union {job[w]} ELSE disturbed
    /\ UNCHANGED <<rule, links, rows, readers, job, saw, orphan, budget>>

\* count_recent_failures at the commit, of the jobs whose failure is recent.
TooManyFailures(old) ==
    Cardinality({j \in Jobs \ old : status'[j] \in {"failed", "dead_letter"}}) >= PauseThreshold

\* The commit: the row, the access that was refused, and the rule when the wait
\* is long or failures are many.
Commit(w, old) ==
    /\ at[w] = "answered" /\ w \notin orphan /\ answer[w] # "auth"
    /\ LET j == job[w] IN
        /\ status' = [status EXCEPT ![j] = Written(w)]
        /\ tries' = IF Outcome(w) = "pending"
                    THEN [tries EXCEPT ![j] =
                             IF saw[w].tries < MaxAttempts THEN saw[w].tries + 1 ELSE MaxAttempts]
                    ELSE tries
        /\ postable' = IF answer[w] = "denied" THEN postable \ {j[2]} ELSE postable
        /\ j \notin old /\ (Outcome(w) # "dead_letter" => old = {})
    /\ IF answer[w] = "flood" \/ (Outcome(w) = "dead_letter" /\ TooManyFailures(old))
       THEN rstatus' = "paused" ELSE UNCHANGED rstatus
    /\ Rest(w)
    /\ UNCHANGED <<version, keyworded, dests, conn, token, active, jversion, readers, group, budget>>

\* The commit of a task told its session is revoked: pause_connection first.
LoseSession(w) ==
    /\ at[w] = "answered" /\ answer[w] = "auth" /\ w \notin orphan
    /\ conn' = "paused_safety" /\ rstatus' = Stopped
    /\ status' = [Cancelled EXCEPT ![job[w]] = "failed"]
    /\ Rest(w)
    /\ UNCHANGED <<version, keyworded, dests, postable, token, active, jversion, tries,
                   readers, group, budget>>

\* The row was deleted with its rule: nothing to load, or the flush finds no row.
Abandon(w) ==
    /\ w \in orphan /\ at[w] \in {"claimed", "loaded", "answered"}
    /\ Rest(w)
    /\ UNCHANGED <<rule, links, rows, readers, group, budget>>

\* The process dies, or an exception leaves the transaction.
Crash(w) ==
    /\ Live(w) /\ Spend("crash")
    /\ disturbed' = IF answer[w] \in {"posted", "unclear"}
                    THEN disturbed \union {job[w]} ELSE disturbed
    /\ Rest(w)
    /\ UNCHANGED <<rule, links, rows, readers, posts>>

Work(w) ==
    \/ \E j \in Jobs : Claim(w, j)
    \/ Load(w) \/ NoAdapter(w) \/ Check(w)
    \/ \E a \in Answers : Attempt(w, a)
    \/ \E old \in SUBSET Jobs : Commit(w, old)
    \/ LoseSession(w) \/ Abandon(w)

\* Mutant: the reclaim looks for leases among the pending rows.
ExpirablePending == {j \in Jobs : status[j] = "pending"}

\* The rows reclaim_expired may take back.
Expirable == {j \in Jobs : status[j] = "leased"}

\* reclaim_expired.  A lease with nobody behind it runs out; one whose task
\* still works (its heartbeat only starts after the wait for its turn) by a stall.
Reclaim(expired) ==
    /\ expired # {}
    /\ status' = [j \in Jobs |-> IF j \in expired THEN "pending" ELSE status[j]]
    /\ disturbed' = disturbed \union {j \in expired : Owned(j)}
    /\ IF \E j \in expired : Owned(j) THEN Spend("stall") ELSE UNCHANGED budget
    /\ UNCHANGED <<rule, links, jversion, tries, readers, tasks, posts>>

-----------------------------------------------------------------------------
(* The customer; the API serves only an account that is not suspended *)

Command == active /\ rstatus # "deleted" /\ Spend("command")

\* activate, and resume, which is the same.
Activate ==
    /\ Command /\ dests \intersect postable # {}
    /\ rstatus' = "active"
    /\ UNCHANGED <<version, keyworded, dests, links, rows, readers, tasks, group>>

Pause ==
    /\ Command /\ rstatus' = "paused" /\ status' = Cancelled
    /\ UNCHANGED <<version, keyworded, dests, links, jversion, tries, readers, tasks, group>>

\* update_rule reads the rule ...
OpenEdit(e) ==
    /\ form[e] = Nothing /\ Command
    /\ form' = [form EXCEPT ![e] = [version |-> version, keyworded |-> keyworded]]
    /\ UNCHANGED <<rule, links, rows, heard, top, muddled, tasks, group>>

\* Mutant: an edit leaves the version alone.
NextVersionSame(e) == form[e].version

\* The version an edit writes: the one it read, plus one.
NextVersion(e) == form[e].version + 1

\* ... validates, and writes it: the filters if they differ from what it read.
SaveEdit(e, keywords, chosen) ==
    /\ form[e] # Nothing /\ rstatus # "deleted"
    /\ chosen # {} /\ chosen \subseteq postable
    /\ version' = NextVersion(e)
    /\ top' = IF version' > top THEN version' ELSE top
    /\ muddled' = IF form[e].version = version THEN muddled ELSE muddled \union (version'..top)
    /\ keyworded' = IF keywords = form[e].keyworded THEN keyworded ELSE keywords
    /\ dests' = chosen
    /\ form' = [form EXCEPT ![e] = Nothing]
    /\ saw' = [w \in Workers |-> [saw[w] EXCEPT !.current = FALSE]]
    /\ UNCHANGED <<rstatus, links, rows, heard, at, job, answer, orphan, group, budget>>

\* The edit is refused, or its rule was deleted.
DropEdit(e) ==
    /\ form[e] # Nothing
    /\ form' = [form EXCEPT ![e] = Nothing]
    /\ UNCHANGED <<rule, links, rows, heard, top, muddled, tasks, group, budget>>

\* delete_rule: the jobs go with their rule.
Delete ==
    /\ Command /\ rstatus' = "deleted"
    /\ status' = [j \in Jobs |-> "absent"]
    /\ jversion' = [j \in Jobs |-> 0] /\ tries' = [j \in Jobs |-> 0]
    /\ orphan' = {w \in Workers : Live(w)}
    /\ disturbed' = disturbed \union {j \in Jobs : InFlight(j)}
    /\ UNCHANGED <<version, keyworded, dests, links, readers, at, job, saw, answer, posts>>

\* Mutant: everything that came to an end is taken up again.
RequeuedAll == {j \in Jobs : status[j] \in
                   {"failed", "needs_attention", "dead_letter", "succeeded"}}

\* requeue_failed: what retry-failed takes up again.
Requeued == {j \in Jobs : status[j] \in {"failed", "needs_attention", "dead_letter"}}

\* retry_failed.  Retrying an unclear attempt gives up on posting once.
Retry ==
    /\ Command /\ Requeued # {}
    /\ status' = [j \in Jobs |-> IF j \in Requeued THEN "pending" ELSE status[j]]
    /\ tries' = [j \in Jobs |-> IF j \in Requeued THEN 0 ELSE tries[j]]
    /\ disturbed' = disturbed \union {j \in Jobs : status[j] = "needs_attention"}
    /\ UNCHANGED <<rule, links, jversion, readers, tasks, posts>>

Customer ==
    \/ Activate \/ Pause \/ Delete \/ Retry
    \/ \E e \in Editors : \/ OpenEdit(e) \/ DropEdit(e)
                          \/ \E k \in BOOLEAN, chosen \in SUBSET Chats : SaveEdit(e, k, chosen)

-----------------------------------------------------------------------------
(* The connection, the account and the chats *)

\* pause_connection, called by other work on the same connection.
PauseConnection ==
    /\ conn # "paused_safety" /\ Spend("outage")
    /\ conn' = "paused_safety" /\ rstatus' = Stopped /\ status' = Cancelled
    /\ UNCHANGED <<version, keyworded, dests, postable, token, active, jversion, tries,
                   readers, tasks, group>>

\* disconnect: every rule of the connection, whatever its status; with `revoke` a
\* bot's token is deleted, while an account without a session has an adapter still.
Disconnect ==
    /\ Spend("outage")
    /\ conn' = "off" /\ token' \in {token, FALSE} /\ status' = Cancelled
    /\ rstatus' = IF rstatus = "deleted" THEN rstatus ELSE "disconnected"
    /\ UNCHANGED <<version, keyworded, dests, postable, active, jversion, tries,
                   readers, tasks, group>>

\* run_health_check: the rules and their jobs are not told.
FailHealth ==
    /\ conn # "off" /\ token /\ Spend("outage") /\ conn' = "off"
    /\ UNCHANGED <<rule, postable, token, active, rows, readers, tasks, group>>

\* A health check or a sign-in, which needs an adapter; nothing stores a token anew.
Reconnect ==
    /\ conn # "active" /\ token /\ conn' = "active"
    /\ UNCHANGED <<rule, postable, token, active, rows, readers, tasks, group, budget>>

Suspend ==
    /\ active /\ Spend("outage")
    /\ active' = FALSE /\ rstatus' = Stopped /\ status' = Cancelled
    /\ UNCHANGED <<version, keyworded, dests, postable, conn, token, jversion, tries,
                   readers, tasks, group>>

\* reinstate restarts nothing.
Reinstate ==
    /\ ~active /\ active' = TRUE
    /\ UNCHANGED <<rule, postable, conn, token, rows, readers, tasks, group, budget>>

\* A synchronisation finds that a chat may be posted to after all, or no longer.
Synchronize(d) ==
    /\ \/ d \notin postable /\ postable' = postable \union {d} /\ UNCHANGED budget
       \/ d \in postable /\ postable' = postable \ {d} /\ Spend("outage")
    /\ UNCHANGED <<rule, conn, token, active, rows, readers, tasks, group>>

Elsewhere ==
    \/ PauseConnection \/ Disconnect \/ FailHealth \/ Reconnect \/ Suspend \/ Reinstate
    \/ \E d \in Chats : Synchronize(d)

-----------------------------------------------------------------------------

Next ==
    \/ \E l \in Listeners : (\E m \in Messages : Hear(l, m)) \/ Dispatch(l) \/ Forget(l)
    \/ \E w \in Workers : Work(w) \/ Crash(w)
    \/ \E expired \in SUBSET Expirable : Reclaim(expired)
    \/ Customer
    \/ Elsewhere

Spec == Init /\ [][Next]_vars

\* The worker's loop and the reclaim keep running.
FairSpec ==
    /\ Spec
    /\ \A w \in Workers : WF_vars(Work(w))
    /\ WF_vars(\E expired \in SUBSET Expirable : Reclaim(expired))

-----------------------------------------------------------------------------
(* Properties *)

Read == [message: Messages, version: Nat, dests: SUBSET Chats]
Form == [version: Nat, keyworded: BOOLEAN]

TypeOK ==
    /\ rstatus \in RuleStatus /\ version \in Nat /\ keyworded \in BOOLEAN
    /\ dests \subseteq Chats /\ postable \subseteq Chats
    /\ conn \in {"active", "paused_safety", "off"} /\ token \in BOOLEAN /\ active \in BOOLEAN
    /\ status \in [Jobs -> JobStatus]
    /\ jversion \in [Jobs -> Nat]
    /\ tries \in [Jobs -> 0..MaxAttempts]
    /\ heard \in [Listeners -> Read \union {Nothing}]
    /\ form \in [Editors -> Form \union {Nothing}]
    /\ top \in Nat /\ muddled \subseteq Nat
    /\ at \in [Workers -> Stages]
    /\ job \in [Workers -> Jobs \union {NoJob}]
    /\ \A w \in Workers : job[w] = NoJob <=> at[w] = "idle"
    /\ saw \in [Workers -> Snapshot]
    /\ answer \in [Workers -> AllAnswers \union {"barred", "denied", "none"}]
    /\ orphan \subseteq Workers
    /\ posts \in [Jobs -> 0..2]
    /\ disturbed \subseteq Jobs
    /\ budget \in [Kinds -> Nat]

\* A message reaches a destination once, however often its update arrives, the
\* rule is edited or the job retried (docs/OPERATIONS.md: "A repeated source event
\* cannot duplicate a successful destination delivery"), unless the code lost
\* track of an attempt: a reply that got lost, a crash after the post, a lease
\* that ran out under a live task, an unclear attempt retried.
DeliveredOnce == \A j \in Jobs : posts[j] > 1 => j \in disturbed

\* Once nobody works on a job its row tells what the destination got.
RecordsMatchPosts ==
    \A j \in Jobs \ disturbed :
        status[j] # "absent" /\ ~InFlight(j) =>
            CASE status[j] = "succeeded" -> posts[j] = 1
              [] status[j] = "needs_attention" -> posts[j] <= 1
              [] OTHER -> posts[j] = 0

Fits(m, c) == c \in dests /\ Passes(m)

\* What is about to be sent fits the rule as the task found it (docs/OPERATIONS.md,
\* "Rules edited while jobs are queued"): its destination is one of the rule's,
\* and its text passes the rule's keywords, though the text is not there to be
\* asked again; unless its version stands for two texts, because edits overlapped
\* (update_rule reads and writes the version without a lock).
FitsTheRule ==
    \A w \in Workers \ orphan :
        at[w] = "cleared" /\ saw[w].current /\ jversion[job[w]] \notin muddled =>
            Fits(job[w][1], job[w][2])

\* Works(w, j): the task is at work on the job.
Works(w, j) == Live(w) /\ job[w] = j

\* A job in flight that nothing was lost track of has one task, of a rule that is
\* there; its row is leased, or was cancelled under the task; and the destination
\* got what the task's answer says.
Held(j) ==
    \A w \in Workers : Works(w, j) =>
        /\ w \notin orphan
        /\ \A v \in Workers : Works(v, j) => v = w
        /\ status[j] \in {"leased", "skipped"}
        /\ at[w] # "claimed" => saw[w].status \in {"leased", status[j]}
        /\ CASE at[w] = "answered" /\ answer[w] = "posted" -> posts[j] = 1
             [] at[w] = "answered" /\ answer[w] = "unclear" -> posts[j] <= 1
             [] OTHER -> posts[j] = 0

\* The row of a job nobody works on tells what the destination got.
Told(j) ==
    CASE status[j] = "succeeded" -> posts[j] = 1
      [] status[j] = "needs_attention" -> posts[j] <= 1
      [] status[j] = "absent" -> posts[j] = 0 \/ (rstatus = "deleted" /\ posts[j] = 1)
      [] OTHER -> posts[j] = 0

Accounted(j) == IF InFlight(j) THEN Held(j) ELSE Told(j)

\* A deleted rule left no row; the tasks it was deleted under are at work.
Gone ==
    /\ \A w \in orphan : Live(w)
    /\ rstatus = "deleted" => /\ \A j \in Jobs : status[j] = "absent"
                             /\ \A w \in Workers : Live(w) => w \in orphan

\* The invariant DeliveredOnce and RecordsMatchPosts are proved from.
IInv == (\A j \in Jobs \ disturbed : Accounted(j)) /\ Gone

\* The invariant FitsTheRule is proved from: whatever carries the rule's present
\* version, a job or a dispatch, carries what the rule says at present, unless the
\* version stands for two texts; and so do the versions it fell back behind.
VersionsTell ==
    /\ version \in 1..top /\ muddled \subseteq 1..top
    /\ version + 1 .. top \subseteq muddled
    /\ \A j \in Jobs :
          /\ jversion[j] <= top /\ (status[j] = "absent" => jversion[j] = 0)
          /\ jversion[j] = version /\ version \notin muddled => Fits(j[1], j[2])
    /\ \A l \in Listeners : heard[l] # Nothing =>
          /\ heard[l].version <= top
          /\ heard[l].version = version /\ version \notin muddled =>
                heard[l].dests = dests /\ Passes(heard[l].message)
    /\ \A e \in Editors : form[e] # Nothing => form[e].version \in 1..top
    /\ \A w \in Workers \ orphan :
          at[w] = "cleared" /\ saw[w].current /\ jversion[job[w]] \notin muddled =>
              Fits(job[w][1], job[w][2])

\* Every job comes to an end that a person can see: whatever crashes or stalls,
\* no row stays "pending" or "leased" (docs/OPERATIONS.md, the recovery matrix), as
\* long as an adapter can be built for its connection.
QueueDrains ==
    \A j \in Jobs : (status[j] \in Unfinished) ~> (status[j] \notin Unfinished \/ ~token)

\* No error is retried for ever (docs/OPERATIONS.md, the taxonomy: unmapped errors
\* are "treated conservatively", "limited retries, then dead_letter").
RetriesEnd == \A j \in Jobs : (status[j] \in Unfinished) ~> (status[j] \notin Unfinished)
=============================================================================
