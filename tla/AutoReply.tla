----------------------------- MODULE AutoReply -----------------------------
(***************************************************************************)
(* The automatic reply of one connection: the listener's consumer tasks     *)
(* that answer who wrote, the log of who was answered, the customer's        *)
(* settings and the purge of old entries.                                   *)
(*                                                                          *)
(* Answering is one transaction: it reads the settings, claims the person's *)
(* entry of the log with one conditional upsert (which locks it until the   *)
(* end), calls Telegram, and gives the entry back if the call failed.       *)
(*                                                                          *)
(* Time is counted in ticks, far longer than a transaction: none is open    *)
(* on the log when the clock ticks.  An age stops at Forever, which also    *)
(* stands for no entry and for one parked in 1970.                          *)
(***************************************************************************)
EXTENDS Naturals

CONSTANTS
    Persons,    \* who may write to the account
    Consumers,  \* consumer tasks, over all listener processes
    NoPerson,   \* who an idle consumer answers
    Cooldowns,  \* values the customer may give auto_replies.cooldown_s
    Retention,  \* age at which an entry of the log is purged
    Forever     \* the cap on ages

ASSUME NoPersonAssumption == NoPerson \notin Persons
ASSUME AgesAssumption ==
    /\ Forever \in Nat /\ Retention \in 1..Forever /\ Cooldowns \subseteq 1..Forever

VARIABLES
    answering, \* connection active, the reply on with a text, an ad running or recent
    cooldown,  \* AutoReply.cooldown_s
    replied,   \* age of AutoReplyLog.replied_at per person, as the transactions see it
    step,      \* where each consumer is in handle_incoming
    peer,      \* the sender it may answer
    window,    \* the cooldown it read
    before,    \* the age its claim overwrote, which a rollback brings back
    last,      \* time since an answer last reached the person
    disturbed  \* persons whose entry was lost, or overwritten in vain

settings == <<answering, cooldown>>
replying == <<step, peer, window, before>>
replyVars == <<settings, replied, replying, last, disturbed>>

Ages == 0..Forever
Holding == {"claimed", "sent", "failed", "lost"}

Locked(p) == \E c \in Consumers : step[c] \in Holding /\ peer[c] = p

Older(ages) == [p \in Persons |-> IF ages[p] < Forever THEN ages[p] + 1 ELSE Forever]

ReplyInit ==
    /\ answering \in BOOLEAN /\ cooldown \in Cooldowns
    /\ replied = [p \in Persons |-> Forever]
    /\ step = [c \in Consumers |-> "idle"]
    /\ peer = [c \in Consumers |-> NoPerson]
    /\ window = [c \in Consumers |-> 0]
    /\ before = [c \in Consumers |-> Forever]
    /\ last = [p \in Persons |-> Forever]
    /\ disturbed = {}

-----------------------------------------------------------------------------
(* handle_incoming *)

\* Its early returns, up to the claim.
Hear(c, p) ==
    /\ step[c] = "idle"
    /\ \/ /\ answering
          /\ step' = [step EXCEPT ![c] = "asking"]
          /\ peer' = [peer EXCEPT ![c] = p]
          /\ window' = [window EXCEPT ![c] = cooldown]
       \/ ~answering /\ UNCHANGED <<step, peer, window>>
    /\ UNCHANGED <<settings, replied, before, last, disturbed>>

\* claim_reply_slot: insert, or update where replied_at < cutoff.
Granted(c) ==
    /\ replied[peer[c]] >= window[c]
    /\ replied' = [replied EXCEPT ![peer[c]] = 0]
    /\ before' = [before EXCEPT ![c] = replied[peer[c]]]
    /\ step' = [step EXCEPT ![c] = "claimed"]
    /\ UNCHANGED <<peer, window>>

LeaveHolding(c) ==
    /\ step' = [step EXCEPT ![c] = "idle"]
    /\ UNCHANGED <<peer, window, before>>

\* The consumer is done with handle_incoming.
Leave(c) ==
    /\ step' = [step EXCEPT ![c] = "idle"]
    /\ peer' = [peer EXCEPT ![c] = NoPerson]
    /\ window' = [window EXCEPT ![c] = 0]
    /\ before' = [before EXCEPT ![c] = Forever]

Claim(c) ==
    /\ step[c] = "asking" /\ ~Locked(peer[c])
    /\ \/ Granted(c)
       \/ replied[peer[c]] < window[c] /\ Leave(c) /\ UNCHANGED replied
    /\ UNCHANGED <<settings, last, disturbed>>

\* send_text: "lost" is an exception after the message reached the person.
SendText(c) ==
    /\ step[c] = "claimed"
    /\ \E answer \in {"sent", "failed", "lost"} :
          /\ step' = [step EXCEPT ![c] = answer]
          /\ last' = IF answer = "failed" THEN last ELSE [last EXCEPT ![peer[c]] = 0]
    /\ UNCHANGED <<settings, replied, peer, window, before, disturbed>>

GiveBackForgotten(c) ==
    /\ UNCHANGED replied
    /\ disturbed' = disturbed \union {peer[c]}

\* release_reply_slot: a first entry is deleted, a later one parked in 1970.
GiveBack(c) ==
    /\ replied' = [replied EXCEPT ![peer[c]] = Forever]
    /\ disturbed' = IF step[c] = "lost" \/ before[c] < Forever
                    THEN disturbed \union {peer[c]}
                    ELSE disturbed

\* The end of the transaction.
Finish(c) ==
    /\ \/ step[c] = "sent" /\ disturbed' = disturbed \ {peer[c]} /\ UNCHANGED replied
       \/ step[c] \in {"failed", "lost"} /\ GiveBack(c)
    /\ Leave(c)
    /\ UNCHANGED <<settings, last>>

\* These consumers die, or their transactions fail: what they wrote is undone.
RollBack(dead) ==
    /\ replied' = [p \in Persons |->
           IF \E c \in dead : step[c] \in Holding /\ peer[c] = p
           THEN before[CHOOSE c \in dead : step[c] \in Holding /\ peer[c] = p]
           ELSE replied[p]]
    /\ disturbed' = disturbed \union {peer[c] : c \in {d \in dead : step[d] \in {"sent", "lost"}}}
    /\ step' = [c \in Consumers |-> IF c \in dead THEN "idle" ELSE step[c]]
    /\ peer' = [c \in Consumers |-> IF c \in dead THEN NoPerson ELSE peer[c]]
    /\ window' = [c \in Consumers |-> IF c \in dead THEN 0 ELSE window[c]]
    /\ before' = [c \in Consumers |-> IF c \in dead THEN Forever ELSE before[c]]
    /\ UNCHANGED <<settings, last>>

-----------------------------------------------------------------------------
(* Everybody else *)

Quiet == \A p \in Persons : ~Locked(p)

Tick ==
    /\ Quiet
    /\ replied' = Older(replied) /\ last' = Older(last)
    /\ UNCHANGED <<settings, replying, disturbed>>

PurgeableEarly(p) == replied[p] >= Retention - 1
Purgeable(p) == replied[p] >= Retention

\* purge_log, by the scheduler's retention loop.
Purge ==
    /\ Quiet
    /\ replied' = [p \in Persons |-> IF Purgeable(p) THEN Forever ELSE replied[p]]
    /\ UNCHANGED <<settings, replying, last, disturbed>>

\* The customer's buttons, the connection's status, the ads that start and end.
Switch ==
    /\ answering' = ~answering
    /\ UNCHANGED <<cooldown, replied, replying, last, disturbed>>

SetCooldown(n) ==
    /\ n # cooldown /\ cooldown' = n
    /\ UNCHANGED <<answering, replied, replying, last, disturbed>>

ReplySettings == Switch \/ \E n \in Cooldowns : SetCooldown(n)
ReplyStep(c) == Claim(c) \/ SendText(c) \/ Finish(c)

ReplyNext ==
    \/ \E c \in Consumers : (\E p \in Persons : Hear(c, p)) \/ ReplyStep(c)
    \/ \E dead \in SUBSET Consumers : RollBack(dead)
    \/ Tick \/ Purge \/ ReplySettings

ReplySpec == ReplyInit /\ [][ReplyNext]_replyVars

-----------------------------------------------------------------------------
(* Properties *)

\* Every variable keeps its type; a consumer has a peer while it answers.
ReplyTypeOK ==
    /\ answering \in BOOLEAN /\ cooldown \in Cooldowns
    /\ replied \in [Persons -> Ages] /\ last \in [Persons -> Ages]
    /\ step \in [Consumers -> {"idle", "asking"} \union Holding]
    /\ peer \in [Consumers -> Persons \union {NoPerson}]
    /\ \A c \in Consumers : peer[c] = NoPerson <=> step[c] = "idle"
    /\ window \in [Consumers -> Ages] /\ before \in [Consumers -> Ages]
    /\ disturbed \subseteq Persons

\* One answer per person and window, even across restarts (handle_incoming,
\* claim_reply_slot, purge_log): whoever is about to answer a person read a
\* cooldown that has passed since the last answer arrived, or the answer is as old
\* as the log is kept, however long the cooldown; unless the record of that answer
\* was lost, or overwritten by a claim that was given back.
OneAnswerPerWindow ==
    \A c \in Consumers :
        step[c] = "claimed" /\ peer[c] \notin disturbed =>
            last[peer[c]] >= window[c] \/ last[peer[c]] >= Retention

\* Nobody pays with a cooldown for an answer that never arrived
\* (release_reply_slot): an entry of the log means an answer no older than it.
EntriesMeanAnswers ==
    \A p \in Persons : ~Locked(p) /\ replied[p] < Forever => last[p] <= replied[p]

(* The argument of the proofs. *)

\* One transaction at a time holds a person's entry.
OneHolder ==
    \A c, d \in Consumers :
        step[c] \in Holding /\ step[d] \in Holding /\ peer[c] = peer[d] => c = d

\* An entry of this age stands for an answer of that age, or the answer is so
\* old that its entry may have been purged.
Tells(age, p) == age = last[p] \/ last[p] >= Retention

Remembered ==
    /\ \A p \in Persons \ disturbed : ~Locked(p) => Tells(replied[p], p)
    /\ \A c \in Consumers :
          step[c] \in {"claimed", "failed"} /\ peer[c] \notin disturbed =>
              Tells(before[c], peer[c])

\* No entry is younger than the last answer, seen now or after a rollback.
Earned ==
    /\ EntriesMeanAnswers
    /\ \A c \in Consumers :
          /\ step[c] \in {"claimed", "failed"} /\ before[c] < Forever =>
                 last[peer[c]] <= before[c]
          /\ step[c] \in {"sent", "lost"} => last[peer[c]] = 0
          /\ step[c] \in Holding => replied[peer[c]] = 0
          /\ step[c] # "idle" => window[c] \in Cooldowns

ReplyIInv == ReplyTypeOK /\ OneHolder /\ Remembered /\ Earned /\ OneAnswerPerWindow
=============================================================================
