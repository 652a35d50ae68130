---------------------------- MODULE IntakeProofs ----------------------------
(***************************************************************************)
(* What the automatic reply guarantees for any number of persons and       *)
(* consumer tasks; and Intake composes its two parts without changing      *)
(* either: each of its steps is a step of the listener, of the automatic   *)
(* reply, or of both, so what is proved of the parts holds of the whole.   *)
(***************************************************************************)
EXTENDS Intake, ListenerProofs

-----------------------------------------------------------------------------
(* The automatic reply *)

\* The log and those who hold its entries.
Log == ReplyTypeOK /\ OneHolder /\ Remembered /\ Earned

USE NoPersonAssumption, AgesAssumption DEF NoPersonAssumption, AgesAssumption

LEMMA ReplyInitInv == ReplyInit => ReplyIInv
<1> SUFFICES ASSUME ReplyInit PROVE ReplyIInv
  OBVIOUS
<1>1. answering \in BOOLEAN
  BY Zenon DEF ReplyInit
<1>2. ReplyTypeOK
  BY <1>1 DEF ReplyInit, ReplyTypeOK, Ages, Holding
<1>3. \A c \in Consumers : step[c] = "idle"
  BY DEF ReplyInit
<1>4. OneHolder /\ OneAnswerPerWindow
  BY <1>3 DEF OneHolder, OneAnswerPerWindow, Holding
<1>5. Remembered
  BY <1>3 DEF ReplyInit, Remembered, Tells
<1>6. Earned
  BY <1>3 DEF ReplyInit, Earned, EntriesMeanAnswers, Holding
<1>7. QED
  BY <1>2, <1>4, <1>5, <1>6 DEF ReplyIInv

-----------------------------------------------------------------------------
(* Types *)

\* Leaving handle_incoming keeps the types of what the consumers hold.
LEMMA LeaveType ==
  ASSUME ReplyTypeOK, NEW c \in Consumers, Leave(c)
  PROVE  /\ step' \in [Consumers -> {"idle", "asking"} \union Holding]
         /\ peer' \in [Consumers -> Persons \union {NoPerson}]
         /\ \A d \in Consumers : peer'[d] = NoPerson <=> step'[d] = "idle"
         /\ window' \in [Consumers -> Ages] /\ before' \in [Consumers -> Ages]
  BY DEF ReplyTypeOK, Leave, Ages

LEMMA ConsumerType ==
  ASSUME ReplyTypeOK, NEW c \in Consumers,
         (\E p \in Persons : Hear(c, p)) \/ ReplyStep(c)
  PROVE  ReplyTypeOK'
<1>1. ASSUME NEW p \in Persons, Hear(c, p) PROVE ReplyTypeOK'
  <2>1. Cooldowns \subseteq Ages
    BY DEF Ages
  <2>2. CASE answering
    BY <1>1, <2>1, <2>2 DEF Hear, ReplyTypeOK, settings
  <2>3. CASE ~answering
    BY <1>1, <2>3 DEF Hear, ReplyTypeOK, settings
  <2>4. QED
    BY <2>2, <2>3
<1>2. ASSUME Claim(c) PROVE ReplyTypeOK'
  <2>1. peer[c] \in Persons
    BY <1>2 DEF Claim, ReplyTypeOK
  <2>2. CASE Granted(c)
    BY <1>2, <2>1, <2>2 DEF Claim, Granted, ReplyTypeOK, Ages, Holding, settings
  <2>3. CASE Leave(c) /\ UNCHANGED replied
    BY <1>2, <2>3, LeaveType DEF Claim, ReplyTypeOK, settings
  <2>4. QED
    BY <1>2, <2>2, <2>3 DEF Claim
<1>3. ASSUME SendText(c) PROVE ReplyTypeOK'
  BY <1>3 DEF SendText, ReplyTypeOK, Ages, Holding, settings
<1>4. ASSUME Finish(c) PROVE ReplyTypeOK'
  <2>1. peer[c] \in Persons
    BY <1>4 DEF Finish, ReplyTypeOK
  <2>2. replied' \in [Persons -> Ages] /\ disturbed' \subseteq Persons
    BY <1>4, <2>1 DEF Finish, GiveBack, ReplyTypeOK, Ages
  <2>3. QED
    BY <1>4, <2>2, LeaveType DEF Finish, ReplyTypeOK, settings
<1>5. QED
  BY <1>1, <1>2, <1>3, <1>4 DEF ReplyStep

LEMMA RollBackType ==
  ASSUME ReplyTypeOK, NEW dead \in SUBSET Consumers, RollBack(dead)
  PROVE  ReplyTypeOK'
<1>1. replied' \in [Persons -> Ages]
  BY DEF RollBack, ReplyTypeOK
<1>2. disturbed' \subseteq Persons
  BY DEF RollBack, ReplyTypeOK
<1>3. QED
  BY <1>1, <1>2 DEF RollBack, ReplyTypeOK, Ages, settings

LEMMA OthersType ==
  ASSUME ReplyTypeOK, Tick \/ Purge \/ ReplySettings
  PROVE  ReplyTypeOK'
<1>1. CASE Tick
  <2>1. Older(replied) \in [Persons -> Ages] /\ Older(last) \in [Persons -> Ages]
    BY DEF ReplyTypeOK, Older, Ages
  <2>2. QED
    BY <1>1, <2>1 DEF Tick, ReplyTypeOK, settings, replying
<1>2. CASE Purge
  BY <1>2 DEF Purge, ReplyTypeOK, Ages, settings, replying
<1>3. CASE Switch
  BY <1>3 DEF Switch, ReplyTypeOK, replying
<1>4. ASSUME NEW n \in Cooldowns, SetCooldown(n) PROVE ReplyTypeOK'
  BY <1>4 DEF SetCooldown, ReplyTypeOK, replying
<1>5. QED
  BY <1>1, <1>2, <1>3, <1>4 DEF ReplySettings

-----------------------------------------------------------------------------
(* The log *)

\* Reading the settings leaves the log and who holds it alone.
LEMMA HearInv ==
  ASSUME Log, NEW c \in Consumers, NEW p \in Persons, Hear(c, p)
  PROVE  OneHolder' /\ Remembered' /\ Earned'
<1> USE DEF Log
<1>1. CASE ~answering
  BY <1>1 DEF Hear, OneHolder, Remembered, Tells, Earned, EntriesMeanAnswers, Locked
<1>2. CASE answering
  <2>1. /\ step' = [step EXCEPT ![c] = "asking"] /\ peer' = [peer EXCEPT ![c] = p]
        /\ window' = [window EXCEPT ![c] = cooldown]
        /\ UNCHANGED <<replied, before, last, disturbed>>
    BY <1>2 DEF Hear
  <2>2. step[c] = "idle" /\ cooldown \in Cooldowns
    BY DEF Hear, ReplyTypeOK
  <2>3. \A d \in Consumers : step'[d] \in Holding =>
            /\ step[d] = step'[d] /\ peer'[d] = peer[d] /\ window'[d] = window[d]
    BY <2>1, <2>2 DEF ReplyTypeOK, Holding
  <2>4. \A q \in Persons : Locked(q)' <=> Locked(q)
    BY <2>1, <2>2 DEF ReplyTypeOK, Locked, Holding
  <2>5. OneHolder'
    BY <2>3 DEF OneHolder
  <2>6. Remembered'
    BY <2>1, <2>3, <2>4 DEF Remembered, Tells, Holding
  <2>7. EntriesMeanAnswers'
    BY <2>1, <2>4 DEF Earned, EntriesMeanAnswers
  <2>8. Earned'
    BY <2>1, <2>2, <2>3, <2>7 DEF Earned, Holding, ReplyTypeOK
  <2>9. QED
    BY <2>5, <2>6, <2>8
<1>3. QED
  BY <1>1, <1>2

\* A claim takes an entry nobody holds, and saves what a rollback brings back.
LEMMA ClaimInv ==
  ASSUME Log, NEW c \in Consumers, Claim(c)
  PROVE  OneHolder' /\ Remembered' /\ Earned'
<1> USE DEF Log
<1>1. peer[c] \in Persons /\ step[c] = "asking" /\ ~Locked(peer[c]) /\ window[c] \in Cooldowns
  BY DEF Claim, ReplyTypeOK, Earned
<1>2. CASE Granted(c)
  <2>1. /\ replied' = [replied EXCEPT ![peer[c]] = 0]
        /\ before' = [before EXCEPT ![c] = replied[peer[c]]]
        /\ step' = [step EXCEPT ![c] = "claimed"]
        /\ UNCHANGED <<peer, window, last, disturbed>>
    BY <1>2 DEF Granted, Claim
  <2>2. \A q \in Persons : Locked(q)' <=> Locked(q) \/ q = peer[c]
    BY <1>1, <2>1 DEF ReplyTypeOK, Locked, Holding
  <2>3. OneHolder'
    BY <1>1, <2>1 DEF OneHolder, Locked, ReplyTypeOK
  <2>4. Remembered'
    <3>1. ASSUME NEW q \in Persons, q \notin disturbed', ~Locked(q)'
          PROVE  Tells(replied[q], q)'
      BY <1>1, <2>1, <2>2, <3>1 DEF Remembered, Tells, ReplyTypeOK
    <3>2. ASSUME NEW d \in Consumers, step'[d] \in {"claimed", "failed"},
                 peer'[d] \notin disturbed'
          PROVE  Tells(before[d], peer[d])'
      <4>1. CASE d = c
        BY <1>1, <2>1, <3>2, <4>1 DEF Remembered, Tells, ReplyTypeOK
      <4>2. CASE d # c
        BY <2>1, <3>2, <4>2 DEF Remembered, Tells, ReplyTypeOK
      <4>3. QED
        BY <4>1, <4>2
    <3>3. QED
      BY <3>1, <3>2 DEF Remembered
  <2>5. Earned'
    <3>1. EntriesMeanAnswers'
      BY <1>1, <2>1, <2>2 DEF Earned, EntriesMeanAnswers, ReplyTypeOK
    <3>2. ASSUME NEW d \in Consumers
          PROVE  /\ step'[d] \in {"claimed", "failed"} /\ before'[d] < Forever =>
                       last'[peer'[d]] <= before'[d]
                 /\ step'[d] \in {"sent", "lost"} => last'[peer'[d]] = 0
                 /\ step'[d] \in Holding => replied'[peer'[d]] = 0
                 /\ step'[d] # "idle" => window'[d] \in Cooldowns
      <4>1. CASE d = c
        BY <1>1, <2>1, <4>1 DEF Earned, EntriesMeanAnswers, ReplyTypeOK, Holding
      <4>2. CASE d # c
        BY <1>1, <2>1, <4>2 DEF Earned, ReplyTypeOK, Holding
      <4>3. QED
        BY <4>1, <4>2
    <3>3. QED
      BY <3>1, <3>2 DEF Earned
  <2>6. QED
    BY <2>3, <2>4, <2>5
<1>3. CASE Leave(c) /\ UNCHANGED replied
  <2>1. UNCHANGED <<replied, last, disturbed>>
    BY <1>3 DEF Claim
  <2>2. \A d \in Consumers : step'[d] # "idle" =>
            /\ step[d] = step'[d] /\ peer'[d] = peer[d] /\ window'[d] = window[d]
            /\ before'[d] = before[d]
    BY <1>3 DEF Leave, ReplyTypeOK
  <2>3. \A q \in Persons : Locked(q)' <=> Locked(q)
    BY <1>1, <1>3 DEF Leave, ReplyTypeOK, Locked, Holding
  <2>4. OneHolder'
    BY <2>1, <2>2 DEF OneHolder, Holding
  <2>5. Remembered'
    BY <2>1, <2>2, <2>3 DEF Remembered, Tells
  <2>6. Earned'
    BY <2>1, <2>2, <2>3 DEF Earned, EntriesMeanAnswers, Holding
  <2>7. QED
    BY <2>4, <2>5, <2>6
<1>4. QED
  BY <1>2, <1>3 DEF Claim

\* Only the holder of a person's entry answers that person.
LEMMA SendTextInv ==
  ASSUME Log, NEW c \in Consumers, SendText(c)
  PROVE  OneHolder' /\ Remembered' /\ Earned'
<1> USE DEF Log
<1>1. PICK answer \in {"sent", "failed", "lost"} :
         /\ step' = [step EXCEPT ![c] = answer]
         /\ last' = IF answer = "failed" THEN last ELSE [last EXCEPT ![peer[c]] = 0]
  BY DEF SendText
<1>2. /\ UNCHANGED <<replied, peer, window, before, disturbed>>
      /\ step[c] = "claimed" /\ peer[c] \in Persons
  BY DEF SendText, ReplyTypeOK
<1>3. \A q \in Persons : Locked(q)' <=> Locked(q)
  BY <1>1, <1>2 DEF Locked, Holding, ReplyTypeOK
<1>4. \A q \in Persons : ~Locked(q) => last'[q] = last[q]
  BY <1>1, <1>2 DEF Locked, Holding, ReplyTypeOK
<1>5. \A d \in Consumers : step[d] \in Holding /\ d # c => last'[peer[d]] = last[peer[d]]
  BY <1>1, <1>2 DEF OneHolder, Holding, ReplyTypeOK
<1>6. \A d \in Consumers : d # c => step'[d] = step[d]
  BY <1>1 DEF ReplyTypeOK
<1>7. OneHolder'
  BY <1>1, <1>2 DEF OneHolder, Holding, ReplyTypeOK
<1>8. Remembered'
  <2>1. ASSUME NEW q \in Persons, q \notin disturbed', ~Locked(q)'
        PROVE  Tells(replied[q], q)'
    BY <1>2, <1>3, <1>4, <2>1 DEF Remembered, Tells
  <2>2. ASSUME NEW d \in Consumers, step'[d] \in {"claimed", "failed"},
               peer'[d] \notin disturbed'
        PROVE  Tells(before[d], peer[d])'
    <3>1. CASE d = c
      BY <1>1, <1>2, <2>2, <3>1 DEF Remembered, Tells, ReplyTypeOK
    <3>2. CASE d # c
      BY <1>2, <1>5, <1>6, <2>2, <3>2 DEF Remembered, Tells, Holding
    <3>3. QED
      BY <3>1, <3>2
  <2>3. QED
    BY <2>1, <2>2 DEF Remembered
<1>9. Earned'
  <2>1. EntriesMeanAnswers'
    BY <1>2, <1>3, <1>4 DEF Earned, EntriesMeanAnswers
  <2>2. ASSUME NEW d \in Consumers
        PROVE  /\ step'[d] \in {"claimed", "failed"} /\ before'[d] < Forever =>
                     last'[peer'[d]] <= before'[d]
               /\ step'[d] \in {"sent", "lost"} => last'[peer'[d]] = 0
               /\ step'[d] \in Holding => replied'[peer'[d]] = 0
               /\ step'[d] # "idle" => window'[d] \in Cooldowns
    <3>1. CASE d = c
      BY <1>1, <1>2, <3>1 DEF Earned, ReplyTypeOK, Holding
    <3>2. CASE d # c
      BY <1>2, <1>5, <1>6, <3>2 DEF Earned, Holding
    <3>3. QED
      BY <3>1, <3>2
  <2>3. QED
    BY <2>1, <2>2 DEF Earned
<1>10. QED
  BY <1>7, <1>8, <1>9

\* The transaction ends with its entry kept for an answer, or given back.
LEMMA FinishInv ==
  ASSUME Log, NEW c \in Consumers, Finish(c)
  PROVE  OneHolder' /\ Remembered' /\ Earned'
<1> USE DEF Log
<1>1. /\ Leave(c) /\ step[c] \in Holding /\ last' = last /\ peer[c] \in Persons
      /\ last \in [Persons -> Ages] /\ replied \in [Persons -> Ages]
  BY DEF Finish, ReplyTypeOK, Holding
<1>2. \A d \in Consumers : step'[d] # "idle" =>
          /\ step[d] = step'[d] /\ peer'[d] = peer[d] /\ window'[d] = window[d]
          /\ before'[d] = before[d] /\ d # c
  BY <1>1 DEF Leave, ReplyTypeOK
<1>3. \A q \in Persons : Locked(q)' <=> Locked(q) /\ q # peer[c]
  <2>1. \A d \in Consumers : step'[d] \in Holding <=> step[d] \in Holding /\ d # c
    BY <1>1 DEF Leave, ReplyTypeOK, Holding
  <2>2. QED
    BY <1>1, <1>2, <2>1 DEF Locked, OneHolder, Holding
<1>4. \A d \in Consumers : step'[d] \in Holding => peer[d] # peer[c]
  BY <1>1, <1>2 DEF OneHolder, Holding
<1>5. OneHolder'
  BY <1>2 DEF OneHolder, Holding
<1>6. CASE step[c] = "sent" /\ disturbed' = disturbed \ {peer[c]} /\ UNCHANGED replied
  <2>1. replied[peer[c]] = 0 /\ last[peer[c]] = 0
    BY <1>1, <1>6 DEF Earned
  <2>2. Remembered'
    <3>1. ASSUME NEW q \in Persons, q \notin disturbed', ~Locked(q)'
          PROVE  Tells(replied[q], q)'
      BY <1>1, <1>3, <1>6, <2>1, <3>1 DEF Remembered, Tells
    <3>2. ASSUME NEW d \in Consumers, step'[d] \in {"claimed", "failed"},
                 peer'[d] \notin disturbed'
          PROVE  Tells(before[d], peer[d])'
      BY <1>1, <1>2, <1>4, <1>6, <3>2 DEF Remembered, Tells, Holding
    <3>3. QED
      BY <3>1, <3>2 DEF Remembered
  <2>3. EntriesMeanAnswers'
    BY <1>1, <1>3, <1>6, <2>1 DEF Earned, EntriesMeanAnswers
  <2>4. Earned'
    BY <1>1, <1>2, <1>6, <2>3 DEF Earned, Holding
  <2>5. QED
    BY <1>5, <2>2, <2>4
<1>7. CASE step[c] \in {"failed", "lost"} /\ GiveBack(c)
  <2>1. /\ replied' = [replied EXCEPT ![peer[c]] = Forever]
        /\ disturbed' = IF step[c] = "lost" \/ before[c] < Forever
                        THEN disturbed \union {peer[c]} ELSE disturbed
    BY <1>7 DEF GiveBack
  <2>2. replied'[peer[c]] = Forever /\ \A q \in Persons \ {peer[c]} : replied'[q] = replied[q]
    BY <1>1, <2>1
  <2>3. before[c] \in Ages
    BY DEF ReplyTypeOK
  <2>4. peer[c] \notin disturbed' => Tells(Forever, peer[c])
    BY <1>7, <2>1, <2>3 DEF Remembered, Ages, Tells
  <2>5. Remembered'
    <3>1. ASSUME NEW q \in Persons, q \notin disturbed', ~Locked(q)'
          PROVE  Tells(replied[q], q)'
      <4>1. CASE q = peer[c]
        BY <1>1, <2>2, <2>4, <3>1, <4>1 DEF Tells
      <4>2. CASE q # peer[c]
        BY <1>1, <1>3, <2>1, <2>2, <3>1, <4>2 DEF Remembered, Tells
      <4>3. QED
        BY <4>1, <4>2
    <3>2. ASSUME NEW d \in Consumers, step'[d] \in {"claimed", "failed"},
                 peer'[d] \notin disturbed'
          PROVE  Tells(before[d], peer[d])'
      BY <1>1, <1>2, <2>1, <3>2 DEF Remembered, Tells
    <3>3. QED
      BY <3>1, <3>2 DEF Remembered
  <2>6. EntriesMeanAnswers'
    BY <1>1, <1>3, <2>2 DEF Earned, EntriesMeanAnswers
  <2>7. \A d \in Consumers : step'[d] \in Holding => replied'[peer'[d]] = 0
    <3>1. \A d \in Consumers : step'[d] \in Holding => peer[d] \in Persons
      BY <1>2 DEF ReplyTypeOK, Holding
    <3>2. QED
      BY <1>2, <1>4, <2>2, <3>1 DEF Earned, Holding
  <2>8. Earned'
    BY <1>1, <1>2, <2>6, <2>7 DEF Earned
  <2>9. QED
    BY <1>5, <2>5, <2>8
<1>8. QED
  BY <1>6, <1>7 DEF Finish

\* Rolling back brings each entry's former age back, which told as much.
LEMMA RollBackInv ==
  ASSUME Log, NEW dead \in SUBSET Consumers, RollBack(dead)
  PROVE  OneHolder' /\ Remembered' /\ Earned'
<1> USE DEF Log
<1> DEFINE Fallen(q) == \E c \in dead : step[c] \in Holding /\ peer[c] = q
<1>1. \A d \in Consumers : IF d \in dead THEN step'[d] = "idle"
                           ELSE /\ step'[d] = step[d] /\ peer'[d] = peer[d]
                                /\ window'[d] = window[d] /\ before'[d] = before[d]
  BY DEF RollBack
<1>2. disturbed \subseteq disturbed' /\ last' = last
  BY DEF RollBack
<1>3. \A c \in dead : step[c] \in {"sent", "lost"} => peer[c] \in disturbed'
  BY DEF RollBack
<1>4. \A q \in Persons : ~Fallen(q) => replied'[q] = replied[q] /\ (Locked(q)' <=> Locked(q))
  <2>1. \A q \in Persons : ~Fallen(q) => replied'[q] = replied[q]
    BY DEF RollBack
  <2>2. \A q \in Persons : ~Fallen(q) => (Locked(q)' <=> Locked(q))
    BY <1>1 DEF Locked, Holding
  <2>3. QED
    BY <2>1, <2>2
<1>5. ASSUME NEW q \in Persons, NEW c \in dead, step[c] \in Holding, peer[c] = q
      PROVE  /\ replied'[q] = before[c]
             /\ \A d \in Consumers : step'[d] \in Holding => peer'[d] # q
             /\ ~Locked(q)'
  <2>1. (CHOOSE d \in dead : step[d] \in Holding /\ peer[d] = q) = c
    BY <1>5 DEF OneHolder
  <2>2. replied'[q] = before[c]
    BY <1>5, <2>1 DEF RollBack
  <2>3. \A d \in Consumers : step'[d] \in Holding => peer'[d] # q
    BY <1>1, <1>5 DEF OneHolder, Holding
  <2>4. QED
    BY <2>2, <2>3 DEF Locked
<1>6. OneHolder'
  BY <1>1 DEF OneHolder, Holding
<1>7. Remembered'
  <2>1. ASSUME NEW q \in Persons, q \notin disturbed', ~Locked(q)'
        PROVE  Tells(replied[q], q)'
    <3>1. CASE ~Fallen(q)
      BY <1>2, <1>4, <2>1, <3>1 DEF Remembered, Tells
    <3>2. CASE Fallen(q)
      <4>1. PICK c \in dead : step[c] \in Holding /\ peer[c] = q
        BY <3>2
      <4>2. step[c] \in {"claimed", "failed"}
        BY <1>3, <2>1, <4>1 DEF Holding
      <4>3. Tells(before[c], q)
        BY <1>2, <2>1, <4>1, <4>2 DEF Remembered
      <4>4. QED
        BY <1>2, <1>5, <4>1, <4>3 DEF Tells
    <3>3. QED
      BY <3>1, <3>2
  <2>2. ASSUME NEW d \in Consumers, step'[d] \in {"claimed", "failed"},
               peer'[d] \notin disturbed'
        PROVE  Tells(before[d], peer[d])'
    BY <1>1, <1>2, <2>2 DEF Remembered, Tells
  <2>3. QED
    BY <2>1, <2>2 DEF Remembered
<1>8. Earned'
  <2>1. ASSUME NEW q \in Persons, ~Locked(q)', replied'[q] < Forever
        PROVE  last'[q] <= replied'[q]
    <3>1. CASE ~Fallen(q)
      BY <1>2, <1>4, <2>1, <3>1 DEF Earned, EntriesMeanAnswers
    <3>2. CASE Fallen(q)
      <4>1. PICK c \in dead : step[c] \in Holding /\ peer[c] = q
        BY <3>2
      <4>2. before[c] \in Ages /\ replied'[q] = before[c]
        BY <1>5, <4>1 DEF ReplyTypeOK
      <4>3. last[q] <= before[c]
        BY <2>1, <4>1, <4>2 DEF Earned, Holding, Ages
      <4>4. QED
        BY <1>2, <4>2, <4>3
    <3>3. QED
      BY <3>1, <3>2
  <2>2. \A d \in Consumers : step'[d] \in Holding => replied'[peer'[d]] = 0
    <3>1. ASSUME NEW d \in Consumers, step'[d] \in Holding
          PROVE  replied'[peer'[d]] = 0
      <4>1. peer[d] \in Persons /\ step[d] \in Holding /\ peer'[d] = peer[d]
        BY <1>1, <3>1 DEF ReplyTypeOK, Holding
      <4>2. ~Fallen(peer[d])
        BY <1>5, <3>1, <4>1
      <4>3. QED
        BY <1>4, <4>1, <4>2 DEF Earned
    <3>2. QED
      BY <3>1
  <2>3. QED
    BY <1>1, <1>2, <2>1, <2>2 DEF Earned, EntriesMeanAnswers
<1>9. QED
  BY <1>6, <1>7, <1>8

\* Ages grow together; a purged entry's answer is as old as the log is kept.
LEMMA TickPurgeInv ==
  ASSUME Log, Tick \/ Purge
  PROVE  OneHolder' /\ Remembered' /\ Earned'
<1> USE DEF Log
<1>1. Quiet /\ UNCHANGED <<step, peer, window, before, disturbed>>
  BY DEF Tick, Purge, replying
<1>2. \A c \in Consumers : step[c] \notin Holding
  BY <1>1 DEF Quiet, Locked, ReplyTypeOK, Holding
<1>3. \A q \in Persons : ~Locked(q) /\ ~Locked(q)'
  BY <1>1, <1>2 DEF Locked
<1>4. OneHolder'
  BY <1>1 DEF OneHolder
<1>5. \A q \in Persons : last[q] \in Ages /\ replied[q] \in Ages
  BY DEF ReplyTypeOK
<1>6. CASE Tick
  <2>1. \A q \in Persons : /\ replied'[q] = Older(replied)[q] /\ last'[q] = Older(last)[q]
    BY <1>6 DEF Tick
  <2>2. \A q \in Persons \ disturbed : Tells(replied[q], q)'
    BY <1>3, <1>5, <2>1 DEF Remembered, Tells, Older, Ages
  <2>3. Remembered'
    BY <1>1, <1>2, <2>2 DEF Remembered, Holding
  <2>4. \A q \in Persons : replied'[q] < Forever => last'[q] <= replied'[q]
    BY <1>3, <1>5, <2>1 DEF Earned, EntriesMeanAnswers, Older, Ages
  <2>5. Earned'
    BY <1>1, <1>2, <2>4 DEF Earned, EntriesMeanAnswers, Holding
  <2>6. QED
    BY <1>4, <2>3, <2>5
<1>7. CASE Purge
  <2>1. last' = last
    BY <1>7 DEF Purge
  <2>2. \A q \in Persons : replied'[q] = IF Purgeable(q) THEN Forever ELSE replied[q]
    BY <1>7 DEF Purge
  <2>3. \A q \in Persons \ disturbed : Tells(replied[q], q)'
    BY <1>3, <1>5, <2>1, <2>2 DEF Remembered, Tells, Purgeable, Ages
  <2>4. Remembered'
    BY <1>1, <1>2, <2>3 DEF Remembered, Holding
  <2>5. \A q \in Persons : replied'[q] < Forever => last'[q] <= replied'[q]
    BY <1>3, <1>5, <2>1, <2>2 DEF Earned, EntriesMeanAnswers
  <2>6. Earned'
    BY <1>1, <1>2, <2>5 DEF Earned, EntriesMeanAnswers, Holding
  <2>7. QED
    BY <1>4, <2>4, <2>6
<1>8. QED
  BY <1>6, <1>7

LEMMA LogStep == ASSUME Log, [ReplyNext]_replyVars PROVE Log'
<1> USE DEF Log
<1>1. CASE ReplySettings \/ UNCHANGED replyVars
  <2>1. UNCHANGED <<replied, step, peer, window, before, last, disturbed>>
    BY <1>1 DEF ReplySettings, Switch, SetCooldown, replyVars, replying
  <2>2. ReplyTypeOK'
    <3>1. CASE ReplySettings
      BY <3>1, OthersType
    <3>2. CASE UNCHANGED replyVars
      BY <3>2 DEF replyVars, settings, replying, ReplyTypeOK
    <3>3. QED
      BY <1>1, <3>1, <3>2
  <2>3. OneHolder' /\ Remembered' /\ Earned'
    BY <2>1 DEF OneHolder, Remembered, Earned, EntriesMeanAnswers, Tells, Locked
  <2>4. QED
    BY <2>2, <2>3
<1>2. CASE Tick \/ Purge
  BY <1>2, OthersType, TickPurgeInv
<1>3. ASSUME NEW dead \in SUBSET Consumers, RollBack(dead) PROVE Log'
  BY <1>3, RollBackType, RollBackInv
<1>4. ASSUME NEW c \in Consumers, NEW p \in Persons, Hear(c, p) PROVE Log'
  BY <1>4, ConsumerType, HearInv
<1>5. ASSUME NEW c \in Consumers, ReplyStep(c) PROVE Log'
  <2>1. ReplyTypeOK'
    BY <1>5, ConsumerType
  <2>2. OneHolder' /\ Remembered' /\ Earned'
    BY <1>5, ClaimInv, SendTextInv, FinishInv DEF ReplyStep
  <2>3. QED
    BY <2>1, <2>2
<1>6. QED
  BY <1>1, <1>2, <1>3, <1>4, <1>5 DEF ReplyNext

-----------------------------------------------------------------------------
(* The cooldown *)

\* Whoever claims an entry read a cooldown that the entry says has passed.
LEMMA WindowStep ==
  ASSUME Log, OneAnswerPerWindow, [ReplyNext]_replyVars
  PROVE  OneAnswerPerWindow'
<1> USE DEF Log
<1> SUFFICES ASSUME NEW d \in Consumers, step'[d] = "claimed", peer'[d] \notin disturbed'
             PROVE  last'[peer'[d]] >= window'[d] \/ last'[peer'[d]] >= Retention
  BY DEF OneAnswerPerWindow
<1> DEFINE Unmoved == /\ step[d] = "claimed" /\ peer'[d] = peer[d] /\ window'[d] = window[d]
                   /\ last'[peer[d]] = last[peer[d]] /\ peer[d] \notin disturbed
<1>1. Unmoved => last'[peer'[d]] >= window'[d] \/ last'[peer'[d]] >= Retention
  BY DEF OneAnswerPerWindow
<1>2. CASE ReplySettings \/ UNCHANGED replyVars
  <2>1. Unmoved
    BY <1>2 DEF ReplySettings, Switch, SetCooldown, replyVars, replying
  <2>2. QED
    BY <1>1, <2>1
<1>3. CASE Tick \/ Purge
  <2>1. step[d] = "claimed" /\ peer[d] \in Persons /\ Quiet
    BY <1>3 DEF Tick, Purge, replying, ReplyTypeOK
  <2>2. QED
    BY <2>1 DEF Quiet, Locked, Holding
<1>4. ASSUME NEW dead \in SUBSET Consumers, RollBack(dead) PROVE Unmoved
  BY <1>4 DEF RollBack
<1>5. ASSUME NEW c \in Consumers, NEW p \in Persons, Hear(c, p) PROVE Unmoved
  BY <1>5 DEF Hear, ReplyTypeOK
<1>6. ASSUME NEW c \in Consumers, Claim(c)
      PROVE  last'[peer'[d]] >= window'[d] \/ last'[peer'[d]] >= Retention
  <2>1. CASE d = c /\ Granted(c)
    <3>1. /\ peer[c] \in Persons /\ ~Locked(peer[c]) /\ replied[peer[c]] >= window[c]
          /\ UNCHANGED <<peer, window, last, disturbed>>
      BY <1>6, <2>1 DEF Claim, Granted, ReplyTypeOK
    <3>2. Tells(replied[peer[c]], peer[c])
      BY <2>1, <3>1 DEF Remembered
    <3>3. QED
      BY <2>1, <3>1, <3>2 DEF Tells
  <2>2. CASE ~(d = c /\ Granted(c))
    <3>1. Unmoved
      BY <1>6, <2>2 DEF Claim, Granted, Leave, ReplyTypeOK
    <3>2. QED
      BY <1>1, <3>1
  <2>3. QED
    BY <2>1, <2>2
<1>7. ASSUME NEW c \in Consumers, SendText(c) PROVE Unmoved
  <2>1. /\ step[d] = "claimed" /\ d # c /\ step[c] = "claimed"
        /\ UNCHANGED <<peer, window, disturbed>>
    BY <1>7 DEF SendText, ReplyTypeOK
  <2>2. peer[d] # peer[c] /\ peer[d] \in Persons
    BY <2>1 DEF OneHolder, Holding, ReplyTypeOK
  <2>3. QED
    BY <1>7, <2>1, <2>2 DEF SendText, ReplyTypeOK
<1>8. ASSUME NEW c \in Consumers, Finish(c) PROVE Unmoved
  <2>1. /\ step[d] = "claimed" /\ d # c /\ step[c] \in Holding
        /\ peer'[d] = peer[d] /\ window'[d] = window[d]
    BY <1>8 DEF Finish, Leave, ReplyTypeOK, Holding
  <2>2. peer[d] # peer[c]
    BY <2>1 DEF OneHolder, Holding
  <2>3. QED
    BY <1>8, <2>1, <2>2 DEF Finish, GiveBack
<1>9. QED
  BY <1>1, <1>2, <1>3, <1>4, <1>5, <1>6, <1>7, <1>8 DEF ReplyNext, ReplyStep

-----------------------------------------------------------------------------
(* The theorems *)

LEMMA LogAlways == ReplySpec => []Log
<1>1. ReplyInit => Log
  BY ReplyInitInv DEF ReplyIInv, Log
<1>2. Log /\ [ReplyNext]_replyVars => Log'
  BY LogStep
<1>3. QED
  BY <1>1, <1>2, PTL DEF ReplySpec

\* Every variable of the automatic replies keeps its type.
THEOREM RepliesTypeCorrect == ReplySpec => []ReplyTypeOK
<1>1. Log => ReplyTypeOK
  BY DEF Log
<1>2. QED
  BY <1>1, LogAlways, PTL

\* An entry of the log is never younger than an answer that reached its person:
\* a failed send costs nobody a cooldown.
THEOREM EntriesAreEarned == ReplySpec => []EntriesMeanAnswers
<1>1. Log => EntriesMeanAnswers
  BY DEF Log, Earned
<1>2. QED
  BY <1>1, LogAlways, PTL

\* A person is answered once per cooldown, or once per time the log is kept if the
\* customer chose a longer cooldown, however many listeners overlap, fail or die.
THEOREM AnswersKeepTheWindow == ReplySpec => []OneAnswerPerWindow
<1>1. ReplyInit => OneAnswerPerWindow
  BY ReplyInitInv DEF ReplyIInv
<1>2. Log /\ OneAnswerPerWindow /\ [ReplyNext]_replyVars => OneAnswerPerWindow'
  BY WindowStep
<1>3. QED
  BY <1>1, <1>2, LogAlways, PTL DEF ReplySpec

-----------------------------------------------------------------------------
(* The composition *)

USE ConsumersAssumption, FromAssumption DEF ConsumersAssumption, FromAssumption

LEMMA StepReads == ASSUME [IntakeNext]_intakeVars PROVE [Next]_listenVars
<1>1. ASSUME NEW r \in Runs,
             Consume(r) \/ Reply(r) \/ ReplyFails(r) \/ Forward(r) \/ ForwardFails(r)
      PROVE  ConsumerStep(r) \/ UNCHANGED listenVars
  BY <1>1 DEF Consume, Reply, ReplyFails, Forward, ForwardFails, ConsumerStep
<1>2. ASSUME NEW p \in Processes, ProcessEnds(p) PROVE Exit(p) \/ Crash(p)
  BY <1>2 DEF ProcessEnds
<1>3. ASSUME ListenerAlone PROVE Next
  BY <1>3 DEF ListenerAlone, Next
<1>4. ASSUME RepliesAlone PROVE UNCHANGED listenVars
  BY <1>4 DEF RepliesAlone
<1>5. ASSUME UNCHANGED intakeVars PROVE UNCHANGED listenVars
  BY <1>5 DEF intakeVars
<1>6. QED
  BY <1>1, <1>2, <1>3, <1>4, <1>5 DEF IntakeNext, Next

LEMMA StepAnswers == ASSUME [IntakeNext]_intakeVars PROVE [ReplyNext]_replyVars
<1>1. ASSUME NEW r \in Runs, Consume(r) PROVE ReplyNext \/ UNCHANGED replyVars
  BY <1>1 DEF Consume, ReplyNext
<1>2. ASSUME NEW r \in Runs, Reply(r) \/ ReplyFails(r) \/ Forward(r) \/ ForwardFails(r)
      PROVE  ReplyNext \/ UNCHANGED replyVars
  <2>1. {r} \in SUBSET Consumers
    OBVIOUS
  <2>2. QED
    BY <1>2, <2>1 DEF Reply, ReplyFails, Forward, ForwardFails, ReplyNext
<1>3. ASSUME NEW p \in Processes, ProcessEnds(p) PROVE ReplyNext
  <2>1. {r \in Runs : host[r] = p} \in SUBSET Consumers
    OBVIOUS
  <2>2. QED
    BY <1>3, <2>1 DEF ProcessEnds, ReplyNext
<1>4. ASSUME RepliesAlone PROVE ReplyNext
  BY <1>4 DEF RepliesAlone, ReplyNext
<1>5. ASSUME ListenerAlone \/ UNCHANGED intakeVars PROVE UNCHANGED replyVars
  BY <1>5 DEF ListenerAlone, intakeVars
<1>6. QED
  BY <1>1, <1>2, <1>3, <1>4, <1>5 DEF IntakeNext

\* Whoever reads updates and answers people as Intake does reads them as Listener
\* says and answers as AutoReply says.
THEOREM IntakeImplementsParts == IntakeSpec => Spec /\ ReplySpec
<1>1. IntakeInit => Init /\ ReplyInit
  BY DEF IntakeInit
<1>2. QED
  BY <1>1, StepReads, StepAnswers, PTL DEF IntakeSpec, Spec, ReplySpec

\* The reply in the consumer's way neither lets a second reader in nor loses an
\* update; the listener's crashes and restarts cost nobody an answer and answer
\* nobody twice in a window.
THEOREM IntakeKeepsPromises ==
  IntakeSpec => [](OneReader /\ NothingForgotten /\ EntriesMeanAnswers /\ OneAnswerPerWindow)
  BY IntakeImplementsParts, OneReaderAtATime, NoUpdateForgotten, EntriesAreEarned,
     AnswersKeepTheWindow, PTL
=============================================================================
