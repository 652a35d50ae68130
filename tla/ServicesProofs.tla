--------------------------- MODULE ServicesProofs ---------------------------
(***************************************************************************)
(* What holds of who is let in, of the archive and of the HTTP API's       *)
(* requests, for any number of people, groups, sessions and keys and of    *)
(* updates and requests at a time; and of all the services beside each     *)
(* other.                                                                  *)
(***************************************************************************)
EXTENDS MCServices, ControlTasksProofs, OutboundProofs, ConnectionsProofs, TLAPS

-----------------------------------------------------------------------------
(***************************************************************************)
(* Access: asking to be let in, deciding, suspending.                      *)
(***************************************************************************)

USE AccessAssumption DEF AccessAssumption

\* Where an update is past the gate.
Inside == {"throttle", "insert", "handler", "read"}
\* What an operator may ask for.
Asked == Decisions \cup UserActions
\* What an update carries.
UpdateRecords ==
    [at : {"free", "asks", "alert", "tell"} \cup Inside, from : People \cup {Nobody},
     action : {"none", "use"} \cup Asked, whom : People \cup {Nobody},
     saw : AccountStatus \cup AccessRequestStatus]

\* What an update carries at each stage: who acts, about whom, and what was read.
UpdatesFit ==
    /\ update \in [Updates -> UpdateRecords]
    /\ \A u \in Updates :
          /\ update[u].at \notin {"free", "tell"} => update[u].from \in People
          /\ update[u].action \in Asked \/ update[u].at = "tell" => update[u].whom \in People
          /\ update[u].at = "read" =>
                 /\ update[u].action \in Asked /\ Allowed(u)
                 /\ update[u].action \in UserActions => user[update[u].whom] # "none"

\* Whoever is past the gate was let in.
GatePassed ==
    \A u \in Updates :
        update[u].at \in Inside /\ MustAsk(update[u].from) /\ update[u].from \notin rivals
            => request[update[u].from] = "approved"

\* The operators are asked by the update that made the request, and by no other.
OneAsks ==
    /\ \A p \in People : request[p] = "none" => alerted[p] = 0
    /\ \A u \in Updates : update[u].at = "alert" =>
           request[update[u].from] # "none" /\ alerted[update[u].from] = 0
    /\ \A u, v \in Updates :
           update[u].at = "alert" /\ update[v].at = "alert" /\ update[u].from = update[v].from
               => u = v

\* An approval that is about to be told stands.
ToldStands ==
    \A u \in Updates : update[u].at = "tell" /\ update[u].whom \notin rivals
                           => request[update[u].whom] = "approved"

\* The parts of AccessTypeOK.
AccountRowsFit ==
    /\ user \in [People -> AccountStatus]
    /\ request \in [People -> AccessRequestStatus]
    /\ alerted \in [People -> Nat]
    /\ {working, promised, rivals, past} \subseteq SUBSET People
\* An update that is handled carries something.
FreeIsNone == \A u \in Updates : update[u].at = "free" <=> update[u] = NoUpdate
\* Whoever has an account was let in, where one must ask.
AccountsLetIn ==
    \A p \in People \ rivals : user[p] # "none" /\ MustAsk(p) => request[p] = "approved"
\* Who is suspended is not at work, but past the gate.
StopsStand == \A p \in working \ past : user[p] # "suspended"

\* The inductive invariant.
AccessInv ==
    /\ AccountRowsFit /\ FreeIsNone /\ AccountsLetIn /\ StopsStand
    /\ UpdatesFit /\ GatePassed /\ OneAsks /\ ToldStands
    /\ OperatorRemains /\ AskedAndAnsweredOnce

LEMMA ArrivesKeeps ==
  ASSUME AccessInv, NEW u \in Updates, NEW p \in People, NEW a \in {"use"} \cup Asked,
         NEW q \in People \cup {Nobody}, a \in Asked => q \in People, Arrives(u, p, a, q)
  PROVE  AccessInv'
<1> USE DEF AccessInv, AccountRowsFit, UpdatesFit, UpdateRecords, Inside, Asked, Decisions, UserActions,
           Goes, Drops, NoUpdate, AccountStatus, AccessRequestStatus
<1>1. AccountRowsFit' /\ FreeIsNone' /\ UpdatesFit'
  BY DEF Arrives, Allowed, Acts, FreeIsNone
<1>2. AccountsLetIn' /\ StopsStand' /\ GatePassed'
  BY DEF Arrives, MustAsk, Acts, AccountsLetIn, StopsStand, GatePassed
<1>3. OneAsks' /\ ToldStands'
  BY DEF Arrives, OneAsks, ToldStands
<1>4. OperatorRemains' /\ AskedAndAnsweredOnce'
  BY DEF Arrives, Acts, OperatorRemains, AskedAndAnsweredOnce
<1>5. QED
  BY <1>1, <1>2, <1>3, <1>4

LEMMA AskToEnterKeeps ==
  ASSUME AccessInv, NEW u \in Updates, AskToEnter(u)
  PROVE  AccessInv'
<1> USE DEF AccessInv, AccountRowsFit, UpdatesFit, UpdateRecords, Inside, Asked, Decisions, UserActions,
           Goes, Drops, NoUpdate, AccountStatus, AccessRequestStatus
<1>1. AccountRowsFit' /\ FreeIsNone' /\ UpdatesFit'
  BY SMTT(40) DEF AskToEnter, Allowed, Acts, Recorded, IsNew, FreeIsNone
<1>2. AccountsLetIn' /\ StopsStand' /\ GatePassed'
  BY SMTT(40) DEF AskToEnter, MustAsk, Acts, Recorded, IsNew, AccountsLetIn, StopsStand, GatePassed
<1>3. OneAsks' /\ ToldStands'
  <2>1. CASE request' = request /\ update'[u].at # "alert"
    BY <2>1, SMTT(40) DEF AskToEnter, OneAsks, ToldStands
  <2>2. CASE /\ request[update[u].from] = "none"
             /\ request' = [request EXCEPT ![update[u].from] = "pending"]
             /\ Goes(u, "alert", "none")
    <3>1. \A v \in Updates \ {u} : update[v].at = "alert" => update[v].from # update[u].from
      BY <2>2 DEF OneAsks
    <3>2. QED
      BY <2>2, <3>1 DEF AskToEnter, OneAsks, ToldStands
  <2>3. QED
    BY <2>1, <2>2 DEF AskToEnter, Recorded, IsNew
<1>4. OperatorRemains' /\ AskedAndAnsweredOnce'
  BY DEF AskToEnter, Acts, Recorded, IsNew, OperatorRemains, AskedAndAnsweredOnce
<1>5. QED
  BY <1>1, <1>2, <1>3, <1>4

LEMMA NotifyOperatorsKeeps ==
  ASSUME AccessInv, NEW u \in Updates, NotifyOperators(u)
  PROVE  AccessInv'
<1> USE DEF AccessInv, AccountRowsFit, UpdatesFit, UpdateRecords, Inside, Asked, Decisions, UserActions,
           Goes, Drops, NoUpdate, AccountStatus, AccessRequestStatus
<1>1. AccountRowsFit' /\ FreeIsNone' /\ UpdatesFit'
  BY DEF NotifyOperators, Allowed, Acts, FreeIsNone
<1>2. AccountsLetIn' /\ StopsStand' /\ GatePassed'
  BY DEF NotifyOperators, MustAsk, Acts, AccountsLetIn, StopsStand, GatePassed
<1>3. OneAsks' /\ ToldStands'
  BY DEF NotifyOperators, OneAsks, ToldStands
<1>4. OperatorRemains' /\ AskedAndAnsweredOnce'
  BY DEF NotifyOperators, OneAsks, OperatorRemains, AskedAndAnsweredOnce
<1>5. QED
  BY <1>1, <1>2, <1>3, <1>4

LEMMA PassThrottleKeeps ==
  ASSUME AccessInv, NEW u \in Updates, PassThrottle(u)
  PROVE  AccessInv'
<1> USE DEF AccessInv, AccountRowsFit, UpdatesFit, UpdateRecords, Inside, Asked, Decisions, UserActions,
           Goes, Drops, NoUpdate, AccountStatus, AccessRequestStatus
<1>1. AccountRowsFit' /\ FreeIsNone' /\ UpdatesFit'
  BY SMTT(40) DEF PassThrottle, Allowed, Acts, FreeIsNone
<1>2. AccountsLetIn' /\ StopsStand' /\ GatePassed'
  BY DEF PassThrottle, MustAsk, Acts, AccountsLetIn, StopsStand, GatePassed
<1>3. OneAsks' /\ ToldStands'
  BY SMTT(40) DEF PassThrottle, OneAsks, ToldStands
<1>4. OperatorRemains' /\ AskedAndAnsweredOnce'
  BY DEF PassThrottle, Acts, OperatorRemains, AskedAndAnsweredOnce
<1>5. QED
  BY <1>1, <1>2, <1>3, <1>4

LEMMA InsertUserKeeps ==
  ASSUME AccessInv, NEW u \in Updates, InsertUser(u)
  PROVE  AccessInv'
<1> USE DEF AccessInv, AccountRowsFit, UpdatesFit, UpdateRecords, Inside, Asked, Decisions, UserActions,
           Goes, Drops, NoUpdate, AccountStatus, AccessRequestStatus
<1>1. AccountRowsFit' /\ FreeIsNone' /\ UpdatesFit'
  BY SMTT(40) DEF InsertUser, Allowed, Acts, FreeIsNone
<1>2. AccountsLetIn' /\ StopsStand' /\ GatePassed'
  BY DEF InsertUser, MustAsk, Acts, AccountsLetIn, StopsStand, GatePassed
<1>3. OneAsks' /\ ToldStands'
  BY SMTT(40) DEF InsertUser, OneAsks, ToldStands
<1>4. OperatorRemains' /\ AskedAndAnsweredOnce'
  BY DEF InsertUser, Acts, OperatorRemains, AskedAndAnsweredOnce
<1>5. QED
  BY <1>1, <1>2, <1>3, <1>4

LEMMA StartsWorkKeeps ==
  ASSUME AccessInv, NEW u \in Updates, StartsWork(u)
  PROVE  AccessInv'
<1> USE DEF AccessInv, AccountRowsFit, UpdatesFit, UpdateRecords, Inside, Asked, Decisions, UserActions,
           Goes, Drops, NoUpdate, AccountStatus, AccessRequestStatus
<1>1. AccountRowsFit' /\ FreeIsNone' /\ UpdatesFit'
  BY DEF StartsWork, Allowed, Acts, FreeIsNone
<1>2. AccountsLetIn' /\ StopsStand' /\ GatePassed'
  BY DEF StartsWork, MustAsk, Acts, AccountsLetIn, StopsStand, GatePassed
<1>3. OneAsks' /\ ToldStands'
  BY SMTT(40) DEF StartsWork, OneAsks, ToldStands
<1>4. OperatorRemains' /\ AskedAndAnsweredOnce'
  BY DEF StartsWork, Acts, OperatorRemains, AskedAndAnsweredOnce
<1>5. QED
  BY <1>1, <1>2, <1>3, <1>4

LEMMA ReadsRowKeeps ==
  ASSUME AccessInv, NEW u \in Updates, ReadsRow(u)
  PROVE  AccessInv'
<1> USE DEF AccessInv, AccountRowsFit, UpdatesFit, UpdateRecords, Inside, Asked, Decisions, UserActions,
           Goes, Drops, NoUpdate, AccountStatus, AccessRequestStatus
<1>1. AccountRowsFit' /\ FreeIsNone' /\ UpdatesFit'
  BY SMTT(40) DEF ReadsRow, Allowed, Acts, FreeIsNone
<1>2. AccountsLetIn' /\ StopsStand' /\ GatePassed'
  BY DEF ReadsRow, MustAsk, Acts, AccountsLetIn, StopsStand, GatePassed
<1>3. OneAsks' /\ ToldStands'
  BY SMTT(40) DEF ReadsRow, OneAsks, ToldStands
<1>4. OperatorRemains' /\ AskedAndAnsweredOnce'
  BY DEF ReadsRow, Acts, OperatorRemains, AskedAndAnsweredOnce
<1>5. QED
  BY <1>1, <1>2, <1>3, <1>4

LEMMA AccessDecisionKeeps ==
  ASSUME AccessInv, NEW u \in Updates, AccessDecision(u)
  PROVE  AccessInv'
<1> USE DEF AccessInv, AccountRowsFit, UpdatesFit, UpdateRecords, Inside, Asked, Decisions, UserActions,
           NoUpdate, AccountStatus, AccessRequestStatus
<1> DEFINE q == update[u].whom
<1>1. q \in People /\ update[u].from \in Operators
  BY DEF AccessDecision, Allowed
<1>2. CASE ~Decides(update[u].saw)
  <2>1. Drops(u) /\ UNCHANGED <<user, request, working, alerted, promised, rivals, past>>
    BY <1>2 DEF AccessDecision
  <2>2. AccountRowsFit' /\ FreeIsNone' /\ UpdatesFit' /\ AccountsLetIn' /\ StopsStand' /\ GatePassed'
    BY <2>1 DEF Drops, Allowed, FreeIsNone, MustAsk, AccountsLetIn, StopsStand, GatePassed
  <2>3. OneAsks' /\ ToldStands' /\ OperatorRemains' /\ AskedAndAnsweredOnce'
    BY <2>1 DEF Drops, OneAsks, ToldStands, OperatorRemains, AskedAndAnsweredOnce
  <2>4. QED
    BY <2>2, <2>3
<1>3. CASE Decides(update[u].saw)
  <2>1. /\ request' = [request EXCEPT ![q] = Outcome(update[u].action)]
        /\ rivals' = IF request[q] # "pending" THEN rivals \cup {q} ELSE rivals
        /\ past' = IF user[update[u].from] = "suspended"
                   THEN past \cup {update[u].from} ELSE past
        /\ UNCHANGED <<user, working, alerted, promised>>
    BY <1>3 DEF AccessDecision, Decides, Acts
  <2>2. Outcome(update[u].action) \in {"approved", "denied"}
    BY DEF Outcome
  <2>3. \A p \in People \ rivals' : request[p] = "approved" => request'[p] = "approved"
    BY <1>1, <2>1
  <2>4. \E r \in {NoUpdate, [NoUpdate EXCEPT !.at = "tell", !.whom = q]} :
            /\ update' = [update EXCEPT ![u] = r]
            /\ r.at = "tell" => request'[q] = "approved"
    BY <1>1, <1>3, <2>1 DEF AccessDecision, Drops, Outcome
  <2>5. PICK r \in {NoUpdate, [NoUpdate EXCEPT !.at = "tell", !.whom = q]} :
            /\ update' = [update EXCEPT ![u] = r]
            /\ r.at = "tell" => request'[q] = "approved"
    BY <2>4
  <2>6. /\ r \in UpdateRecords /\ r.at \in {"free", "tell"} /\ r.action = "none"
        /\ r.at = "free" <=> r = NoUpdate
        /\ r.at = "tell" => r.whom = q
    <3>1. CASE r = NoUpdate
      BY <3>1
    <3>2. CASE r = [at |-> "tell", from |-> Nobody, action |-> "none", whom |-> q, saw |-> "none"]
      BY <1>1, <3>2
    <3>3. QED
      BY <3>1, <3>2
  <2>7. update'[u] = r /\ \A v \in Updates \ {u} : update'[v] = update[v]
    BY <2>5
  <2>8. AccountRowsFit' /\ FreeIsNone' /\ UpdatesFit'
    BY <1>1, <2>1, <2>2, <2>5, <2>6, <2>7 DEF FreeIsNone, Allowed
  <2>9. AccountsLetIn' /\ StopsStand' /\ GatePassed'
    BY <2>1, <2>3, <2>6, <2>7 DEF MustAsk, AccountsLetIn, StopsStand, GatePassed
  <2>10. OneAsks' /\ ToldStands'
    BY <1>1, <2>1, <2>2, <2>3, <2>5, <2>6, <2>7 DEF OneAsks, ToldStands
  <2>11. OperatorRemains' /\ AskedAndAnsweredOnce'
    BY <2>1, <2>3 DEF OperatorRemains, AskedAndAnsweredOnce
  <2>12. QED
    BY <2>8, <2>9, <2>10, <2>11
<1>4. QED
  BY <1>2, <1>3

LEMMA TellApprovedKeeps ==
  ASSUME AccessInv, NEW u \in Updates, TellApproved(u)
  PROVE  AccessInv'
<1> USE DEF AccessInv, AccountRowsFit, UpdatesFit, UpdateRecords, Inside, Asked, Decisions, UserActions,
           Goes, Drops, NoUpdate, AccountStatus, AccessRequestStatus
<1>1. AccountRowsFit' /\ FreeIsNone' /\ UpdatesFit'
  BY DEF TellApproved, Allowed, Acts, FreeIsNone
<1>2. AccountsLetIn' /\ StopsStand' /\ GatePassed'
  BY DEF TellApproved, MustAsk, Acts, AccountsLetIn, StopsStand, GatePassed
<1>3. OneAsks' /\ ToldStands'
  BY DEF TellApproved, OneAsks, ToldStands
<1>4. OperatorRemains' /\ AskedAndAnsweredOnce'
  BY DEF TellApproved, ToldStands, OperatorRemains, AskedAndAnsweredOnce
<1>5. QED
  BY <1>1, <1>2, <1>3, <1>4

LEMMA SuspendUserKeeps ==
  ASSUME AccessInv, NEW u \in Updates, SuspendUser(u)
  PROVE  AccessInv'
<1> USE DEF AccessInv, AccountRowsFit, UpdatesFit, UpdateRecords, Inside, Asked, Decisions, UserActions,
           Goes, Drops, NoUpdate, AccountStatus, AccessRequestStatus
<1>1. AccountRowsFit' /\ FreeIsNone' /\ UpdatesFit'
  BY SMTT(40) DEF SuspendUser, Acts, Stopped, Allowed, FreeIsNone
<1>2. AccountsLetIn' /\ StopsStand' /\ GatePassed'
  BY SMTT(40) DEF SuspendUser, MustAsk, Acts, Stopped, Allowed, AccountsLetIn, StopsStand, GatePassed
<1>3. OneAsks' /\ ToldStands'
  BY DEF SuspendUser, Stopped, Allowed, OneAsks, ToldStands
<1>4. OperatorRemains' /\ AskedAndAnsweredOnce'
  BY DEF SuspendUser, Acts, Stopped, Allowed, OperatorRemains, AskedAndAnsweredOnce
<1>5. QED
  BY <1>1, <1>2, <1>3, <1>4

LEMMA ReinstateUserKeeps ==
  ASSUME AccessInv, NEW u \in Updates, ReinstateUser(u)
  PROVE  AccessInv'
<1> USE DEF AccessInv, AccountRowsFit, UpdatesFit, UpdateRecords, Inside, Asked, Decisions, UserActions,
           Goes, Drops, NoUpdate, AccountStatus, AccessRequestStatus
<1>1. AccountRowsFit' /\ FreeIsNone' /\ UpdatesFit'
  BY DEF ReinstateUser, Allowed, Acts, FreeIsNone
<1>2. AccountsLetIn' /\ StopsStand' /\ GatePassed'
  BY DEF ReinstateUser, MustAsk, Acts, AccountsLetIn, StopsStand, GatePassed
<1>3. OneAsks' /\ ToldStands'
  BY DEF ReinstateUser, OneAsks, ToldStands
<1>4. OperatorRemains' /\ AskedAndAnsweredOnce'
  BY DEF ReinstateUser, Acts, OperatorRemains, AskedAndAnsweredOnce
<1>5. QED
  BY <1>1, <1>2, <1>3, <1>4

LEMMA AbandonsKeeps ==
  ASSUME AccessInv, NEW u \in Updates, Abandons(u)
  PROVE  AccessInv'
<1> USE DEF AccessInv, AccountRowsFit, UpdatesFit, UpdateRecords, Inside, Asked, Decisions, UserActions,
           Goes, Drops, NoUpdate, AccountStatus, AccessRequestStatus
<1>1. AccountRowsFit' /\ FreeIsNone' /\ UpdatesFit'
  BY DEF Abandons, Allowed, Acts, FreeIsNone
<1>2. AccountsLetIn' /\ StopsStand' /\ GatePassed'
  BY DEF Abandons, MustAsk, Acts, AccountsLetIn, StopsStand, GatePassed
<1>3. OneAsks' /\ ToldStands'
  BY DEF Abandons, OneAsks, ToldStands
<1>4. OperatorRemains' /\ AskedAndAnsweredOnce'
  BY DEF Abandons, Acts, OperatorRemains, AskedAndAnsweredOnce
<1>5. QED
  BY <1>1, <1>2, <1>3, <1>4

LEMMA AccessInvInit == AccessInit => AccessInv
  BY DEF AccessInit, AccessInv, AccountRowsFit, FreeIsNone, AccountsLetIn, StopsStand, UpdatesFit,
     UpdateRecords, GatePassed, OneAsks, ToldStands, OperatorRemains, AskedAndAnsweredOnce,
     NoUpdate, Inside, Asked, Decisions, UserActions, AccountStatus, AccessRequestStatus

LEMMA AccessInvStep == AccessInv /\ [AccessNext]_accessVars => AccessInv'
<1> SUFFICES ASSUME AccessInv, [AccessNext]_accessVars PROVE AccessInv'
  OBVIOUS
<1>1. ASSUME NEW u \in Updates, UpdateStep(u) PROVE AccessInv'
  BY <1>1, AskToEnterKeeps, NotifyOperatorsKeeps, PassThrottleKeeps, InsertUserKeeps,
     StartsWorkKeeps, ReadsRowKeeps, AccessDecisionKeeps, TellApprovedKeeps, SuspendUserKeeps,
     ReinstateUserKeeps, AbandonsKeeps DEF UpdateStep
<1>2. ASSUME NEW u \in Updates, NEW p \in People, Arrives(u, p, "use", Nobody) PROVE AccessInv'
  BY <1>2, ArrivesKeeps DEF Asked, Decisions, UserActions
<1>3. ASSUME NEW u \in Updates, NEW p \in People, NEW q \in People,
             NEW a \in Decisions \cup UserActions, Arrives(u, p, a, q)
      PROVE  AccessInv'
  BY <1>3, ArrivesKeeps DEF Asked
<1>4. CASE UNCHANGED accessVars
  BY <1>4 DEF accessVars, AccessInv, AccountRowsFit, FreeIsNone, AccountsLetIn, StopsStand, UpdatesFit,
     GatePassed, OneAsks, ToldStands, OperatorRemains, AskedAndAnsweredOnce, Allowed
<1>5. QED
  BY <1>1, <1>2, <1>3, <1>4 DEF AccessNext

\* The inductive invariant holds of every behaviour of Access.
THEOREM AccessHolds == AccessSpec => []AccessInv
  BY AccessInvInit, AccessInvStep, PTL DEF AccessSpec

\* The types of accounts, requests and updates; and nobody has an account, or is at
\* work, whom the gate would have stopped (adminbot/auth.py).
THEOREM AccessTyped == AccessSpec => []AccessTypeOK
<1>1. AccessInv => AccessTypeOK
  BY DEF AccessInv, AccountRowsFit, FreeIsNone, AccountsLetIn, StopsStand, AccessTypeOK
<1>2. QED
  BY <1>1, AccessHolds, PTL

\* Somebody can always administer the bot, unless an operator was suspended while an
\* action of theirs was past the gate (adminbot/auth.py, adminbot/handlers.py user_actions): a
\* chain of suspensions, each by an operator who is active, leaves one.
THEOREM AnOperatorRemains == AccessSpec => []OperatorRemains
<1>1. AccessInv => OperatorRemains
  BY DEF AccessInv
<1>2. QED
  BY <1>1, AccessHolds, PTL

\* However many updates a person sends at once, the operators are asked once; and
\* whoever was told of an approval has it, unless two operators decided at the same
\* time (repositories/access_requests.py record, adminbot/handlers.py access_decision).
THEOREM AccessIsAskedOnce == AccessSpec => []AskedAndAnsweredOnce
<1>1. AccessInv => AskedAndAnsweredOnce
  BY DEF AccessInv
<1>2. QED
  BY <1>1, AccessHolds, PTL

HIDE AccessAssumption DEF AccessAssumption

-----------------------------------------------------------------------------
(***************************************************************************)
(* The archive: the operators' settings, and the rounds that fill it.      *)
(***************************************************************************)

USE ArchiveAssumption DEF ArchiveAssumption

\* Where an archive may be.
Destinations == [place : Places \cup {Unset}, via : Via]

\* The settings.
SettingsTyped ==
    /\ setting \in [Owners -> [to : Destinations, all : BOOLEAN, updated : Nat]]
    /\ archiveAds \in [Senders -> {"on", "off", "default"}]
    /\ decisions \in Nat

\* The round under way.
StoreTyped ==
    /\ store \in [at : {"none", "details", "again", "copy", "index"}, to : Destinations,
                  account : BOOLEAN, left : SUBSET Lookups, group : Lookups \cup {Unset}]
    /\ known \subseteq Lookups
    /\ rounds \in Nat /\ copied \subseteq 1 .. rounds

\* A round under way has a destination and is counted; what is left to be looked
\* up is not known yet, and the group that is tried again is not left.
StoreFits ==
    /\ store.at = "none" <=> store = NoStore
    /\ store # NoStore => store.to # Nowhere /\ rounds >= 1
    /\ store.left \cap known = {}
    /\ store.at = "again" => store.group \in Lookups \ store.left

\* The inductive invariant.
ArchiveInv == SettingsTyped /\ StoreTyped /\ StoreFits

LEMMA ArchiveInvInit == ArchiveInit => ArchiveInv
<1> SUFFICES ASSUME ArchiveInit PROVE ArchiveInv
  OBVIOUS
<1> USE DEF ArchiveInit, Nowhere, NoStore, Destinations, Via
<1>1. SettingsTyped
  BY DEF SettingsTyped
<1>2. StoreTyped
  BY DEF StoreTyped
<1>3. StoreFits
  BY DEF StoreFits
<1>4. QED
  BY <1>1, <1>2, <1>3 DEF ArchiveInv

\* A decision stamps the setting it changes.
LEMMA StampedTyped ==
  ASSUME SettingsTyped, NEW o \in Owners, NEW to \in Destinations,
         Stamped(o, [setting[o] EXCEPT !.to = to])
  PROVE  setting' \in [Owners -> [to : Destinations, all : BOOLEAN, updated : Nat]]
<1>1. CASE setting' = setting
  BY <1>1 DEF SettingsTyped
<1>2. CASE setting' = [setting EXCEPT ![o] = [[setting[o] EXCEPT !.to = to] EXCEPT !.updated = decisions + 1]]
  <2>1. setting[o] \in [to : Destinations, all : BOOLEAN, updated : Nat] /\ decisions + 1 \in Nat
    BY DEF SettingsTyped
  <2> HIDE DEF Destinations
  <2>2. QED
    BY <1>2, <2>1 DEF SettingsTyped
<1>3. QED
  BY <1>1, <1>2 DEF Stamped

\* Whatever an operator decides, the archive of the round under way stands.
LEMMA DecisionsKeep ==
  ASSUME ArchiveInv, Decide,
         \/ \E o \in Owners, place \in Places, via \in Via : ChooseArchive(o, place, via)
         \/ \E o \in Owners : TurnOff(o) \/ WriteOther(o)
         \/ \E p \in Senders : SetArchiveAds(p)
  PROVE  ArchiveInv'
<1> USE DEF ArchiveInv
<1>1. decisions' \in Nat
  BY DEF Decide, SettingsTyped
<1>2. StoreTyped' /\ StoreFits'
  BY DEF Decide, storeVars, StoreTyped, StoreFits
<1>3. CASE \E o \in Owners, place \in Places, via \in Via : ChooseArchive(o, place, via)
  <2>1. PICK o \in Owners, place \in Places, via \in Via : ChooseArchive(o, place, via)
    BY <1>3
  <2>2. [place |-> place, via |-> via] \in Destinations
    BY DEF Destinations
  <2>3. setting' \in [Owners -> [to : Destinations, all : BOOLEAN, updated : Nat]]
    BY <2>1, <2>2, StampedTyped DEF ChooseArchive
  <2>4. QED
    BY <1>1, <1>2, <2>1, <2>3 DEF ChooseArchive, SettingsTyped
<1>4. CASE \E o \in Owners : TurnOff(o)
  <2>1. PICK o \in Owners : TurnOff(o)
    BY <1>4
  <2>2. Nowhere \in Destinations
    BY DEF Nowhere, Destinations, Via
  <2>3. setting' \in [Owners -> [to : Destinations, all : BOOLEAN, updated : Nat]]
    BY <2>1, <2>2, StampedTyped DEF TurnOff
  <2>4. QED
    BY <1>1, <1>2, <2>1, <2>3 DEF TurnOff, SettingsTyped
<1>5. CASE \E o \in Owners : WriteOther(o)
  <2>1. SettingsTyped'
    BY <1>1, <1>5 DEF WriteOther, SettingsTyped
  <2>2. QED
    BY <1>2, <2>1
<1>6. CASE \E p \in Senders : SetArchiveAds(p)
  <2>1. SettingsTyped'
    BY <1>1, <1>6 DEF SetArchiveAds, SettingsTyped
  <2>2. QED
    BY <1>2, <2>1
<1>7. QED
  BY <1>3, <1>4, <1>5, <1>6

\* What is settled for a sender is a destination.
LEMMA DestinationTyped ==
  ASSUME SettingsTyped, NEW p \in Senders
  PROVE  DestinationFor(p) \in Destinations
<1>1. CASE \E o \in AnyOperatorSetting : IsArchived(p, setting[o])
  <2>1. (CHOOSE o \in AnyOperatorSetting : TRUE) \in Owners
    BY <1>1 DEF AnyOperatorSetting, Chosen
  <2>2. QED
    BY <1>1, <2>1 DEF DestinationFor, SettingsTyped
<1>2. CASE ~ \E o \in AnyOperatorSetting : IsArchived(p, setting[o])
  BY <1>2 DEF DestinationFor, Nowhere, Destinations, Via
<1>3. QED
  BY <1>1, <1>2

LEMMA StoreRoundKeeps ==
  ASSUME ArchiveInv, NEW p \in Senders, StoreRound(p)
  PROVE  ArchiveInv'
<1> USE DEF ArchiveInv
<1>1. PICK full \in BOOLEAN, reached \in SUBSET Lookups :
        store' = [at |-> "details", to |-> DestinationFor(p), account |-> full,
                  left |-> IF full THEN reached \ known ELSE {}, group |-> Unset]
  BY DEF StoreRound
<1>2. /\ rounds' = rounds + 1 /\ DestinationFor(p) # Nowhere
      /\ UNCHANGED <<setting, archiveAds, decisions, known, copied>>
  BY DEF StoreRound, settingVars
<1>3. SettingsTyped'
  BY <1>2 DEF SettingsTyped
<1>4. DestinationFor(p) \in Destinations
  BY DestinationTyped
<1>5. StoreTyped'
  BY <1>1, <1>2, <1>4 DEF StoreTyped
<1>6. /\ store'.at = "details" /\ store' # NoStore
      /\ store'.to # Nowhere /\ store'.left \cap known' = {}
  BY <1>1, <1>2 DEF NoStore
<1>7. StoreFits'
  <2>1. rounds' >= 1
    BY <1>2 DEF StoreTyped
  <2>2. QED
    BY <1>6, <2>1 DEF StoreFits
<1>8. QED
  BY <1>3, <1>5, <1>7

LEMMA LookUpKeeps ==
  ASSUME ArchiveInv, NEW g \in Lookups, LookUp(g)
  PROVE  ArchiveInv'
<1> USE DEF ArchiveInv
<1>1. /\ store.at = "details" /\ g \in store.left
      /\ UNCHANGED <<setting, archiveAds, decisions, copied, rounds>>
  BY DEF LookUp, settingVars
<1>2. SettingsTyped'
  BY <1>1 DEF SettingsTyped
<1> DEFINE left == store.left \ {g}
<1>3. store # NoStore /\ store.to # Nowhere /\ rounds >= 1
  BY <1>1 DEF StoreFits, NoStore
<1>4. CASE /\ known' = known \cup {g} \/ known' = known
           /\ store' = [store EXCEPT !.left = left]
  <2>1. StoreTyped'
    BY <1>1, <1>4 DEF StoreTyped
  <2>2. StoreFits'
    BY <1>1, <1>3, <1>4 DEF StoreFits, StoreTyped, NoStore
  <2>3. QED
    BY <1>2, <2>1, <2>2
<1>5. CASE store' = [store EXCEPT !.at = "again", !.group = g, !.left = left] /\ UNCHANGED known
  <2>1. StoreTyped'
    BY <1>1, <1>5 DEF StoreTyped
  <2>2. StoreFits'
    BY <1>1, <1>3, <1>5 DEF StoreFits, StoreTyped, NoStore
  <2>3. QED
    BY <1>2, <2>1, <2>2
<1>6. CASE store' = [store EXCEPT !.left = {}] /\ UNCHANGED known
  <2>1. StoreTyped'
    BY <1>1, <1>6 DEF StoreTyped
  <2>2. StoreFits'
    BY <1>1, <1>3, <1>6 DEF StoreFits, StoreTyped, NoStore
  <2>3. QED
    BY <1>2, <2>1, <2>2
<1>7. QED
  BY <1>4, <1>5, <1>6 DEF LookUp

LEMMA LookUpAgainKeeps ==
  ASSUME ArchiveInv, LookUpAgain
  PROVE  ArchiveInv'
<1> USE DEF ArchiveInv
<1>1. /\ store.at = "again" /\ store' = [store EXCEPT !.at = "details", !.group = Unset]
      /\ UNCHANGED <<setting, archiveAds, decisions, copied, rounds>>
      /\ known' = known \cup {store.group} \/ known' = known
  BY DEF LookUpAgain, settingVars
<1>2. SettingsTyped'
  BY <1>1 DEF SettingsTyped
<1>3. store # NoStore /\ store.to # Nowhere /\ rounds >= 1
      /\ store.group \in Lookups \ store.left
  BY <1>1 DEF StoreFits, NoStore
<1>4. StoreTyped'
  BY <1>1, <1>3 DEF StoreTyped
<1>5. StoreFits'
  BY <1>1, <1>3 DEF StoreFits, StoreTyped, NoStore
<1>6. QED
  BY <1>2, <1>4, <1>5

LEMMA FinishRoundKeeps ==
  ASSUME ArchiveInv, EndDetails \/ SendCopy \/ SendIndex
  PROVE  ArchiveInv'
<1> USE DEF ArchiveInv
<1>1. UNCHANGED <<setting, archiveAds, decisions, known, rounds>>
  BY DEF EndDetails, SendCopy, SendIndex, settingVars
<1>2. SettingsTyped'
  BY <1>1 DEF SettingsTyped
<1>3. CASE EndDetails
  <2>1. StoreTyped'
    BY <1>1, <1>3 DEF StoreTyped, EndDetails
  <2>2. StoreFits'
    BY <1>1, <1>3 DEF StoreFits, StoreTyped, NoStore, EndDetails
  <2>3. QED
    BY <1>2, <2>1, <2>2
<1>4. CASE SendCopy
  <2>1. rounds \in 1 .. rounds
    BY <1>4 DEF SendCopy, StoreFits, StoreTyped, NoStore
  <2>2. StoreTyped'
    BY <1>1, <1>4, <2>1 DEF StoreTyped, SendCopy
  <2>3. StoreFits'
    BY <1>1, <1>4 DEF StoreFits, StoreTyped, NoStore, SendCopy
  <2>4. QED
    BY <1>2, <2>2, <2>3
<1>5. CASE SendIndex
  <2>1. StoreTyped'
    BY <1>1, <1>5 DEF StoreTyped, SendIndex, NoStore, Nowhere, Destinations, Via
  <2>2. StoreFits'
    BY <1>1, <1>5 DEF StoreFits, StoreTyped, NoStore, SendIndex
  <2>3. QED
    BY <1>2, <2>1, <2>2
<1>6. QED
  BY <1>3, <1>4, <1>5

LEMMA ArchiveInvStep == ArchiveInv /\ [ArchiveNext]_archiveVars => ArchiveInv'
<1> SUFFICES ASSUME ArchiveInv, [ArchiveNext]_archiveVars PROVE ArchiveInv'
  OBVIOUS
<1>1. CASE \E o \in Owners : \/ \E place \in Places, via \in Via : ChooseArchive(o, place, via)
                             \/ TurnOff(o) \/ WriteOther(o)
  BY <1>1, DecisionsKeep DEF ChooseArchive, TurnOff, WriteOther
<1>2. CASE \E p \in Senders : SetArchiveAds(p)
  BY <1>2, DecisionsKeep DEF SetArchiveAds
<1>3. CASE \E p \in Senders : StoreRound(p)
  BY <1>3, StoreRoundKeeps
<1>4. CASE \E g \in Lookups : LookUp(g)
  BY <1>4, LookUpKeeps
<1>5. CASE LookUpAgain
  BY <1>5, LookUpAgainKeeps
<1>6. CASE EndDetails \/ SendCopy \/ SendIndex
  BY <1>6, FinishRoundKeeps
<1>7. CASE UNCHANGED archiveVars
  BY <1>7 DEF archiveVars, settingVars, storeVars, ArchiveInv, SettingsTyped, StoreTyped,
              StoreFits
<1>8. QED
  BY <1>1, <1>2, <1>3, <1>4, <1>5, <1>6, <1>7 DEF ArchiveNext

\* The inductive invariant holds of every behaviour of Archive.
THEOREM ArchiveHolds == ArchiveSpec => []ArchiveInv
<1>1. QED
  BY ArchiveInvInit, ArchiveInvStep, PTL DEF ArchiveSpec

LEMMA ArchiveInvTypes == ArchiveInv => ArchiveTypeOK
  BY DEF ArchiveInv, SettingsTyped, StoreTyped, StoreFits, Destinations, ArchiveTypeOK

\* The types of settings and rounds; what is left to look up is not known yet
\* (services/archive.py).
THEOREM ArchiveTyped == ArchiveSpec => []ArchiveTypeOK
<1>1. QED
  BY ArchiveInvTypes, ArchiveHolds, PTL

HIDE ArchiveAssumption DEF ArchiveAssumption

-----------------------------------------------------------------------------
(***************************************************************************)
(* The requests of the HTTP API: sessions and idempotency keys.            *)
(***************************************************************************)

USE ApiAssumption DEF ApiAssumption

\* What a request under way is.
RequestRecords ==
    [at : {"free", "cookie", "key", "insert", "do", "told"},
     cookie : Sessions \cup {NoCookie}, key : CommandKeys \cup {NoHeader},
     body : Bodies \cup {NoBody}, owns : BOOLEAN,
     writes : {"nothing", "effect"}, late : BOOLEAN]

\* Sessions, key rows and requests.
RequestsTyped ==
    /\ session \in [Sessions -> [row : BOOLEAN, revoked : BOOLEAN, over : BOOLEAN]]
    /\ keyRow \in [CommandKeys -> [state : {"none", "in_progress", "completed"},
                                   hash : Bodies \cup {NoBody}]]
    /\ effects \in [CommandKeys -> Nat]
    /\ req \in [Requests -> RequestRecords]

\* A request that holds the insertion of its key met no row; one that goes on
\* without it met the row of a synchronization of the same hash.
RequestFits(r) ==
    /\ req[r].at = "free" => req[r] = NoReq
    /\ req[r].at # "free" =>
          req[r].cookie \in Sessions /\ req[r].key \in CommandKeys /\ req[r].body \in Bodies
    /\ req[r].late => /\ req[r].at \in {"free", "cookie"}
                      /\ req[r].at = "cookie" => session[req[r].cookie].revoked
    /\ req[r].owns => req[r].at \in {"do", "told"} /\ keyRow[req[r].key] = NoRow
    /\ req[r].at \in {"do", "told"} /\ ~req[r].owns =>
          /\ keyRow[req[r].key].state # "none"
          /\ keyRow[req[r].key].hash = req[r].body /\ req[r].body \in SyncBodies
    /\ req[r].at = "told" /\ req[r].body \notin SyncBodies => req[r].writes = "effect"

\* The unique constraint: one request inserts a key at a time.
OneInserts ==
    \A q, r \in Requests : req[q].owns /\ req[r].owns /\ q # r => req[q].key # req[r].key

\* No row, no effect; a row that is not a synchronization's has its response, and
\* was carried out once.
KeysFit ==
    \A k \in CommandKeys :
        /\ keyRow[k].state = "none" => keyRow[k] = NoRow /\ effects[k] = 0
        /\ keyRow[k].hash \notin SyncBodies => keyRow[k].state # "in_progress" /\ effects[k] <= 1

\* The inductive invariant.
ApiInv == RequestsTyped /\ (\A r \in Requests : RequestFits(r)) /\ OneInserts /\ KeysFit

LEMMA ApiInvInit == ApiInit => ApiInv
<1> SUFFICES ASSUME ApiInit PROVE ApiInv
  OBVIOUS
<1> USE DEF ApiInit, NoReq, NoRow
<1>1. RequestsTyped
  BY DEF RequestsTyped, RequestRecords
<1>2. (\A r \in Requests : RequestFits(r)) /\ OneInserts
  BY DEF RequestFits, OneInserts
<1>3. KeysFit
  BY DEF KeysFit
<1>4. QED
  BY <1>1, <1>2, <1>3 DEF ApiInv

\* A revoked session stays so, whatever else is written to it.
LEMMA SessionsKeep ==
  ASSUME ApiInv, UNCHANGED <<keyRow, req, effects>>,
         session' \in [Sessions -> [row : BOOLEAN, revoked : BOOLEAN, over : BOOLEAN]],
         \A s \in Sessions : session[s].revoked => session'[s].revoked
  PROVE  ApiInv'
<1> USE DEF ApiInv
<1>1. RequestsTyped' /\ OneInserts' /\ KeysFit'
  BY DEF RequestsTyped, RequestRecords, OneInserts, KeysFit
<1>2. \A r \in Requests : RequestFits(r)'
  BY DEF RequestFits
<1>3. QED
  BY <1>1, <1>2

\* A step of one request, that commits nothing, leaves the others as they are.
LEMMA OneRequestKeeps ==
  ASSUME ApiInv, UNCHANGED <<session, keyRow, effects>>,
         NEW r \in Requests, NEW x, req' = [req EXCEPT ![r] = x],
         x \in RequestRecords,
         RequestFits(r)',
         x.owns => \A q \in Requests \ {r} : req[q].owns => req[q].key # x.key
  PROVE  ApiInv'
<1> USE DEF ApiInv
<1>1. RequestsTyped'
  BY DEF RequestsTyped, RequestRecords
<1>2. req'[r] = x /\ \A q \in Requests \ {r} : req'[q] = req[q]
  BY DEF RequestsTyped, RequestRecords
<1>3. \A q \in Requests \ {r} : RequestFits(q)'
  BY <1>2 DEF RequestFits
<1>4. OneInserts'
  BY <1>2 DEF OneInserts
<1>5. KeysFit'
  BY DEF KeysFit
<1>6. QED
  BY <1>1, <1>3, <1>4, <1>5

LEMMA FinishesKeeps ==
  ASSUME ApiInv, UNCHANGED <<session, keyRow, effects>>, NEW r \in Requests, Finishes(r)
  PROVE  ApiInv'
<1>1. NoReq \in RequestRecords /\ NoReq.owns = FALSE
  BY DEF NoReq, RequestRecords
<1>2. req'[r] = NoReq
  BY DEF Finishes, ApiInv, RequestsTyped, RequestRecords
<1>3. RequestFits(r)'
  BY <1>2 DEF RequestFits, NoReq
<1>4. QED
  BY <1>1, <1>3, OneRequestKeeps DEF Finishes

LEMMA ReceiveKeeps ==
  ASSUME ApiInv, NEW r \in Requests, NEW s \in Sessions, NEW k \in CommandKeys, NEW b \in Bodies,
         Receive(r, s, k, b)
  PROVE  ApiInv'
<1> DEFINE x == [NoReq EXCEPT !.at = "cookie", !.cookie = s, !.key = k, !.body = b,
                              !.late = session[s].revoked]
<1>1. req' = [req EXCEPT ![r] = x] /\ UNCHANGED <<session, keyRow, effects>>
  BY DEF Receive
<1>2. session[s].revoked \in BOOLEAN
  BY DEF ApiInv, RequestsTyped, RequestRecords
<1>3. /\ x.at = "cookie" /\ x.cookie = s /\ x.key = k /\ x.body = b /\ x.owns = FALSE
      /\ x.late = session[s].revoked
  BY DEF NoReq
<1>4. req'[r] = x
  BY <1>1 DEF ApiInv, RequestsTyped, RequestRecords
<1>5. x \in RequestRecords
  BY <1>2 DEF NoReq, RequestRecords
<1> HIDE DEF x
<1>6. RequestFits(r)'
  BY <1>1, <1>3, <1>4 DEF RequestFits
<1>7. QED
  BY <1>1, <1>3, <1>5, <1>6, OneRequestKeeps

\* A request that goes on, and whose place fits it there.
LEMMA ProceedsKeeps ==
  ASSUME ApiInv, UNCHANGED <<session, keyRow, effects>>, NEW r \in Requests,
         NEW at \in {"key", "insert", "do"}, Proceeds(r, at),
         req[r].at \in {"cookie", "key"}, ~req[r].late,
         at = "do" => /\ keyRow[req[r].key].state # "none"
                      /\ keyRow[req[r].key].hash = req[r].body /\ req[r].body \in SyncBodies
  PROVE  ApiInv'
<1> DEFINE x == [req[r] EXCEPT !.at = at]
<1>1. req' = [req EXCEPT ![r] = x]
  BY DEF Proceeds
<1>2. req'[r] = x
  BY <1>1 DEF ApiInv, RequestsTyped, RequestRecords
<1>3. /\ x.at = at /\ x.cookie = req[r].cookie /\ x.key = req[r].key /\ x.body = req[r].body
      /\ x.owns = req[r].owns /\ x.writes = req[r].writes /\ x.late = req[r].late
  BY DEF ApiInv, RequestsTyped, RequestRecords
<1>4. x \in RequestRecords
  BY SMTT(40) DEF ApiInv, RequestsTyped, RequestRecords
<1>5. req[r].owns = FALSE /\ RequestFits(r)
  BY DEF ApiInv, RequestFits, RequestsTyped, RequestRecords
<1> HIDE DEF x
<1>6. RequestFits(r)'
  BY <1>2, <1>3, <1>5 DEF RequestFits
<1>7. QED
  BY <1>1, <1>3, <1>4, <1>5, <1>6, OneRequestKeeps

LEMMA CurrentUserKeeps ==
  ASSUME ApiInv, NEW r \in Requests, CurrentUser(r)
  PROVE  ApiInv'
<1>1. UNCHANGED <<session, keyRow, effects>> /\ req[r].at = "cookie"
  BY DEF CurrentUser, Rest
<1>2. CASE SessionHolds(req[r].cookie) /\ Proceeds(r, "key")
  <2>1. ~req[r].late
    BY <1>1, <1>2 DEF SessionHolds, ApiInv, RequestFits
  <2>2. QED
    BY <1>1, <1>2, <2>1, ProceedsKeeps
<1>3. CASE Finishes(r)
  BY <1>1, <1>3, FinishesKeeps
<1>4. QED
  BY <1>2, <1>3 DEF CurrentUser

LEMMA IdempotentKeeps ==
  ASSUME ApiInv, NEW r \in Requests, Idempotent(r)
  PROVE  ApiInv'
<1>1. UNCHANGED <<session, keyRow, effects>> /\ req[r].at = "key"
  BY DEF Idempotent, Rest
<1>2. ~req[r].late /\ req[r].key \in CommandKeys
  BY <1>1 DEF ApiInv, RequestFits
<1>3. CASE Proceeds(r, "insert")
  BY <1>1, <1>2, <1>3, ProceedsKeeps
<1>4. CASE Finishes(r)
  BY <1>1, <1>4, FinishesKeeps
<1>5. CASE /\ Proceeds(r, "do") /\ keyRow[req[r].key].state \notin {"none", "completed"}
           /\ keyRow[req[r].key].hash = req[r].body
  <2>1. keyRow[req[r].key].state = "in_progress"
    BY <1>2, <1>5 DEF ApiInv, RequestsTyped, RequestRecords
  <2>2. req[r].body \in SyncBodies
    BY <1>2, <1>5, <2>1 DEF ApiInv, KeysFit
  <2>3. QED
    BY <1>1, <1>2, <1>5, <2>2, ProceedsKeeps
<1>6. QED
  BY <1>3, <1>4, <1>5 DEF Idempotent, ReadsKeyRow

LEMMA InsertKeyKeeps ==
  ASSUME ApiInv, NEW r \in Requests, InsertKey(r)
  PROVE  ApiInv'
<1>1. UNCHANGED <<session, keyRow, effects>> /\ req[r].at = "insert"
  BY DEF InsertKey, Rest
<1>2. CASE Finishes(r)
  BY <1>1, <1>2, FinishesKeeps
<1>3. CASE /\ keyRow[req[r].key].state = "none" /\ ~Inserting(req[r].key)
           /\ req' = [req EXCEPT ![r].at = "do", ![r].owns = TRUE]
  <2> DEFINE x == [req[r] EXCEPT !.at = "do", !.owns = TRUE]
  <2>1. req' = [req EXCEPT ![r] = x]
    BY <1>3 DEF ApiInv, RequestsTyped, RequestRecords
  <2>2. req'[r] = x
    BY <2>1 DEF ApiInv, RequestsTyped, RequestRecords
  <2>3. /\ x.at = "do" /\ x.cookie = req[r].cookie /\ x.key = req[r].key
        /\ x.body = req[r].body /\ x.owns = TRUE /\ x.late = req[r].late
    BY DEF ApiInv, RequestsTyped, RequestRecords
  <2>4. x \in RequestRecords
    BY ZenonT(60) DEF ApiInv, RequestsTyped, RequestRecords
  <2>5. RequestFits(r) /\ keyRow[req[r].key] = NoRow
    BY <1>1, <1>3 DEF ApiInv, RequestFits, KeysFit
  <2> HIDE DEF x
  <2>6. RequestFits(r)'
    BY <1>1, <2>2, <2>3, <2>5 DEF RequestFits
  <2>7. \A q \in Requests \ {r} : req[q].owns => req[q].key # x.key
    BY <1>3, <2>3 DEF Inserting
  <2>8. QED
    BY <1>1, <2>1, <2>4, <2>6, <2>7, OneRequestKeeps
<1>4. QED
  BY <1>2, <1>3 DEF InsertKey

LEMMA ExecuteKeeps ==
  ASSUME ApiInv, NEW r \in Requests, Execute(r)
  PROVE  ApiInv'
<1> DEFINE w == IF req[r].body \in SyncBodies /\ syncing THEN "nothing" ELSE "effect"
           x == [req[r] EXCEPT !.at = "told", !.writes = w]
<1>1. UNCHANGED <<session, keyRow, effects>> /\ req[r].at = "do"
  BY DEF Execute, Rest
<1>2. req' = [req EXCEPT ![r] = x]
  BY DEF Execute, ApiInv, RequestsTyped, RequestRecords
<1>3. w \in {"nothing", "effect"} /\ (req[r].body \notin SyncBodies => w = "effect")
  OBVIOUS
<1> HIDE DEF w
<1>4. /\ x.at = "told" /\ x.cookie = req[r].cookie /\ x.key = req[r].key
      /\ x.body = req[r].body /\ x.owns = req[r].owns /\ x.late = req[r].late /\ x.writes = w
  BY DEF ApiInv, RequestsTyped, RequestRecords
<1>5. x \in RequestRecords
  BY <1>3, ZenonT(60) DEF ApiInv, RequestsTyped, RequestRecords
<1>6. req'[r] = x
  BY <1>2 DEF ApiInv, RequestsTyped, RequestRecords
<1> HIDE DEF x
<1>7. RequestFits(r)'
  BY <1>1, <1>3, <1>4, <1>6 DEF ApiInv, RequestFits
<1>8. x.owns => \A q \in Requests \ {r} : req[q].owns => req[q].key # x.key
  BY <1>4 DEF ApiInv, OneInserts
<1>9. QED
  BY <1>1, <1>2, <1>5, <1>7, <1>8, OneRequestKeeps

\* A command that commits writes its key's row: the first one, as the owner of the
\* insertion, or, of synchronizations alone, any.
LEMMA CommitCommandKeeps ==
  ASSUME ApiInv, NEW r \in Requests, Commit(r)
  PROVE  ApiInv'
<1> DEFINE k == req[r].key
           s == req[r].cookie
           stored == StoredResult(r, keyRow[k])
<1> USE DEF ApiInv
<1>1. /\ req[r].at = "told" /\ s \in Sessions /\ k \in CommandKeys /\ req[r].body \in Bodies
      /\ req' = [req EXCEPT ![r] = NoReq]
      /\ session' = [session EXCEPT ![s] = Slid(session[s])]
      /\ keyRow' = [keyRow EXCEPT ![k] = stored]
      /\ effects' = IF req[r].writes = "effect" THEN [effects EXCEPT ![k] = effects[k] + 1] ELSE effects
  BY DEF Commit, Finishes, RequestFits
<1>2. stored \in [state : {"none", "in_progress", "completed"}, hash : Bodies \cup {NoBody}]
  BY <1>1 DEF StoredResult, NotStoredResult, RequestsTyped, RequestRecords
<1>3. session' \in [Sessions -> [row : BOOLEAN, revoked : BOOLEAN, over : BOOLEAN]]
      /\ \A t \in Sessions : session'[t].revoked = session[t].revoked
  <2>1. session[s] \in [row : BOOLEAN, revoked : BOOLEAN, over : BOOLEAN]
    BY <1>1 DEF RequestsTyped, RequestRecords
  <2>2. /\ Slid(session[s]) \in [row : BOOLEAN, revoked : BOOLEAN, over : BOOLEAN]
        /\ Slid(session[s]).revoked = session[s].revoked
    BY <2>1 DEF Slid
  <2>3. QED
    BY <1>1, <2>2 DEF RequestsTyped, RequestRecords
<1>4. NoReq \in RequestRecords
  BY DEF NoReq, RequestRecords
<1> HIDE DEF stored
<1>5. effects' \in [CommandKeys -> Nat] /\ \A j \in CommandKeys \ {k} : effects'[j] = effects[j]
  BY <1>1 DEF RequestsTyped, RequestRecords
<1>6. /\ req'[r] = NoReq /\ \A q \in Requests \ {r} : req'[q] = req[q]
      /\ keyRow'[k] = stored /\ \A j \in CommandKeys \ {k} : keyRow'[j] = keyRow[j]
  BY <1>1 DEF RequestsTyped, RequestRecords
<1>7. RequestsTyped'
  BY <1>1, <1>2, <1>3, <1>4, <1>5 DEF RequestsTyped, RequestRecords
<1>8. OneInserts'
  BY <1>6 DEF OneInserts, NoReq
<1>9. CASE req[r].owns
  <2>1. /\ keyRow[k] = NoRow /\ effects[k] = 0
        /\ req[r].body \notin SyncBodies => req[r].writes = "effect"
    BY <1>1, <1>9 DEF RequestFits, KeysFit, NoRow
  <2>2. /\ stored.hash = req[r].body /\ stored.state # "none"
        /\ req[r].body \notin SyncBodies => stored.state = "completed"
    BY <1>9, <2>1 DEF StoredResult, NotStoredResult, stored
  <2>3. effects'[k] <= 1
    BY <1>1, <2>1 DEF RequestsTyped, RequestRecords
  <2>4. KeysFit'
    BY <1>5, <1>6, <2>2, <2>3 DEF KeysFit
  <2>5. ASSUME NEW q \in Requests \ {r} PROVE RequestFits(q)'
    <3>1. RequestFits(q) /\ req'[q] = req[q]
      BY <1>6
    <3>2. CASE req[q].key # k \/ req[q].at \notin {"do", "told"}
      BY <1>3, <1>6, <3>1, <3>2 DEF RequestFits
    <3>3. CASE req[q].key = k /\ req[q].at \in {"do", "told"}
      <4>1. ~req[q].owns
        BY <1>9, <3>3 DEF OneInserts
      <4>2. QED
        BY <2>1, <3>1, <3>3, <4>1 DEF RequestFits, NoRow
    <3>4. QED
      BY <3>2, <3>3
  <2>6. RequestFits(r)'
    BY <1>6 DEF RequestFits, NoReq
  <2>7. QED
    BY <1>7, <1>8, <2>4, <2>5, <2>6
<1>10. CASE ~req[r].owns
  <2>1. /\ keyRow[k].state # "none" /\ keyRow[k].hash = req[r].body
        /\ req[r].body \in SyncBodies
    BY <1>1, <1>10 DEF RequestFits
  <2>2. stored.hash = req[r].body /\ stored.state # "none"
    BY <1>10, <2>1 DEF StoredResult, NotStoredResult, stored
  <2>3. KeysFit'
    BY <1>5, <1>6, <2>1, <2>2 DEF KeysFit
  <2>4. ASSUME NEW q \in Requests \ {r} PROVE RequestFits(q)'
    <3>1. RequestFits(q) /\ req'[q] = req[q]
      BY <1>6
    <3>2. CASE req[q].key # k \/ req[q].at \notin {"do", "told"}
      BY <1>3, <1>6, <3>1, <3>2 DEF RequestFits
    <3>3. CASE req[q].key = k /\ req[q].at \in {"do", "told"}
      <4>1. ~req[q].owns
        BY <2>1, <3>1, <3>3 DEF RequestFits, NoRow
      <4>2. req[q].body = req[r].body
        BY <2>1, <3>1, <3>3, <4>1 DEF RequestFits
      <4>3. QED
        BY <1>3, <1>6, <2>1, <2>2, <3>1, <3>3, <4>1, <4>2 DEF RequestFits
    <3>4. QED
      BY <3>2, <3>3
  <2>5. RequestFits(r)'
    BY <1>6 DEF RequestFits, NoReq
  <2>6. QED
    BY <1>7, <1>8, <2>3, <2>4, <2>5
<1>11. QED
  BY <1>9, <1>10

LEMMA PurgeKeyKeeps ==
  ASSUME ApiInv, NEW k \in CommandKeys, PurgeKey(k)
  PROVE  ApiInv'
<1> USE DEF ApiInv
<1>1. /\ \A r \in Requests : req[r].key # k
      /\ keyRow' = [keyRow EXCEPT ![k] = NoRow] /\ effects' = [effects EXCEPT ![k] = 0]
      /\ UNCHANGED <<session, req>>
  BY DEF PurgeKey
<1>2. RequestsTyped'
  BY <1>1 DEF RequestsTyped, RequestRecords, NoRow
<1>3. \A j \in CommandKeys \ {k} : keyRow'[j] = keyRow[j]
  BY <1>1 DEF RequestsTyped, RequestRecords
<1>4. \A r \in Requests : RequestFits(r)'
  BY <1>1, <1>3 DEF RequestFits
<1>5. OneInserts' /\ KeysFit'
  BY <1>1 DEF OneInserts, KeysFit, NoRow, RequestsTyped, RequestRecords
<1>6. QED
  BY <1>2, <1>4, <1>5

LEMMA ApiInvStep == ApiInv /\ [ApiNext]_apiVars => ApiInv'
<1> SUFFICES ASSUME ApiInv, [ApiNext]_apiVars PROVE ApiInv'
  OBVIOUS
<1>1. ASSUME NEW s \in Sessions, OpenSession(s) \/ TimeOver(s) PROVE ApiInv'
  <2>1. UNCHANGED <<keyRow, req, effects>>
    BY <1>1 DEF OpenSession, TimeOver
  <2>2. /\ session' \in [Sessions -> [row : BOOLEAN, revoked : BOOLEAN, over : BOOLEAN]]
        /\ \A t \in Sessions : session[t].revoked => session'[t].revoked
    <3>1. CASE session' = [session EXCEPT ![s].row = TRUE]
      BY <3>1, ZenonT(60) DEF ApiInv, RequestsTyped, RequestRecords
    <3>2. CASE session' = [session EXCEPT ![s].over = TRUE]
      BY <3>2, ZenonT(60) DEF ApiInv, RequestsTyped, RequestRecords
    <3>3. QED
      BY <1>1, <3>1, <3>2 DEF OpenSession, TimeOver
  <2>3. QED
    BY <2>1, <2>2, SessionsKeep
<1>2. ASSUME NEW S \in SUBSET Sessions, SignOut(S) PROVE ApiInv'
  <2>1. UNCHANGED <<keyRow, req, effects>>
    BY <1>2 DEF SignOut
  <2>2. /\ session' \in [Sessions -> [row : BOOLEAN, revoked : BOOLEAN, over : BOOLEAN]]
        /\ \A t \in Sessions : session[t].revoked => session'[t].revoked
    <3> DEFINE new(t) == IF t \in S /\ session[t].row
                         THEN [session[t] EXCEPT !.revoked = TRUE] ELSE session[t]
    <3>1. \A t \in Sessions : /\ new(t) \in [row : BOOLEAN, revoked : BOOLEAN, over : BOOLEAN]
                              /\ session[t].revoked => new(t).revoked
      BY ZenonT(60) DEF ApiInv, RequestsTyped, RequestRecords
    <3>2. session' = [t \in Sessions |-> new(t)]
      BY <1>2 DEF SignOut, Revoked
    <3> HIDE DEF new
    <3>3. QED
      BY <3>1, <3>2
  <2>3. QED
    BY <2>1, <2>2, SessionsKeep
<1>3. CASE SwitchAccount \/ Synchronized \/ UNCHANGED apiVars
  <2>1. UNCHANGED <<session, keyRow, req, effects>>
    BY <1>3 DEF SwitchAccount, Synchronized, apiVars
  <2>2. QED
    BY <2>1, SessionsKeep DEF ApiInv, RequestsTyped, RequestRecords
<1>4. ASSUME NEW r \in Requests, RequestStep(r) PROVE ApiInv'
  <2>1. CASE RollsBack(r) \/ CommitFails(r)
    BY <2>1, FinishesKeeps DEF RollsBack, CommitFails, Rest
  <2>2. QED
    BY <1>4, <2>1, CurrentUserKeeps, IdempotentKeeps, InsertKeyKeeps, ExecuteKeeps, CommitCommandKeeps
       DEF RequestStep
<1>5. CASE \E r \in Requests, s \in Sessions, k \in CommandKeys, b \in Bodies : Receive(r, s, k, b)
  BY <1>5, ReceiveKeeps
<1>6. CASE \E k \in CommandKeys : PurgeKey(k)
  BY <1>6, PurgeKeyKeeps
<1>7. \A s \in Sessions : {s} \in SUBSET Sessions
  OBVIOUS
<1>8. QED
  BY <1>1, <1>2, <1>3, <1>4, <1>5, <1>6, <1>7 DEF ApiNext

\* The inductive invariant holds of every behaviour of Api.
THEOREM ApiHolds == ApiSpec => []ApiInv
<1>1. QED
  BY ApiInvInit, ApiInvStep, PTL DEF ApiSpec

LEMMA ApiInvTypes == ApiInv => ApiTypeOK
  BY DEF ApiInv, RequestsTyped, RequestRecords, OneInserts, ApiTypeOK

\* The types of sessions, keys and requests; one request at a time inserts a key
\* (api/deps.py, db/models.py IdempotencyKey).
THEOREM ApiTyped == ApiSpec => []ApiTypeOK
<1>1. QED
  BY ApiInvTypes, ApiHolds, PTL

\* A command is carried out once for its key, however often and at whatever moment it
\* is sent again (api/deps.py idempotent): for any number of requests at a time.
THEOREM ACommandIsKeyedOnce == ApiSpec => []KeyedOnce
<1>1. ApiInv => KeyedOnce
  BY DEF ApiInv, KeysFit, KeyedOnce
<1>2. QED
  BY <1>1, ApiHolds, PTL

\* A request that arrives after its session was revoked is never carried out, whatever
\* other requests of the session write when they commit (api/deps.py current_user).
THEOREM ASignedOutRequestIsOut == ApiSpec => []SignedOutIsOut
<1>1. ApiInv => SignedOutIsOut
  BY DEF ApiInv, RequestFits, SignedOutIsOut
<1>2. QED
  BY <1>1, ApiHolds, PTL

HIDE ApiAssumption DEF ApiAssumption

-----------------------------------------------------------------------------
(* The services beside each other *)

\* Each step is one service's, and leaves the others as they are.
LEMMA StepIsOnes ==
  ASSUME [Step]_allVars
  PROVE  /\ [ConnNext]_connVars /\ [ControlNext]_controlVars /\ [ComposeNext]_composeVars
         /\ [NotifierNext]_notifierVars /\ [AccessNext]_accessVars /\ [ArchiveNext]_archiveVars
         /\ [ApiNext]_apiVars /\ [PacingNext]_pacingVars /\ [AdmissionNext]_admissionVars
<1>1. CASE UNCHANGED allVars
  BY <1>1 DEF allVars
<1>2. CASE Step
  BY <1>2 DEF Step
<1>3. QED
  BY <1>1, <1>2

\* A behaviour of the services is one of each of them.
LEMMA ServicesBehave ==
  Behaviours => /\ ConnSpec /\ ControlSpec /\ ComposeSpec /\ NotifierSpec /\ AccessSpec
                /\ ArchiveSpec /\ ApiSpec /\ PacingSpec /\ AdmissionSpec
<1>1. Begin => /\ ConnInit /\ ControlInit /\ ComposeInit /\ NotifierInit /\ AccessInit
               /\ ArchiveInit /\ ApiInit /\ PacingInit /\ AdmissionInit
  BY DEF Begin
<1>2. QED
  BY <1>1, StepIsOnes, PTL DEF Behaviours, ConnSpec, ControlSpec, ComposeSpec, NotifierSpec,
     AccessSpec, ArchiveSpec, ApiSpec, PacingSpec, AdmissionSpec

\* The type invariants of the services, one beside the other, for every value of
\* their constants: the rows, and who holds them.
THEOREM ServicesTyped == Behaviours => []ServicesTypeOK
<1>1. ServicesTypeOK <=>
          /\ ConnTypeOK /\ ControlTypeOK /\ ComposeTypeOK /\ NotifierTypeOK /\ AccessTypeOK
          /\ ArchiveTypeOK /\ ApiTypeOK /\ PacingTypeOK /\ AdmissionTypeOK
  BY DEF ServicesTypeOK
<1>2. QED
  BY <1>1, ServicesBehave, ConnTyped, ControlTyped, ComposeTyped, AlertsTyped, AccessTyped,
     ArchiveTyped, ApiTyped, BucketsTyped, AdmissionTyped, PTL
=============================================================================
