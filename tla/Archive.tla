--------------------------------- MODULE Archive ---------------------------------
(***************************************************************************)
(* The archive: where the operators want copies of every ad, whose ads are *)
(* copied (adminbot/handlers.py, "Archive" and "Users"), and what is done  *)
(* at the end of a round (services/archive.py): the private groups are     *)
(* looked up, the ad is copied, then the index of where it went is sent.   *)
(*                                                                         *)
(* Every operator has a settings row; the deployment's is the row with a   *)
(* destination that was written last, whatever was written to it.          *)
(***************************************************************************)
EXTENDS Naturals, FiniteSets

CONSTANTS
    Owners,         \* operators, each with a settings row
    Senders,        \* accounts whose ads may be archived
    Places,         \* chats an archive may be kept in
    Lookups,        \* groups of a round; those whose details must be looked up
    Unset,
    MaxDecisions,   \* bound: what the operators decide, and zones they set
    MaxRounds,      \* bound: rounds that end
    MaxRefusals     \* bound: lookups and messages Telegram refuses

ASSUME ArchiveAssumption ==
    /\ Unset \notin Places
    /\ {MaxDecisions, MaxRounds, MaxRefusals} \subseteq Nat

VARIABLES
    setting,    \* app_settings of each operator, and when it was last updated
    archiveAds, \* users.archive_ads: "on", "off", or "default"
    store,      \* the round that is archived: how far, and what was resolved
    known,      \* groups whose details are stored
    copied,     \* rounds whose copy was sent
    decisions, rounds, unhelped

settingVars == <<setting, archiveAds, decisions>>
storeVars == <<store, known, copied, rounds, unhelped>>
archiveVars == <<settingVars, storeVars>>

Via == {"bot", "account"}
Nowhere == [place |-> Unset, via |-> "bot"]
NoStore == [at |-> "none", to |-> Nowhere, account |-> FALSE, left |-> {}, group |-> Unset]

ArchiveInit ==
    /\ setting = [o \in Owners |-> [to |-> Nowhere, all |-> TRUE, updated |-> 0]]
    /\ archiveAds \in [Senders -> {"default", "off"}]
    /\ store = NoStore
    /\ known = {} /\ copied = {}
    /\ decisions = 0 /\ rounds = 0 /\ unhelped = 0

(***************************************************************************)
(* The operators' decisions.                                               *)
(***************************************************************************)

\* any_operator_setting: updated_at, descending, among those with a destination.
Chosen == {o \in Owners : setting[o].to # Nowhere}
AnyOperatorSetting == {o \in Chosen : \A q \in Chosen : setting[q].updated <= setting[o].updated}

Decide ==
    /\ decisions < MaxDecisions
    /\ decisions' = decisions + 1
    /\ UNCHANGED storeVars

\* The row is updated, and dated, only if it is not as it was.
Stamped(o, s) ==
    setting' = IF s = setting[o] THEN setting
               ELSE [setting EXCEPT ![o] = [s EXCEPT !.updated = decisions + 1]]

\* arch:s, a group of one's own; archive_chat_given, a chat the bot has posted
\* to.  One destination at a time.
ChooseArchive(o, place, via) ==
    /\ Decide
    /\ Stamped(o, [setting[o] EXCEPT !.to = [place |-> place, via |-> via]])
    /\ UNCHANGED archiveAds

\* arch:off writes the caller's own row.
TurnOff(o) ==
    /\ Decide
    /\ Chosen # {}                             \* else there is no button
    /\ Stamped(o, [setting[o] EXCEPT !.to = Nowhere])
    /\ UNCHANGED archiveAds

\* arch:scope; and ad_schedule, which may store a timezone in the same row.
WriteOther(o) ==
    /\ Decide
    /\ \E all \in BOOLEAN :
          setting' = [setting EXCEPT ![o].all = all, ![o].updated = decisions + 1]
    /\ UNCHANGED archiveAds

\* arcon, arcoff, arcauto: a decision about one account.
SetArchiveAds(p) ==
    /\ Decide
    /\ archiveAds' \in {[archiveAds EXCEPT ![p] = a] : a \in {"on", "off", "default"}}
    /\ UNCHANGED setting

(***************************************************************************)
(* A round ends, or is stopped: store_round.                               *)
(***************************************************************************)

IsArchived(p, s) == IF archiveAds[p] = "default" THEN s.all ELSE archiveAds[p] = "on"

DestinationFor(p) ==
    IF \E o \in AnyOperatorSetting : IsArchived(p, setting[o])
    THEN setting[CHOOSE o \in AnyOperatorSetting : TRUE].to
    ELSE Nowhere

\* Which groups it reached, and whether the account's adapter is at hand, which
\* alone can look groups up and post to a group of the account's.
StoreRound(p) ==
    /\ rounds < MaxRounds
    /\ store = NoStore
    /\ rounds' = rounds + 1
    /\ DestinationFor(p) # Nowhere
    /\ \E account \in BOOLEAN, reached \in SUBSET Lookups \ {{}} :
          /\ account \/ DestinationFor(p).via = "bot"
          /\ store' = [at |-> "details", to |-> DestinationFor(p), account |-> account,
                       left |-> IF account THEN reached \ known ELSE {}, group |-> Unset]
    /\ UNCHANGED <<settingVars, known, copied, unhelped>>

Refusal == unhelped < MaxRefusals /\ unhelped' = unhelped + 1

\* _fill_details: Telegram tells; or refuses; or asks for a short wait, which is
\* waited before the group is tried again; or for a wait above the ceiling, which
\* ends the walk until the next round.
LookUp(g) ==
    LET left == store.left \ {g} IN
    /\ store.at = "details" /\ g \in store.left
    /\ \/ /\ known' = known \cup {g} /\ UNCHANGED unhelped
          /\ store' = [store EXCEPT !.left = left]
       \/ /\ Refusal /\ UNCHANGED known
          /\ store' \in {[store EXCEPT !.left = left], [store EXCEPT !.left = {}],
                         [store EXCEPT !.at = "again", !.group = g, !.left = left]}
    /\ UNCHANGED <<settingVars, copied, rounds>>

\* The second try: whatever it meets, a refusal or a wait of any length, the walk
\* goes on with the next group.
LookUpAgain ==
    /\ store.at = "again"
    /\ store' = [store EXCEPT !.at = "details", !.group = Unset]
    /\ \/ known' = known \cup {store.group} /\ UNCHANGED unhelped
       \/ Refusal /\ UNCHANGED known
    /\ UNCHANGED <<settingVars, copied, rounds>>

\* Every group was tried, or the time budget is spent.
EndDetails ==
    /\ store.at = "details"
    /\ store' = [store EXCEPT !.at = "copy", !.left = {}]
    /\ UNCHANGED <<settingVars, known, copied, rounds, unhelped>>

\* The copy first; it may fail, and the index is sent all the same.
SendCopy ==
    /\ store.at = "copy"
    /\ store' = [store EXCEPT !.at = "index"]
    /\ \/ copied' = copied \cup {rounds} /\ UNCHANGED unhelped
       \/ Refusal /\ UNCHANGED copied
    /\ UNCHANGED <<settingVars, known, rounds>>

SendIndex ==
    /\ store.at = "index"
    /\ store' = NoStore
    /\ UNCHANGED <<settingVars, known, copied, rounds, unhelped>>

ArchiveNext ==
    \/ \E o \in Owners : \/ \E place \in Places, via \in Via : ChooseArchive(o, place, via)
                         \/ TurnOff(o) \/ WriteOther(o)
    \/ \E p \in Senders : SetArchiveAds(p) \/ StoreRound(p)
    \/ \E g \in Lookups : LookUp(g)
    \/ LookUpAgain \/ EndDetails \/ SendCopy \/ SendIndex

(***************************************************************************)
(* Properties.                                                             *)
(***************************************************************************)

\* The types; a round is archived only to a destination (services/archive.py).
ArchiveTypeOK ==
    /\ \A o \in Owners : setting[o].to.place \in Places \cup {Unset}
    /\ archiveAds \in [Senders -> {"on", "off", "default"}]
    /\ store # NoStore => store.to # Nowhere
    /\ known \subseteq Lookups /\ store.left \subseteq Lookups \ known
    /\ copied \subseteq 1 .. rounds

ArchiveSpec == ArchiveInit /\ [][ArchiveNext]_archiveVars

================================================================================
