--------------------------------- MODULE Compose ---------------------------------
(***************************************************************************)
(* Composing, editing and starting ads in the panel (adminbot/handlers.py, *)
(* the section "Ads", and services/broadcast.validate), for one customer.  *)
(*                                                                         *)
(* What is asked for next is kept in a conversation (the FSM's step and    *)
(* data); the ads are rows.  Screens stay in the chat: a button may be     *)
(* tapped long after its screen was right, and messages are handled at the *)
(* same time as others.  What the worker does with a round is Broadcast's. *)
(***************************************************************************)
EXTENDS Naturals, FiniteSets, Sequences, SequencesExt

CONSTANTS
    Ads, Pickers,     \* ids of ads; messages that hold a group picker
    Groups,           \* groups of the account, numbered as the picker sorts them
    Begun,            \* ads the customer may have at the start
    NameHandlers,     \* messages with a name handled at a time
    NoAd,
    Delays, Intervals,  \* pauses and intervals the customer may ask for; 0: post once
    MinDelay,         \* settings.min_broadcast_delay_ms
    MinRepeat,        \* settings.min_broadcast_repeat_s
    MaxRepeat,        \* _MAX_REPEAT_HOURS
    MaxSpread,        \* settings.max_rule_spread_s
    MaxTargets,       \* settings.max_broadcast_targets
    MaxTaps,          \* bound: what the customer taps and types
    MaxSyncs          \* bound: groups that become, or cease to be, postable

AdStatus == {"draft", "scheduled", "sending", "paused", "completed", "cancelled"}

\* A body is too long for a caption or is not; a start is still to come or not.
AdType ==
    [status : AdStatus, body : {"none", "short", "long"}, media : BOOLEAN,
     delay : Nat, repeat : Nat, start : {"none", "later", "due"}, groups : SUBSET Groups]

ASSUME ComposeAssumption ==
    /\ Groups \subseteq Nat /\ Delays \cup Intervals \subseteq Nat
    /\ {MinDelay, MinRepeat, MaxRepeat, MaxSpread, MaxTargets, MaxTaps, MaxSyncs} \subseteq Nat
    /\ IsFiniteSet(Groups)
    /\ NoAd \notin Ads \cup AdType
    /\ Begun \subseteq AdType

VARIABLES
    ads,         \* broadcasts: a record, or NoAd
    been,       \* statuses the customer has seen each ad in
    flow,       \* the conversation: its step, and the data it keeps
    picker,     \* what each picker's message shows
    naming,     \* each handler of a name: the drafts it is about to discard
    postable,   \* groups the picker offers
    touched,    \* ads changed since they were last validated
    returned,   \* ads the scheduler made drafts again
    doubled,    \* ads made while another name was handled
    astray,     \* a tap changed another group than its button showed
    taps, syncs

composeVars == <<ads, been, flow, picker, naming, postable, touched, returned, doubled,
                 astray, taps, syncs>>

Steps == {"none", "name", "text", "media", "delay", "schedule", "repeat", "picking"}
NoFlow == [step |-> "none", ad |-> NoAd, listed |-> <<>>, selected |-> {}]
NoPicker == [ad |-> NoAd, listed |-> <<>>, ticked |-> {}, saves |-> FALSE]
NotNaming == [busy |-> FALSE, drafts |-> {}]

AdRows == {b \in Ads : ads[b] # NoAd}
Drafts == {b \in AdRows : ads[b].status = "draft"}

ComposeInit ==
    /\ ads \in {[b \in Ads |-> IF b = first THEN a ELSE NoAd] : first \in Ads, a \in Begun}
    /\ been = [b \in Ads |-> IF ads[b] = NoAd THEN {} ELSE {ads[b].status}]
    /\ flow = NoFlow
    /\ picker = [p \in Pickers |-> NoPicker]
    /\ naming = [h \in NameHandlers |-> NotNaming]
    /\ postable = Groups
    /\ touched = AdRows /\ returned = {} /\ doubled = {} /\ astray = FALSE
    /\ taps = 0 /\ syncs = 0

Tap ==
    /\ taps < MaxTaps
    /\ taps' = taps + 1
    /\ UNCHANGED <<postable, syncs>>

\* The ad is written; the screen that answers shows its new status.
WritesAd(b, a) ==
    /\ ads' = [ads EXCEPT ![b] = a]
    /\ been' = [been EXCEPT ![b] = @ \cup {a.status}]

Cleared == flow' = NoFlow
AsksFor(step, b) == flow' = [NoFlow EXCEPT !.step = step, !.ad = b]
KeepsAds == UNCHANGED <<ads, been, touched, returned, doubled>>
KeepsScreens == UNCHANGED <<picker, naming, astray>>

(***************************************************************************)
(* What must hold before an ad is queued: services/broadcast.validate.     *)
(***************************************************************************)

\* estimated_duration_s.
Round(a) == a.delay * (IF a.groups = {} THEN 0 ELSE Cardinality(a.groups) - 1)

FitsTelegram(a) == /\ a.body # "none" \/ a.media
                   /\ ~(a.media /\ a.body = "long")

Validate(a) ==
    /\ FitsTelegram(a)
    /\ a.groups # {} /\ Cardinality(a.groups) <= MaxTargets
    /\ a.repeat > 0 => a.repeat >= MinRepeat /\ a.repeat > Round(a)
    /\ Round(a) <= MaxSpread

\* broadcast_service.queue, and Send for an ad that waits for its start.
MayQueueUnchecked(a) == TRUE
MayQueue(a) == Validate(a)

(***************************************************************************)
(* A new ad.  Handlers of two names may overlap.                           *)
(***************************************************************************)

NewAd ==
    /\ Tap
    /\ AsksFor("name", NoAd)
    /\ KeepsAds /\ KeepsScreens

BeginName(h) ==
    /\ Tap
    /\ flow.step = "name"
    /\ naming[h] = NotNaming
    /\ naming' = [naming EXCEPT ![h] = [busy |-> TRUE, drafts |-> Drafts]]
    /\ UNCHANGED <<flow, picker, astray>>
    /\ KeepsAds

\* ad_name: nothing without a connection; else the drafts go and one comes.
DiscardedNone(S) == ads
Discarded(S) == [b \in Ads |-> IF b \in S THEN NoAd ELSE ads[b]]

NewDraft == [status |-> "draft", body |-> "none", media |-> FALSE, delay |-> MinDelay,
             repeat |-> 0, start |-> "none", groups |-> {}]

EndName(h) ==
    /\ naming[h].busy
    /\ naming' = [naming EXCEPT ![h] = NotNaming]
    /\ \/ Cleared /\ KeepsAds
       \/ \E b \in Ads \ AdRows :
            /\ been[b] = {}
            /\ ads' = [Discarded(naming[h].drafts \cap Drafts) EXCEPT ![b] = NewDraft]
            /\ been' = [been EXCEPT ![b] = {"draft"}]
            /\ flow' = [flow EXCEPT !.step = "text", !.ad = b]
            /\ touched' = touched \cup {b}
            /\ doubled' = IF \E g \in NameHandlers \ {h} : naming[g].busy
                          THEN doubled \cup {b} ELSE doubled
            /\ UNCHANGED returned
    /\ UNCHANGED <<picker, astray, postable, taps, syncs>>

(***************************************************************************)
(* The prompts, and the messages that answer them, for an ad of any status.*)
(***************************************************************************)

\* _AD_PROMPTS; every ad's compose screen has been shown.
Prompt(b, step) ==
    /\ Tap
    /\ been[b] # {}
    /\ step \in {"text", "media", "delay", "schedule", "repeat"}
    /\ AsksFor(step, b)
    /\ KeepsAds /\ KeepsScreens

\* The answer to a prompt: the ad as changed, or "That ad is gone".
Answer(step, new) ==
    /\ Tap
    /\ flow.step = step
    /\ IF flow.ad \in AdRows
       THEN /\ WritesAd(flow.ad, new)
            /\ flow' = [flow EXCEPT !.step = "none"]
            /\ touched' = touched \cup {flow.ad}
            /\ UNCHANGED <<returned, doubled>>
       ELSE Cleared /\ KeepsAds
    /\ KeepsScreens

Current == IF flow.ad \in AdRows THEN ads[flow.ad] ELSE NewDraft

AdText == \E body \in {"short", "long"} : Answer("text", [Current EXCEPT !.body = body])

\* A photo, with or without a caption, which is never too long for one.
AdMedia ==
    \E body \in {Current.body, "short"} :
        Answer("media", [Current EXCEPT !.media = TRUE, !.body = body])

\* Out of bounds is asked for again.
AdDelay == \E d \in {d \in Delays : d >= MinDelay} : Answer("delay", [Current EXCEPT !.delay = d])
AdSchedule == \E s \in {"none", "later"} : Answer("schedule", [Current EXCEPT !.start = s])
AdRepeat ==
    \E r \in {r \in Intervals : r <= MaxRepeat /\ (r > 0 => r >= MinRepeat)} :
        Answer("repeat", [Current EXCEPT !.repeat = r])

CancelFlow ==
    /\ Tap
    /\ flow # NoFlow
    /\ Cleared
    /\ KeepsAds /\ KeepsScreens

(***************************************************************************)
(* The group picker.  Its buttons carry an index into the list the         *)
(* conversation keeps.                                                     *)
(***************************************************************************)

PostableChats ==
    CHOOSE s \in [1 .. Cardinality(postable) -> postable] :
        \A i, j \in DOMAIN s : i < j => s[i] < s[j]

OpenPicker(p, b) ==
    LET selected == IF b \in AdRows THEN ads[b].groups ELSE {} IN
    /\ Tap
    /\ been[b] # {}
    /\ flow' = [step |-> "picking", ad |-> b, listed |-> PostableChats, selected |-> selected]
    /\ picker' = [picker EXCEPT ![p] = [ad |-> b, listed |-> PostableChats, ticked |-> selected,
                                        saves |-> FALSE]]
    /\ KeepsAds
    /\ UNCHANGED <<naming, astray>>

Toggled(S, g) == IF g \in S THEN S \ {g} ELSE S \cup {g}

\* The keyboard is drawn again from the conversation.
Picks(p, selected) ==
    /\ flow' = [flow EXCEPT !.selected = selected]
    /\ picker' = [picker EXCEPT ![p] = [ad |-> flow.ad, listed |-> flow.listed,
                                        ticked |-> selected, saves |-> TRUE]]

PickOne(p, i) ==
    /\ Tap
    /\ i \in DOMAIN picker[p].listed
    /\ flow.listed # <<>>                      \* else "This list expired"
    /\ IF i \in DOMAIN flow.listed
       THEN /\ Picks(p, Toggled(flow.selected, flow.listed[i]))
            /\ astray' = (astray \/ flow.listed[i] # picker[p].listed[i])
       ELSE Picks(p, flow.selected) /\ UNCHANGED astray
    /\ KeepsAds
    /\ UNCHANGED naming

PickAllOrNone(p) ==
    /\ Tap
    /\ picker[p].listed # <<>> /\ flow.listed # <<>>
    /\ \E selected \in {{}, flow.selected \cup ToSet(flow.listed)} : Picks(p, selected)
    /\ KeepsAds
    /\ UNCHANGED <<naming, astray>>

\* "Done": the conversation's selection is stored for the conversation's ad.
SavePicked(p) ==
    /\ Tap
    /\ picker[p].saves
    /\ IF flow.ad \in AdRows
       THEN /\ WritesAd(flow.ad, [ads[flow.ad] EXCEPT !.groups = flow.selected])
            /\ touched' = touched \cup {flow.ad}
            /\ UNCHANGED <<returned, doubled>>
       ELSE KeepsAds
    /\ Cleared
    /\ picker' = [picker EXCEPT ![p] = IF picker[p].ad \in AdRows THEN NoPicker ELSE @]
    /\ UNCHANGED <<naming, astray>>

\* drop_dead_groups: the group leaves every ad that it never got.
DropDead(g, S) ==
    /\ Tap
    /\ ads' = [b \in Ads |-> IF b \in S THEN [ads[b] EXCEPT !.groups = @ \ {g}] ELSE ads[b]]
    /\ touched' = touched \cup S
    /\ UNCHANGED <<been, flow, returned, doubled>>
    /\ KeepsScreens

(***************************************************************************)
(* The other buttons of an ad.  A button was on a screen of the ad in a    *)
(* status that showed it; its handler reads the status as it is now.       *)
(***************************************************************************)

Shown(b, statuses) == b \in AdRows /\ been[b] \cap statuses # {}
Becomes(b, a) == WritesAd(b, a) /\ UNCHANGED <<returned, doubled>> /\ KeepsScreens

EditAd(b) ==
    /\ Tap
    /\ Shown(b, AdStatus \ {"draft"})
    /\ Becomes(b, IF ads[b].status = "sending" THEN [ads[b] EXCEPT !.status = "paused"] ELSE ads[b])
    /\ AsksFor("none", b)
    /\ UNCHANGED touched

SpeedPreset(b) ==
    /\ Tap
    /\ b \in AdRows
    /\ \E d \in Delays : Becomes(b, [ads[b] EXCEPT !.delay = d])
    /\ touched' = touched \cup {b}
    /\ UNCHANGED flow

DeleteAd(b) ==
    /\ Tap
    /\ Shown(b, AdStatus \ {"sending", "paused", "draft"})
    /\ ads[b].status \notin {"sending", "paused"}
    /\ ads' = [ads EXCEPT ![b] = NoAd]
    /\ UNCHANGED <<been, flow, touched, returned, doubled>>
    /\ KeepsScreens

\* Every draft of the customer goes, whichever this screen was of.
Discard(b) ==
    /\ Tap
    /\ Shown(b, {"draft"})
    /\ ads' = Discarded(Drafts)
    /\ Cleared
    /\ UNCHANGED <<been, touched, returned, doubled>>
    /\ KeepsScreens

\* A finished ad's targets are opened again (Broadcast).
SendAd(b) ==
    /\ Tap
    /\ b \in AdRows
    /\ MayQueue(ads[b])                         \* else its message is shown
    /\ Becomes(b, [ads[b] EXCEPT !.status =
                       IF ads[b].start = "later" THEN "scheduled" ELSE "sending"])
    /\ touched' = touched \ {b}
    /\ UNCHANGED flow

PauseAd(b) ==
    /\ Tap
    /\ Shown(b, {"sending"})
    /\ Becomes(b, [ads[b] EXCEPT !.status = "paused"])
    /\ UNCHANGED <<flow, touched>>

ResumeAd(b) ==
    /\ Tap
    /\ Shown(b, {"paused"})
    /\ Becomes(b, [ads[b] EXCEPT !.status = "sending"])
    /\ UNCHANGED <<flow, touched>>

CancelAd(b) ==
    /\ Tap
    /\ Shown(b, {"sending", "paused"})
    /\ Becomes(b, [ads[b] EXCEPT !.status = "cancelled"])
    /\ UNCHANGED <<flow, touched>>

\* retry_unfinished: groups that did not get the ad are queued again.
RetryAd(b) ==
    /\ Tap
    /\ Shown(b, {"sending", "paused", "completed", "cancelled"})
    /\ Becomes(b, [ads[b] EXCEPT !.status = "sending"])
    /\ UNCHANGED <<flow, touched>>

(***************************************************************************)
(* The worker, the clock, the scheduler, the account.                      *)
(***************************************************************************)

TapsElsewhere == UNCHANGED <<flow, picker, naming, astray, taps>>

\* settle: only an ad that is not repeated is completed.
RoundEnds(b) ==
    /\ b \in AdRows /\ ads[b].status = "sending" /\ ads[b].repeat = 0
    /\ WritesAd(b, [ads[b] EXCEPT !.status = "completed"])
    /\ TapsElsewhere
    /\ UNCHANGED <<touched, returned, doubled, postable, syncs>>

StartComes(b) ==
    /\ b \in AdRows /\ ads[b].start = "later"
    /\ ads' = [ads EXCEPT ![b].start = "due"]
    /\ TapsElsewhere
    /\ UNCHANGED <<been, touched, returned, doubled, postable, syncs>>

DueLater(a) == a.status = "scheduled" /\ a.start = "later"
Due(a) == a.status = "scheduled" /\ a.start = "due"

\* scheduled_broadcast_loop: queue, or a draft again, and the customer is told.
StartScheduledAd(b) ==
    /\ b \in AdRows /\ Due(ads[b])
    /\ IF MayQueue(ads[b])
       THEN /\ WritesAd(b, [ads[b] EXCEPT !.status = "sending"])
            /\ touched' = touched \ {b}
            /\ UNCHANGED <<returned, doubled>>
       ELSE /\ WritesAd(b, [ads[b] EXCEPT !.status = "draft"])
            /\ returned' = returned \cup {b}
            /\ UNCHANGED <<touched, doubled>>
    /\ TapsElsewhere
    /\ UNCHANGED <<postable, syncs>>

\* A synchronisation or a refusal changes what the picker offers next.
PostableChanges(g) ==
    /\ syncs < MaxSyncs
    /\ syncs' = syncs + 1
    /\ postable' = Toggled(postable, g)
    /\ KeepsAds
    /\ TapsElsewhere

AdButton(b) ==
    \/ \E step \in Steps : Prompt(b, step)
    \/ EditAd(b) \/ SpeedPreset(b) \/ DeleteAd(b) \/ Discard(b)
    \/ SendAd(b) \/ PauseAd(b) \/ ResumeAd(b) \/ CancelAd(b) \/ RetryAd(b)

Typed == AdText \/ AdMedia \/ AdDelay \/ AdSchedule \/ AdRepeat \/ CancelFlow

ComposeNext ==
    \/ NewAd \/ Typed
    \/ \E h \in NameHandlers : BeginName(h) \/ EndName(h)
    \/ \E b \in Ads : AdButton(b) \/ RoundEnds(b) \/ StartComes(b) \/ StartScheduledAd(b)
    \/ \E p \in Pickers : \/ \E b \in Ads : OpenPicker(p, b)
                          \/ \E i \in 1 .. Cardinality(Groups) : PickOne(p, i)
                          \/ PickAllOrNone(p) \/ SavePicked(p)
    \/ \E g \in Groups : PostableChanges(g) \/ \E S \in SUBSET AdRows : DropDead(g, S)

\* Time passes, and the scheduler's loop looks at every due ad.
ComposeFairness ==
    \A b \in Ads : WF_composeVars(StartComes(b)) /\ WF_composeVars(StartScheduledAd(b))

(***************************************************************************)
(* Properties.                                                             *)
(***************************************************************************)

\* The types; and there is one draft at a time, besides those the scheduler gave
\* back and those whose names were handled at the same time (ad_name discards
\* the drafts it has read).
ComposeTypeOK ==
    /\ ads \in [Ads -> AdType \cup {NoAd}]
    /\ \A b \in AdRows : ads[b].status \in been[b]
    /\ flow.step \in Steps /\ flow.selected \subseteq Groups
    /\ \A p \in Pickers : picker[p].saves => picker[p].listed # <<>>
    /\ {touched, returned, doubled} \subseteq SUBSET Ads
    /\ Cardinality(Drafts \ (returned \cup doubled)) <= 1

\* An ad that is being sent, or waits for its start, is one that validate
\* accepts, unless it was changed since (Edit, the prompts, the speeds and the
\* picker take an ad of any status, and Resume does not validate).
RunningAdsFit ==
    \A b \in AdRows \ touched :
        ads[b].status \in {"sending", "scheduled"} => Validate(ads[b])

\* An ad that waits for a start that will come is started or given back
\* (scheduled_broadcast_loop), unless the customer changes their mind.
ScheduledAdsStart ==
    \A b \in Ads :
        b \in AdRows /\ ads[b].status = "scheduled" /\ ads[b].start # "none"
            ~> b \notin AdRows \/ ads[b].status # "scheduled" \/ ads[b].start = "none"

\* views.group_picker: the same list is kept "so a stale keyboard from an
\* earlier ordering cannot silently toggle the wrong group".
ToggleMeansShown == ~astray

ComposeSpec == ComposeInit /\ [][ComposeNext]_composeVars
FairComposeSpec == ComposeSpec /\ ComposeFairness

================================================================================
