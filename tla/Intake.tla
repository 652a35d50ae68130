------------------------------- MODULE Intake -------------------------------
(***************************************************************************)
(* The listener and its automatic reply together: a consumer takes a         *)
(* message, answers its sender if it is a person (_maybe_auto_reply), and    *)
(* only then dispatches it.  A process that dies takes its reply            *)
(* transactions with it; one that fails leaves the dispatch to go on.       *)
(***************************************************************************)
EXTENDS Listener, AutoReply

CONSTANT From   \* who sent each update; NoPerson: it was posted in a chat

ASSUME ConsumersAssumption == Consumers = Runs
ASSUME FromAssumption == From \in [Updates -> Persons \union {NoPerson}]

intakeVars == <<listenVars, replyVars>>

IntakeInit == Init /\ ReplyInit

-----------------------------------------------------------------------------
(* _consume *)

\* A consumer gets its next message and looks at who sent it.
Consume(r) ==
    /\ Take(r)
    /\ LET sender == From[Anchor(Head(queue[r]))] IN
       \/ sender \notin Persons /\ UNCHANGED replyVars
       \/ sender \in Persons /\ Hear(r, sender)

\* _maybe_auto_reply: one transaction, whose failure is only logged.
Reply(r) == ReplyStep(r) /\ UNCHANGED listenVars

ReplyFails(r) == NoAnswer(r) /\ step[r] # "idle" /\ RollBack({r})

Forward(r) == step[r] = "idle" /\ Dispatch(r) /\ UNCHANGED replyVars
ForwardFails(r) == step[r] = "idle" /\ DispatchFails(r) /\ UNCHANGED replyVars

-----------------------------------------------------------------------------
(* The composition *)

\* The reply transactions of a process end with it.
ProcessEnds(p) == (Exit(p) \/ Crash(p)) /\ RollBack({r \in Runs : host[r] = p})

ListenerAlone ==
    /\ \/ \E r \in Runs : RunStep(r)
       \/ \E p \in Processes : Stop(p)
       \/ Expire \/ Toggle \/ Arrive
    /\ UNCHANGED replyVars

RepliesAlone == (Tick \/ Purge \/ ReplySettings) /\ UNCHANGED listenVars

IntakeNext ==
    \/ \E r \in Runs : Consume(r) \/ Reply(r) \/ ReplyFails(r) \/ Forward(r) \/ ForwardFails(r)
    \/ \E p \in Processes : ProcessEnds(p)
    \/ ListenerAlone \/ RepliesAlone

IntakeSpec == IntakeInit /\ [][IntakeNext]_intakeVars

\* Event loops keep running and Telegram keeps answering; a process told to
\* stop does; a key nobody renews expires.
Works(r) ==
    \/ Consume(r) \/ Reply(r) \/ Forward(r)
    \/ /\ \/ Request(r) \/ Receive(r) \/ BreakOff(r) \/ Joined(r)
          \/ Fail(r) /\ UNCHANGED budget
          \/ Cancel(r) \/ Release(r) \/ Flush(r)
       /\ UNCHANGED replyVars

Supervises == (\E p \in Processes, r \in Runs : Start(p, r)) /\ UNCHANGED replyVars

IntakeFairness ==
    /\ \A r \in Runs : WF_intakeVars(Works(r))
    /\ WF_intakeVars(Supervises)
    /\ WF_intakeVars(Expire /\ UNCHANGED <<budget, replyVars>>)
    /\ \A p \in Processes : WF_intakeVars(Exit(p) /\ RollBack({r \in Runs : host[r] = p}))

FairIntake == IntakeSpec /\ IntakeFairness

-----------------------------------------------------------------------------
(* Properties *)

\* Whatever Telegram has is dispatched in the end, by this process or the next
\* (run, run_connection, the lock's expiry), unless somebody's failure took it
\* or the connection is not active.
UpdatesGetThrough ==
    \A u \in Updates : u <= arrived ~> u \in taken \union dropped \/ ~active
=============================================================================
