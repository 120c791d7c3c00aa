---------------------------- MODULE RunController ----------------------------
(***************************************************************************)
(* RunController of workflow-runtime: the synchronous ledger of one host    *)
(* run.  Every operation carries an elapsed sample of the host's clock and  *)
(* begins with check_boundary; a sample that fails it ends the run the way  *)
(* Poll does, whatever the operation was.  An operation on a run that has   *)
(* ended returns the latched cause and changes nothing.                     *)
(***************************************************************************)
EXTENDS Integers

CONSTANTS
    Tools,                                  \* exact (tool id, version) pairs
    MaxModelTurns, MaxToolCalls, MaxCallsPerTool,
    MaxWallTime, MaxIdleTime, MaxToolTime,  \* the ceilings of RunLimits
    MaxToolOutputBytes,
    MaxElapsed,                             \* bound on the samples
    NoTool

Positive == Nat \ {0}

\* RunLimits holds NonZeroU64 values.
ASSUME LimitAssumption ==
    /\ MaxModelTurns \in Positive /\ MaxToolCalls \in Positive
    /\ MaxCallsPerTool \in Positive /\ MaxToolOutputBytes \in Positive
    /\ MaxWallTime \in Positive /\ MaxIdleTime \in Positive
    /\ MaxToolTime \in Positive
ASSUME ToolAssumption == NoTool \notin Tools /\ MaxElapsed \in Nat

TimeoutKind == {"WallTime", "IdleTime", "ToolTime"}
LimitKind == {"ModelTurns", "TotalToolCalls", "ToolCallsPerTool", "ToolOutputBytes"}
ControlError == {"ClockRegressed", "ModelTurnWhileToolCallActive",
                 "ToolCallAlreadyActive", "ToolOutputWithoutActiveCall",
                 "ToolFinishWithoutActiveCall", "RunFinishWithActiveToolCall"}
Cause == TimeoutKind \union LimitKind \union ControlError \union {"Cancelled"}

VARIABLES
    turns, total, perTool, bytes,  \* what has been charged
    last, idle,                    \* last sample, start of the idle period
    active, started,               \* the active call and when it began
    cause,                         \* the latched cause, "none" while running
    authority,                     \* "held", or how the controller was consumed
    closed, cleaned                \* calls closed by finish, handed to cleanup

charged == <<turns, total, perTool, bytes>>
clock == <<last, idle>>
controllerVars ==
    <<turns, total, perTool, bytes, last, idle, active, started, cause, authority, closed, cleaned>>

TypeOK ==
    /\ turns \in Nat /\ total \in Nat /\ bytes \in Nat
    /\ perTool \in [Tools -> Nat]
    /\ last \in 0..MaxElapsed /\ idle \in 0..last /\ started \in 0..last
    /\ active \in Tools \union {NoTool}
    /\ cause \in Cause \union {"none"}
    /\ authority \in {"held", "finished", "rejected"}
    /\ closed \in Nat /\ cleaned \in Nat

ControllerInit ==
    /\ turns = 0 /\ total = 0 /\ bytes = 0
    /\ perTool = [t \in Tools |-> 0]
    /\ last = 0 /\ idle = 0
    /\ active = NoTool /\ started = 0
    /\ cause = "none" /\ authority = "held"
    /\ closed = 0 /\ cleaned = 0

-----------------------------------------------------------------------------
(* Deadlines.                                                               *)

Deadline(kind) == IF kind = "WallTime" THEN MaxWallTime
                  ELSE IF kind = "IdleTime" THEN idle + MaxIdleTime
                  ELSE started + MaxToolTime

Armed == IF active = NoTool THEN {"WallTime", "IdleTime"} ELSE TimeoutKind

\* Slip: the last deadline considered wins.
ConsiderLast(winner, kind, e) ==
    IF kind \in Armed /\ e >= Deadline(kind) THEN kind ELSE winner

\* One call of the closure `consider': a reached deadline replaces the winner
\* only if it is strictly earlier.
Consider(winner, kind, e) ==
    IF /\ kind \in Armed
       /\ e >= Deadline(kind)
       /\ winner = "none" \/ Deadline(kind) < Deadline(winner)
    THEN kind ELSE winner

ReachedTimeout(e) ==
    Consider(Consider(Consider("none", "WallTime", e), "IdleTime", e), "ToolTime", e)

\* check_boundary returned Ok.
Passes(e) ==
    /\ cause = "none"
    /\ e >= last
    /\ ReachedTimeout(e) = "none"

Running == cause = "none" /\ authority = "held"

\* Slip: the latch is set and the active call is kept.
TerminateKeepsCall(c) ==
    /\ cause' = c
    /\ cleaned' = cleaned + (IF active = NoTool THEN 0 ELSE 1)
    /\ UNCHANGED <<charged, idle, active, started, authority, closed>>

\* terminate: the first cause is latched, and an active call leaves the
\* controller as the cleanup intent of this termination only.
Terminate(c) ==
    /\ cause' = c
    /\ cleaned' = cleaned + (IF active = NoTool THEN 0 ELSE 1)
    /\ active' = NoTool
    /\ UNCHANGED <<charged, idle, started, authority, closed>>

-----------------------------------------------------------------------------
(* Operations.                                                              *)

ClockRegressed(e) ==
    /\ Running
    /\ e < last
    /\ Terminate("ClockRegressed")
    /\ UNCHANGED last

TimedOut(e) ==
    /\ Running
    /\ e >= last
    /\ ReachedTimeout(e) # "none"
    /\ Terminate(ReachedTimeout(e))
    /\ last' = e

Poll(e) ==
    /\ authority = "held" /\ Passes(e)
    /\ last' = e
    /\ UNCHANGED <<charged, idle, active, started, cause, authority, closed, cleaned>>

\* An operation that passes the boundary and is then refused with cause c.
Refuse(e, c) ==
    /\ authority = "held" /\ Passes(e)
    /\ last' = e
    /\ Terminate(c)

\* An operation that passes the boundary and counts as progress.
Progress(e) ==
    /\ authority = "held" /\ Passes(e)
    /\ last' = e /\ idle' = e
    /\ UNCHANGED <<cause, authority, cleaned>>

\* Slip: the ceiling is compared after the turn it should have refused.
AdmitModelTurnOneMore(e) ==
    /\ active = NoTool
    /\ turns <= MaxModelTurns
    /\ Progress(e)
    /\ turns' = turns + 1
    /\ UNCHANGED <<total, perTool, bytes, active, started, closed>>

AdmitModelTurn(e) ==
    /\ active = NoTool
    /\ turns < MaxModelTurns
    /\ Progress(e)
    /\ turns' = turns + 1
    /\ UNCHANGED <<total, perTool, bytes, active, started, closed>>

RefuseModelTurn(e) ==
    \/ active # NoTool /\ Refuse(e, "ModelTurnWhileToolCallActive")
    \/ active = NoTool /\ turns >= MaxModelTurns /\ Refuse(e, "ModelTurns")

BeginToolCall(e, t) ==
    /\ active = NoTool
    /\ total < MaxToolCalls
    /\ perTool[t] < MaxCallsPerTool
    /\ Progress(e)
    /\ total' = total + 1
    /\ perTool' = [perTool EXCEPT ![t] = @ + 1]
    /\ active' = t /\ started' = e
    /\ UNCHANGED <<turns, bytes, closed>>

RefuseToolCall(e, t) ==
    \/ active # NoTool /\ Refuse(e, "ToolCallAlreadyActive")
    \/ /\ active = NoTool /\ total >= MaxToolCalls
       /\ Refuse(e, "TotalToolCalls")
    \/ /\ active = NoTool /\ total < MaxToolCalls /\ perTool[t] >= MaxCallsPerTool
       /\ Refuse(e, "ToolCallsPerTool")

\* An empty chunk is accepted and is no progress.
AcceptToolOutput(e, n) ==
    /\ active # NoTool
    /\ n <= MaxToolOutputBytes - bytes
    /\ authority = "held" /\ Passes(e)
    /\ last' = e
    /\ bytes' = bytes + n
    /\ idle' = IF n = 0 THEN idle ELSE e
    /\ UNCHANGED <<turns, total, perTool, active, started, cause, authority, closed, cleaned>>

RefuseToolOutput(e, n) ==
    \/ active = NoTool /\ Refuse(e, "ToolOutputWithoutActiveCall")
    \/ /\ active # NoTool /\ n > MaxToolOutputBytes - bytes
       /\ Refuse(e, "ToolOutputBytes")

FinishToolCall(e) ==
    \/ /\ active # NoTool
       /\ Progress(e)
       /\ active' = NoTool /\ closed' = closed + 1
       /\ UNCHANGED <<charged, started>>
    \/ active = NoTool /\ Refuse(e, "ToolFinishWithoutActiveCall")

MarkProgress(e) ==
    /\ Progress(e)
    /\ UNCHANGED <<charged, active, started, closed>>

RequestCancel(e) == Refuse(e, "Cancelled")

\* finish consumes the controller; a healthy end is the only one without a
\* terminal cause.
Finish(e) ==
    \/ /\ active = NoTool
       /\ authority = "held" /\ Passes(e)
       /\ last' = e /\ authority' = "finished"
       /\ UNCHANGED <<charged, idle, active, started, cause, closed, cleaned>>
    \/ active # NoTool /\ Refuse(e, "RunFinishWithActiveToolCall")

\* into_rejection_termination: the owner of the controller is refused by
\* identity; an active call is handed out for cleanup first.
RejectIdentity ==
    /\ Running
    /\ \/ /\ active # NoTool
          /\ Terminate("RunFinishWithActiveToolCall")
          /\ UNCHANGED last
       \/ /\ active = NoTool
          /\ authority' = "rejected"
          /\ UNCHANGED <<charged, clock, active, started, cause, closed, cleaned>>

Samples == 0..MaxElapsed
Chunks == 0..(MaxToolOutputBytes + 1)

ControllerNext ==
    \/ \E e \in Samples :
          \/ ClockRegressed(e) \/ TimedOut(e) \/ Poll(e)
          \/ AdmitModelTurn(e) \/ RefuseModelTurn(e)
          \/ \E t \in Tools : BeginToolCall(e, t) \/ RefuseToolCall(e, t)
          \/ \E n \in Chunks : AcceptToolOutput(e, n) \/ RefuseToolOutput(e, n)
          \/ FinishToolCall(e) \/ MarkProgress(e) \/ RequestCancel(e) \/ Finish(e)
    \/ RejectIdentity

ControllerSpec == ControllerInit /\ [][ControllerNext]_controllerVars

-----------------------------------------------------------------------------
(* Properties.                                                              *)

Ended == cause # "none" \/ authority # "held"

\* The ceilings of RunLimits are inclusive: no sequence of operations charges
\* more, and the remaining-bytes subtraction never underflows.
WithinCeilings ==
    /\ turns <= MaxModelTurns
    /\ total <= MaxToolCalls
    /\ \A t \in Tools : perTool[t] <= MaxCallsPerTool
    /\ bytes <= MaxToolOutputBytes

\* Every admitted tool call is closed exactly once: by finish_tool_call, or by
\* the one-shot cleanup of the termination that found it active.  A run that
\* has ended holds no call.
EveryCallClosedOnce ==
    /\ total = closed + cleaned + (IF active = NoTool THEN 0 ELSE 1)
    /\ cleaned <= 1
    /\ Ended => active = NoTool

\* Nothing is charged and the cause never changes once a run has ended.
EndedIsFinal ==
    [][Ended => UNCHANGED controllerVars]_controllerVars

\* Work is only charged, and a run only finishes, at a sample before every
\* armed deadline.
NoWorkPastDeadline ==
    [][charged' # charged \/ (authority = "held" /\ authority' = "finished") =>
           \A kind \in Armed : last' < Deadline(kind)]_controllerVars

\* A run that times out names the earliest deadline that was reached.
TimeoutIsEarliest ==
    [][cause = "none" /\ cause' \in TimeoutKind =>
           /\ cause' \in Armed
           /\ last' >= Deadline(cause')
           /\ \A kind \in Armed : Deadline(cause') <= Deadline(kind)]_controllerVars
=============================================================================
