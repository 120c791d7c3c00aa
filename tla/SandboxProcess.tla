---------------------------- MODULE SandboxProcess ----------------------------
(***************************************************************************)
(* One execution of LinuxBubblewrapBackend::execute (bubblewrap.rs) with   *)
(* the owner of its process (bubblewrap/lifecycle.rs), the polling loops   *)
(* that wait for, kill and reap it (bubblewrap/supervision.rs), and the    *)
(* output it stages (workdir.rs).                                          *)
(*                                                                         *)
(* Concurrent with the supervising thread run the process group (the bwrap *)
(* child and a descendant), the threads that drain stdout and stderr under *)
(* one output budget, the thread that feeds stdin, and the cleanup worker. *)
(* A process in uninterruptible I/O ("D") does not die of SIGKILL until it *)
(* leaves it, which may be never.                                          *)
(*                                                                         *)
(* Time is counted in poll intervals.  The supervisor polls at least once  *)
(* in each: the clock does not tick while a poll would do something.       *)
(***************************************************************************)
EXTENDS Integers, FiniteSets

CONSTANTS
    Walls,           \* wall-time ceilings of a request; None: no ceiling
    DStateTimeout,   \* D_STATE_REAP_TIMEOUT
    CleanupTimeout,  \* CLEANUP_REAP_TIMEOUT
    Limit,           \* output_limit: bytes of stdout and stderr retained
    MaxWrite,        \* bytes the processes may write to one pipe
    MaxTime,         \* bound on the clock
    Redirects,       \* <<process, pipes>>: outputs a process may close or redirect at once
    None

ASSUME SandboxAssumption ==
    /\ Walls \subseteq Nat \cup {None}
    /\ {DStateTimeout, CleanupTimeout, Limit, MaxWrite, MaxTime} \subseteq Nat

Phases == {"preflight", "spawn", "capture", "witness", "wait", "terminate", "settle", "done"}
Exits == {"ok", "fail", "killed"}
Errors == {"Workdir", "Capabilities", "OutputLimitMissing", "Spawn", "panic", "Run",
           "OutputLimitExceeded"}
Results == [kind : {"receipt", "error"}, status : Exits \cup Errors \cup {None}]

ASSUME NoneAssumption == None \notin Nat \cup Exits \cup Errors \cup Results

Group == {"child", "descendant"}
Pipes == {"stdout", "stderr"}
Streams == Pipes \cup {"stdin"}

VARIABLES
    wall,       \* request.wall_time
    now,        \* the monotonic clock
    phase,      \* where the supervising thread is
    state,      \* each process: none, run, D, dead
    signalled,  \* processes SIGKILL was delivered to
    status,     \* how the child ended: None, ok, fail or killed
    reaped,     \* the child was waited for: its pid is free again
    ends,       \* the processes that hold the write end of each pipe
    written,    \* bytes written to each pipe so far
    unread,     \* bytes in each pipe
    kept,       \* bytes each reader has retained
    stream,     \* each capture thread: none, work, flag, done or failed
    remaining,  \* OutputBudget.remaining
    exceeded,   \* OutputBudget.exceeded
    wallAt,     \* wall_deadline
    dAt,        \* d_state_deadline of the running loop
    settleAt,   \* absolute deadline of the settlement
    killSent,   \* kill_sent of terminate_and_reap
    failure,    \* the error execute aborts with, None if it does not abort
    cleanup,    \* the reserved worker: none, reserved, owns, released
    stage,      \* the output stage: none, private, receipt, published, partial, removed
    result      \* what execute returned

procVars == <<state, signalled, status, ends, written>>
ioVars == <<unread, kept, stream, remaining, exceeded>>
waitVars == <<wallAt, dAt, settleAt, killSent, failure>>
processVars == <<wall, now, phase, procVars, reaped, ioVars, waitVars, cleanup, stage, result>>

ProcessTypeOK ==
    /\ wall \in Walls /\ now \in Nat /\ phase \in Phases
    /\ state \in [Group -> {"none", "run", "D", "dead"}] /\ signalled \subseteq Group
    /\ status \in Exits \cup {None} /\ reaped \in BOOLEAN
    /\ ends \in [Pipes -> SUBSET Group]
    /\ written \in [Pipes -> Nat] /\ unread \in [Pipes -> Nat] /\ kept \in [Pipes -> Nat]
    /\ stream \in [Streams -> {"none", "work", "flag", "done", "failed"}]
    /\ remaining \in Nat /\ exceeded \in BOOLEAN
    /\ wallAt \in Nat \cup {None} /\ dAt \in Nat \cup {None} /\ settleAt \in Nat \cup {None}
    /\ killSent \in BOOLEAN
    /\ failure \in {None, "Run"}
    /\ cleanup \in {"none", "reserved", "owns", "released"}
    /\ stage \in {"none", "private", "receipt", "published", "partial", "removed"}
    /\ result \in Results \cup {None}

Alive(p) == state[p] \in {"run", "D"}
MatchingD == \E p \in Group : state[p] = "D"
StreamsFinished == \A s \in Streams : stream[s] \in {"none", "done", "failed"}

\* d_state_grace: the D-state allowance never exceeds the wall time.
Grace == IF wall # None /\ wall < DStateTimeout
         THEN IF wall < 1 THEN 1 ELSE wall
         ELSE DStateTimeout

Returned(r) == phase' = "done" /\ result' = r
Receipt(s) == [kind |-> "receipt", status |-> s]
Error(e) == [kind |-> "error", status |-> e]

-----------------------------------------------------------------------------
ProcessInit ==
    /\ wall \in Walls /\ now = 0 /\ phase = "preflight"
    /\ state = [p \in Group |-> "none"] /\ signalled = {} /\ status = None /\ reaped = FALSE
    /\ ends = [p \in Pipes |-> {}]
    /\ written = [p \in Pipes |-> 0] /\ unread = written /\ kept = written
    /\ stream = [s \in Streams |-> "none"]
    /\ remaining = Limit /\ exceeded = FALSE
    /\ wallAt = None /\ dAt = None /\ settleAt = None /\ killSent = FALSE /\ failure = None
    /\ cleanup = "none" /\ stage = "none" /\ result = None

\* A private directory of the run's root; eight taken names in a row, or an
\* error of the file system, refuse it (a Workdir error).
StageOutput == stage' = "private"

\* Mounts, capabilities and the output limit are verified, and an output
\* stage is created for a request that may write.
Preflight ==
    /\ phase = "preflight"
    /\ \/ \E e \in {"Workdir", "Capabilities", "OutputLimitMissing"} : Returned(Error(e)) /\ UNCHANGED stage
       \/ phase' = "spawn" /\ (StageOutput \/ UNCHANGED stage) /\ UNCHANGED result
    /\ UNCHANGED <<wall, now, procVars, reaped, ioVars, waitVars, cleanup>>

\* ProcessOwner::spawn: the cleanup worker is reserved before the process,
\* whose standard output and error are the write ends of two pipes.
Spawn ==
    /\ phase = "spawn"
    /\ \/ /\ Returned(Error("Spawn"))
          /\ stage' = IF stage = "private" THEN "removed" ELSE stage
          /\ UNCHANGED <<state, ends, cleanup>>
       \/ /\ phase' = "capture" /\ cleanup' = "reserved"
          /\ state' = [state EXCEPT !["child"] = "run"] /\ ends' = [p \in Pipes |-> {"child"}]
          /\ UNCHANGED <<stage, result>>
    /\ UNCHANGED <<wall, now, signalled, status, written, reaped, ioVars, waitVars>>

\* Entering terminate: an absolute cleanup deadline, a fresh D-state deadline.
StartTermination(error) ==
    /\ phase' = "terminate" /\ failure' = error
    /\ settleAt' = now + CleanupTimeout /\ dAt' = None /\ killSent' = FALSE

\* Slip: the payload is sent with a notification nobody receives.
HandoffLost == UNCHANGED cleanup

\* The resources move to the cleanup worker's slot.
Handoff == cleanup' = "owns"

\* capture: both readers, then the stdin writer if there is something to feed
\* (otherwise nothing to wait for); a missing pipe aborts, also after the
\* readers have started.  A thread that cannot be started unwinds:
\* Drop kills a child that is still there and hands everything over.
Capture ==
    /\ phase = "capture"
    /\ \/ /\ \E fed \in BOOLEAN : stream' = [s \in Streams |-> IF s \in Pipes \/ fed THEN "work" ELSE "done"]
          /\ phase' = "witness"
          /\ UNCHANGED <<waitVars, signalled, reaped, cleanup, result>>
       \/ /\ \E started \in {{}, Pipes} : stream' = [s \in Streams |-> IF s \in started THEN "work" ELSE "none"]
          /\ StartTermination("Run")
          /\ UNCHANGED <<wallAt, signalled, reaped, cleanup, result>>
       \/ /\ \E started \in {{}, {"stdout"}, Pipes} :
                stream' = [s \in Streams |-> IF s \in started THEN "work" ELSE "none"]
          /\ signalled' = IF Alive("child") THEN {p \in Group : state[p] # "none"} ELSE signalled
          /\ reaped' = ~Alive("child")
          /\ Handoff /\ Returned(Error("panic"))
          /\ UNCHANGED waitVars
    /\ UNCHANGED <<wall, now, state, status, ends, written, unread, kept, remaining, exceeded, stage>>

\* publish_host_pid_witness, then the wall deadline starts.
Witness ==
    /\ phase = "witness"
    /\ \/ /\ phase' = "wait" /\ wallAt' = IF wall = None THEN None ELSE now + wall
          /\ UNCHANGED <<dAt, settleAt, killSent, failure>>
       \/ StartTermination("Run") /\ UNCHANGED wallAt
    /\ UNCHANGED <<wall, now, procVars, reaped, ioVars, cleanup, stage, result>>

-----------------------------------------------------------------------------
\* wait_progress: what one iteration of the wait loop does.
KillRequested == exceeded \/ (wallAt # None /\ now >= wallAt)
\* Slip: every poll that sees D grants a new allowance.
DeadlineRenewed(at) == now + Grace
DeadlineOf(at) == IF at = None THEN now + Grace ELSE at
WaitProgress ==
    IF ~Alive("child") THEN "Reaped"
    ELSE IF ~KillRequested THEN "Poll"
    ELSE IF MatchingD \/ dAt # None
    THEN IF now < DeadlineOf(dAt) THEN "Poll" ELSE "Kill"
    ELSE "Kill"
DAtAfterWait == IF Alive("child") /\ KillRequested /\ MatchingD THEN DeadlineOf(dAt) ELSE dAt

\* The settlement after an ordinary exit may last until the wall deadline.
WaitReaps ==
    /\ phase = "wait" /\ WaitProgress = "Reaped"
    /\ reaped' = TRUE /\ phase' = "settle"
    /\ settleAt' = IF wallAt = None THEN now + CleanupTimeout ELSE wallAt
    /\ UNCHANGED <<wall, now, procVars, ioVars, wallAt, dAt, killSent, failure, cleanup, stage, result>>
WaitSeesD ==
    /\ phase = "wait" /\ WaitProgress = "Poll" /\ DAtAfterWait # dAt
    /\ dAt' = DAtAfterWait
    /\ UNCHANGED <<wall, now, phase, procVars, reaped, ioVars, wallAt, settleAt, killSent, failure,
                   cleanup, stage, result>>
WaitKills ==
    /\ phase = "wait" /\ WaitProgress = "Kill"
    /\ StartTermination(None)
    /\ UNCHANGED <<wall, now, procVars, reaped, ioVars, wallAt, cleanup, stage, result>>
\* try_wait fails: the process is terminated and the error returned.
WaitFails ==
    /\ phase = "wait" /\ StartTermination("Run")
    /\ UNCHANGED <<wall, now, procVars, reaped, ioVars, wallAt, cleanup, stage, result>>

\* reap_progress: what one iteration of terminate_and_reap does.
ReapProgress ==
    IF ~Alive("child") THEN "Reaped"
    ELSE IF MatchingD \/ dAt # None
    THEN IF now < DeadlineOf(dAt) THEN "Poll" ELSE IF killSent THEN "Unreaped" ELSE "Kill"
    ELSE IF ~killSent THEN "Kill"
    ELSE IF now >= settleAt THEN "Unreaped" ELSE "Poll"
DAtAfterReap == IF Alive("child") /\ MatchingD THEN DeadlineOf(dAt) ELSE dAt

\* terminate_and_reap returns; settle joins what is finished or hands over.
ReapEnds ==
    /\ phase = "terminate" /\ ReapProgress \in {"Reaped", "Unreaped"}
    /\ reaped' = (ReapProgress = "Reaped") /\ phase' = "settle"
    /\ UNCHANGED <<wall, now, procVars, ioVars, waitVars, cleanup, stage, result>>
ReapSeesD ==
    /\ phase = "terminate" /\ ReapProgress = "Poll" /\ DAtAfterReap # dAt
    /\ dAt' = DAtAfterReap
    /\ UNCHANGED <<wall, now, phase, procVars, reaped, ioVars, wallAt, settleAt, killSent, failure,
                   cleanup, stage, result>>
\* killpg(SIGKILL) on the group, whose id is the child's pid.
ReapKills ==
    /\ phase = "terminate" /\ ReapProgress = "Kill"
    /\ killSent' = TRUE /\ dAt' = DAtAfterReap
    /\ signalled' = {p \in Group : state[p] # "none"}
    /\ UNCHANGED <<wall, now, phase, state, status, ends, written, reaped, ioVars, wallAt, settleAt, failure,
                   cleanup, stage, result>>

-----------------------------------------------------------------------------
ReaderFailed == \E s \in Streams : stream[s] = "failed"
Dropped == IF stage = "private" THEN "removed" ELSE stage

\* Slip: only the wait loop looks at the budget.
CollectedUnchecked ==
    IF failure # None THEN Error(failure)
    ELSE IF ReaderFailed THEN Error("Run") ELSE Receipt(status)

\* collect, then the last look at the budget.
Collected ==
    IF failure # None THEN Error(failure)
    ELSE IF ReaderFailed THEN Error("Run")
    ELSE IF exceeded THEN Error("OutputLimitExceeded")
    ELSE Receipt(status)

\* The stage survives only in the receipt of a process that succeeded.
Settle ==
    /\ phase = "settle" /\ reaped /\ StreamsFinished
    /\ Returned(Collected)
    /\ stage' = IF Collected = Receipt("ok") /\ stage = "private" THEN "receipt" ELSE Dropped
    /\ cleanup' = "released"
    /\ UNCHANGED <<wall, now, procVars, reaped, ioVars, waitVars>>

\* Slip: the stage stays with the owner and is dropped on return.
SettleDropsStage ==
    /\ phase = "settle"
    /\ ~reaped \/ (~StreamsFinished /\ now >= settleAt)
    /\ Returned(Error(IF failure # None THEN failure ELSE "Run"))
    /\ Handoff /\ stage' = Dropped
    /\ UNCHANGED <<wall, now, procVars, reaped, ioVars, waitVars>>

\* Unsettled resources move to the reserved worker, the stage among them.
SettleHandsOver ==
    /\ phase = "settle"
    /\ ~reaped \/ (~StreamsFinished /\ now >= settleAt)
    /\ Returned(Error(IF failure # None THEN failure ELSE "Run"))
    /\ Handoff
    /\ UNCHANGED <<wall, now, procVars, reaped, ioVars, waitVars, stage>>

\* The worker waits for the child, joins the streams and drops the stage.
WorkerReaps ==
    /\ cleanup = "owns" /\ ~reaped /\ ~Alive("child")
    /\ reaped' = TRUE
    /\ UNCHANGED <<wall, now, phase, procVars, ioVars, waitVars, cleanup, stage, result>>
WorkerCollects ==
    /\ cleanup = "owns" /\ reaped /\ StreamsFinished
    /\ cleanup' = "released" /\ stage' = Dropped
    /\ UNCHANGED <<wall, now, phase, procVars, reaped, ioVars, waitVars, result>>

\* The caller commits the output of a successful receipt: every entry is
\* checked first, then renamed one by one; dropping the stage removes the rest.
CommitOutput ==
    /\ phase = "done" /\ stage = "receipt"
    /\ stage' \in {"published", "partial", "removed"}
    /\ UNCHANGED <<wall, now, phase, procVars, reaped, ioVars, waitVars, cleanup, result>>

-----------------------------------------------------------------------------
\* A reader takes what is in its pipe and retains what the budget allows; the
\* flag is raised in a second step (retain).
ReadPipe(p) ==
    /\ stream[p] = "work" /\ unread[p] > 0
    /\ LET take == IF remaining < unread[p] THEN remaining ELSE unread[p]
       IN  /\ kept' = [kept EXCEPT ![p] = @ + take]
           /\ remaining' = remaining - take
           /\ stream' = [stream EXCEPT ![p] = IF take < unread[p] THEN "flag" ELSE "work"]
    /\ unread' = [unread EXCEPT ![p] = 0]
    /\ UNCHANGED <<wall, now, phase, procVars, reaped, exceeded, waitVars, cleanup, stage, result>>
RaiseFlag(p) ==
    /\ stream[p] = "flag"
    /\ exceeded' = TRUE /\ stream' = [stream EXCEPT ![p] = "work"]
    /\ UNCHANGED <<wall, now, phase, procVars, reaped, unread, kept, remaining, waitVars, cleanup, stage, result>>

\* A reader ends at end of file, which needs every write end closed and not that
\* every process is gone, or on a read error; the stdin writer when its bytes are
\* written or the reading end is gone.
PipeEnds(p) ==
    /\ stream[p] = "work"
    /\ \/ /\ unread[p] = 0 /\ ends[p] = {}
          /\ stream' = [stream EXCEPT ![p] = "done"]
       \/ stream' = [stream EXCEPT ![p] = "failed"]
    /\ UNCHANGED <<wall, now, phase, procVars, reaped, unread, kept, remaining, exceeded, waitVars,
                   cleanup, stage, result>>
StdinEnds ==
    /\ stream["stdin"] = "work"
    /\ stream' = [stream EXCEPT !["stdin"] = "done"]
    /\ UNCHANGED <<wall, now, phase, procVars, reaped, unread, kept, remaining, exceeded, waitVars,
                   cleanup, stage, result>>

-----------------------------------------------------------------------------
\* The processes: fork, write, close or redirect an output, block in the
\* kernel, and end.  A fork shares the open ends; an end closes what is open.
\* The child's end takes the sandbox's pid namespace with it: the descendant is
\* killed too, and dies when it can.
procRest == <<wall, now, phase, reaped, kept, stream, remaining, exceeded, waitVars, cleanup, stage, result>>
Fork == /\ state["child"] = "run" /\ state["descendant"] = "none"
        /\ state' = [state EXCEPT !["descendant"] = "run"]
        /\ ends' = [p \in Pipes |-> IF "child" \in ends[p] THEN Group ELSE {}]
        /\ UNCHANGED <<procRest, signalled, status, written, unread>>
Write(p) == /\ \E q \in ends[p] : state[q] = "run" /\ q \notin signalled
            /\ written[p] < MaxWrite
            /\ written' = [written EXCEPT ![p] = @ + 1] /\ unread' = [unread EXCEPT ![p] = @ + 1]
            /\ UNCHANGED <<procRest, state, signalled, status, ends>>
Redirect(q, pipes) ==
    /\ state[q] = "run" /\ q \notin signalled /\ \A p \in pipes : q \in ends[p]
    /\ ends' = [p \in Pipes |-> IF p \in pipes THEN ends[p] \ {q} ELSE ends[p]]
    /\ UNCHANGED <<procRest, state, signalled, status, written, unread>>
EnterIO(q) == /\ state[q] = "run" /\ state' = [state EXCEPT ![q] = "D"]
              /\ UNCHANGED <<procRest, signalled, status, ends, written, unread>>
LeaveIO(q) == /\ state[q] = "D" /\ state' = [state EXCEPT ![q] = "run"]
              /\ UNCHANGED <<procRest, signalled, status, ends, written, unread>>
Exit(q) ==
    /\ state[q] = "run"
    /\ state' = [state EXCEPT ![q] = "dead"] /\ ends' = [p \in Pipes |-> ends[p] \ {q}]
    /\ status' \in IF q # "child" THEN {status}
                   ELSE IF q \in signalled THEN {"killed"} ELSE {"ok", "fail"}
    /\ signalled' = IF q = "child" /\ state["descendant"] # "none"
                    THEN signalled \cup {"descendant"} ELSE signalled
    /\ UNCHANGED <<procRest, written, unread>>

\* The clock; a poll that would do something comes first, and the phases
\* between the polls take no time.
PollDoesNothing ==
    \/ phase = "wait" /\ WaitProgress = "Poll" /\ DAtAfterWait = dAt
    \/ phase = "terminate" /\ ReapProgress = "Poll" /\ DAtAfterReap = dAt
    \/ phase = "settle" /\ reaped /\ ~StreamsFinished /\ now < settleAt
TimeMatters == phase # "wait" \/ KillRequested \/ wallAt # None
Tick ==
    /\ PollDoesNothing /\ TimeMatters /\ now < MaxTime
    /\ now' = now + 1
    /\ UNCHANGED <<wall, phase, procVars, reaped, ioVars, waitVars, cleanup, stage, result>>

Supervisor == Preflight \/ Spawn \/ Capture \/ Witness \/ WaitReaps \/ WaitSeesD \/ WaitKills
              \/ WaitFails \/ ReapEnds \/ ReapSeesD \/ ReapKills \/ Settle \/ SettleHandsOver
              \/ CommitOutput
Worker == WorkerReaps \/ WorkerCollects
Capturer == StdinEnds \/ \E p \in Pipes : ReadPipe(p) \/ RaiseFlag(p) \/ PipeEnds(p)
Kernel == Fork \/ (\E p \in Pipes : Write(p)) \/ (\E r \in Redirects : Redirect(r[1], r[2]))
          \/ \E q \in Group : EnterIO(q) \/ LeaveIO(q) \/ Exit(q)
Quiet == phase = "done" /\ UNCHANGED processVars
ProcessNext == Supervisor \/ Worker \/ Capturer \/ Kernel \/ Tick \/ Quiet

\* Fairness: the threads of this process and the clock go on.  A process does
\* whatever it likes, but one that was killed dies unless it stays in D.
ExitKilled(q) == q \in signalled /\ Exit(q)
ProcessSpec ==
    /\ ProcessInit /\ [][ProcessNext]_processVars
    /\ WF_processVars(Supervisor) /\ WF_processVars(Worker)
    /\ WF_processVars(Tick) /\ WF_processVars(StdinEnds)
    /\ \A p \in Pipes : WF_processVars(ReadPipe(p) \/ RaiseFlag(p) \/ PipeEnds(p))
    /\ \A q \in Group : WF_processVars(ExitKilled(q))

-----------------------------------------------------------------------------
\* A receipt is a whole account of the child: it was reaped, every byte its
\* group wrote is in the captured output, whichever reader raised the budget's
\* flag after the child was gone, and output is only published for a child that
\* exited with success.  The descendant may outlive the receipt, having closed
\* or redirected its output, but it has been killed and writes nothing more.
ReceiptIsWhole ==
    /\ phase = "done" /\ result.kind = "receipt" =>
          /\ reaped /\ kept = written
          /\ \A q \in Group : Alive(q) => q \in signalled /\ \A p \in Pipes : q \notin ends[p]
    /\ stage \in {"receipt", "published", "partial"} => result = Receipt("ok")

\* Once a process was spawned, its stage is removed only after the child was
\* reaped and every capture thread has ended, whoever owns the stage by then.  (A
\* killed descendant without its pipes may still be dying.)
StageOutlivesWriters ==
    stage = "removed" /\ cleanup # "none" => reaped /\ StreamsFinished

\* With a wall time, the execution is over after the wall time, two D-state
\* allowances and the cleanup timeout, even if a process never leaves D.
ReturnsInTime ==
    wall # None => now <= wall + 2 * Grace + CleanupTimeout

\* When all processes have died, everything they left is released: the child
\* is reaped, the streams joined, and the stage removed or with the caller.
EverythingReleased ==
    (phase = "done" /\ cleanup # "none" /\ \A q \in Group : ~Alive(q))
        ~> (reaped /\ cleanup = "released" /\ stage # "private")
=============================================================================
