----------------------------- MODULE Supervisor -----------------------------
(***************************************************************************)
(* The agent's process supervisor (deepfence_bootstrapper/supervisor): one *)
(* process that is restarted automatically, and the calls that start,      *)
(* stop and upgrade it.                                                    *)
(*                                                                         *)
(* Every start() makes new channels and a goroutine of its own that runs   *)
(* the restart loop; the loops are numbered by run.  ph.kill and ph.wait   *)
(* are those of the last start.  The channels are unbuffered: a send and   *)
(* its receive are one step, and a goroutine without a partner waits.      *)
(***************************************************************************)
EXTENDS Naturals, FiniteSets

CONSTANTS
    Caller,        \* goroutines that call the supervisor
    None,
    ShortRetries,  \* short runs in a row before the loop gives up (5)
    MaxCalls       \* bound: calls made

ASSUME SupervisorAssumption ==
    /\ ShortRetries \in Nat \ {0}
    /\ MaxCalls \in Nat
    /\ None \notin Caller

Run == 1..MaxCalls

VARIABLES
    started,    \* ph.started
    run,        \* the last start(): the run that ph.kill and ph.wait belong to
    loop,       \* loop[r]: where the restart loop of run r is
    retries,    \* retries[r]: its shortRetries
    proc,       \* proc[r]: its operating system process
    waiter,     \* waiter[r]: the goroutine that waits for the process
    gaveUp,     \* runs whose loop ended although nobody stopped it
    lock,       \* who holds ph.access
    op,         \* op[c]: what caller c is doing
    pc,         \* pc[c]: where it is
    target,     \* target[c]: the run whose stop or ackstop caller c is at
    calls,      \* calls made
    shutdown    \* StopAllProcesses has been called

loopVars == <<loop, retries, proc, waiter, gaveUp>>
callVars == <<lock, op, pc, target>>
vars == <<started, run, loopVars, callVars, calls, shutdown>>

Init ==
    /\ started = FALSE
    /\ run = 0
    /\ loop = [r \in Run |-> "none"]
    /\ retries = [r \in Run |-> ShortRetries]
    /\ proc = [r \in Run |-> "none"]
    /\ waiter = [r \in Run |-> "none"]
    /\ gaveUp = {}
    /\ lock = None
    /\ op = [c \in Caller |-> None]
    /\ pc = [c \in Caller |-> "idle"]
    /\ target = [c \in Caller |-> None]
    /\ calls = 0
    /\ shutdown = FALSE

-----------------------------------------------------------------------------
(* Calls *)

\* StartProcess, StopProcess, UpgradeProcessFromFile and UpgradeProcessFromURL
\* lock the process, ...
Begin(c, o) ==
    /\ pc[c] = "idle"
    /\ calls < MaxCalls
    /\ calls' = calls + 1
    /\ op' = [op EXCEPT ![c] = o]
    /\ pc' = [pc EXCEPT ![c] = "lock"]
    /\ UNCHANGED <<started, run, loopVars, lock, target, shutdown>>

\* ... StopAllProcesses does not.
BeginStopAll(c) ==
    /\ pc[c] = "idle"
    /\ calls < MaxCalls
    /\ calls' = calls + 1
    /\ op' = [op EXCEPT ![c] = "stopAll"]
    /\ pc' = [pc EXCEPT ![c] = "check"]
    /\ shutdown' = TRUE
    /\ UNCHANGED <<started, run, loopVars, lock, target>>

Lock(c) ==
    /\ pc[c] = "lock"
    /\ lock = None
    /\ lock' = c
    /\ pc' = [pc EXCEPT ![c] = "check"]
    /\ UNCHANGED <<started, run, loopVars, op, target, calls, shutdown>>

\* Bug: a return without access.Unlock().
ReturnLocked(c) ==
    /\ pc' = [pc EXCEPT ![c] = "idle"]
    /\ op' = [op EXCEPT ![c] = None]
    /\ target' = [target EXCEPT ![c] = None]
    /\ UNCHANGED lock

\* The deferred access.Unlock() of the calls that locked.
Return(c) ==
    /\ pc' = [pc EXCEPT ![c] = "idle"]
    /\ op' = [op EXCEPT ![c] = None]
    /\ target' = [target EXCEPT ![c] = None]
    /\ lock' = IF lock = c THEN None ELSE lock

\* if ph.started { return ErrAlreadyRunning }
Starts == started = FALSE

\* procHandler.start
StartLoop ==
    IF Starts
    THEN /\ run' = run + 1
         /\ loop' = [loop EXCEPT ![run + 1] = "start"]
         /\ started' = TRUE
    ELSE UNCHANGED <<run, loop, started>>

\* The check of ph.started, and what follows when there is nothing to stop: a
\* start, the new binary of an upgrade, or an error.
Check(c) ==
    /\ pc[c] = "check"
    /\ IF op[c] = "start"
       THEN StartLoop /\ Return(c)
       ELSE /\ UNCHANGED <<started, run, loop>>
            /\ IF started = TRUE
               THEN pc' = [pc EXCEPT ![c] = "kill"] /\ UNCHANGED <<lock, op, target>>
               ELSE Return(c)
    /\ UNCHANGED <<retries, proc, waiter, gaveUp, calls, shutdown>>

\* stop() looks at ph.started once more: the loop may have given up since.  It
\* then stops nothing; an upgrade goes on as after a stop.
StopsNothing(c) ==
    /\ pc[c] = "kill" /\ target[c] = None
    /\ op[c] # "stopAll"
    /\ started = FALSE
    /\ \/ op[c] = "upgrade" /\ StartLoop
       \/ UNCHANGED <<started, run, loop>>
    /\ Return(c)
    /\ UNCHANGED <<retries, proc, waiter, gaveUp, calls, shutdown>>

\* ph.kill and ph.wait are read as they are at that moment.
Read(c) ==
    /\ pc[c] \in {"kill", "wait"} /\ target[c] = None
    /\ target' = [target EXCEPT ![c] = run]
    /\ UNCHANGED <<started, run, loopVars, lock, op, pc, calls, shutdown>>

\* ph.kill(): the restart loop takes the stop from its select and sends
\* SIGTERM; ph.started = false.
Kill(c) ==
    /\ pc[c] = "kill" /\ target[c] # None
    /\ loop[target[c]] = "select"
    /\ loop' = [loop EXCEPT ![target[c]] = "drain"]
    /\ started' = FALSE
    /\ pc' = [pc EXCEPT ![c] = "wait"]
    /\ target' = [target EXCEPT ![c] = None]
    /\ UNCHANGED <<run, retries, proc, waiter, gaveUp, lock, op, calls, shutdown>>

\* <-ackstop.  An upgrade writes the binary, which may fail, and starts the
\* process again unless the supervisor is to restart itself.
Acknowledge(c) ==
    /\ pc[c] = "wait" /\ target[c] # None
    /\ loop[target[c]] = "ack"
    /\ \/ /\ op[c] = "upgrade" /\ Starts
          /\ run' = run + 1
          /\ loop' = [loop EXCEPT ![target[c]] = "ended", ![run + 1] = "start"]
          /\ started' = TRUE
       \/ /\ loop' = [loop EXCEPT ![target[c]] = "ended"]
          /\ UNCHANGED <<run, started>>
    /\ Return(c)
    /\ UNCHANGED <<retries, proc, waiter, gaveUp, calls, shutdown>>

-----------------------------------------------------------------------------
(* The restart loop of run r *)

\* cmd.Start, and the goroutine that waits for the process.
LoopStart(r) ==
    /\ loop[r] = "start"
    /\ loop' = [loop EXCEPT ![r] = "select"]
    /\ proc' = [proc EXCEPT ![r] = "running"]
    /\ waiter' = [waiter EXCEPT ![r] = "cmdWait"]
    /\ UNCHANGED <<started, run, retries, gaveUp, callVars, calls, shutdown>>

\* cmd.Start fails: the loop ends.
LoopStartFails(r) ==
    /\ loop[r] = "start"
    /\ loop' = [loop EXCEPT ![r] = "drain"]
    /\ gaveUp' = gaveUp \cup {r}
    /\ UNCHANGED <<started, run, retries, proc, waiter, callVars, calls, shutdown>>

\* The process exits by itself or because of the signal; bash exits with 127
\* when the command is not found.
Exit(r) ==
    /\ proc[r] = "running"
    /\ proc' = [proc EXCEPT ![r] = "exited"]
    /\ \E sends \in {"sendFalse", "sendTrue"} : waiter' = [waiter EXCEPT ![r] = sends]
    /\ UNCHANGED <<started, run, loop, retries, gaveUp, callVars, calls, shutdown>>

\* Command not found: done <- false ends the loop.
LoopNotFound(r) ==
    /\ loop[r] = "select" /\ waiter[r] = "sendFalse"
    /\ loop' = [loop EXCEPT ![r] = "drain"]
    /\ waiter' = [waiter EXCEPT ![r] = "sendTrue"]
    /\ gaveUp' = gaveUp \cup {r}
    /\ UNCHANGED <<started, run, retries, proc, callVars, calls, shutdown>>

\* done <- true after a run of more than five seconds: the process is started
\* again, after a pause.
LoopRestartLong(r) ==
    /\ loop[r] = "select" /\ waiter[r] = "sendTrue"
    /\ waiter' = [waiter EXCEPT ![r] = "none"]
    /\ retries' = [retries EXCEPT ![r] = ShortRetries]
    /\ loop' = [loop EXCEPT ![r] = "start"]
    /\ UNCHANGED <<started, run, proc, gaveUp, callVars, calls, shutdown>>

\* The same after a short run, unless it keeps crashing: then the process is
\* marked as stopped and the loop ends.
LoopRestartShort(r) ==
    /\ loop[r] = "select" /\ waiter[r] = "sendTrue"
    /\ waiter' = [waiter EXCEPT ![r] = "none"]
    /\ retries' = [retries EXCEPT ![r] = @ - 1]
    /\ IF retries[r] = 1
       THEN /\ loop' = [loop EXCEPT ![r] = "drain"]
            /\ started' = FALSE
            /\ gaveUp' = gaveUp \cup {r}
       ELSE /\ loop' = [loop EXCEPT ![r] = "start"]
            /\ UNCHANGED <<started, gaveUp>>
    /\ UNCHANGED <<run, proc, callVars, calls, shutdown>>

\* Bug: the loop acknowledges a stop without waiting for the process.
DrainAtOnce(r) ==
    /\ loop[r] = "drain"
    /\ loop' = [loop EXCEPT ![r] = "ack"]
    /\ UNCHANGED <<started, run, retries, proc, waiter, gaveUp, callVars, calls, shutdown>>

\* Bug: the loop ends without the acknowledgement.
DrainUnacknowledged(r) ==
    /\ loop[r] = "drain"
    /\ waiter[r] \in {"sendFalse", "sendTrue"}
    /\ loop' = [loop EXCEPT ![r] = "ended"]
    /\ waiter' = [waiter EXCEPT ![r] = IF @ = "sendFalse" THEN "sendTrue" ELSE "none"]
    /\ UNCHANGED <<started, run, retries, proc, gaveUp, callVars, calls, shutdown>>

\* <-done after the loop.
Drain(r) ==
    /\ loop[r] = "drain"
    /\ waiter[r] \in {"sendFalse", "sendTrue"}
    /\ loop' = [loop EXCEPT ![r] = "ack"]
    /\ waiter' = [waiter EXCEPT ![r] = IF @ = "sendFalse" THEN "sendTrue" ELSE "none"]
    /\ UNCHANGED <<started, run, retries, proc, gaveUp, callVars, calls, shutdown>>

-----------------------------------------------------------------------------

Next ==
    \/ \E c \in Caller :
        \/ \E o \in {"start", "stop", "upgrade"} : Begin(c, o)
        \/ BeginStopAll(c)
        \/ Lock(c) \/ Check(c) \/ StopsNothing(c) \/ Read(c) \/ Kill(c)
        \/ Acknowledge(c)
    \/ \E r \in Run :
        \/ LoopStart(r) \/ LoopStartFails(r) \/ Exit(r) \/ LoopNotFound(r)
        \/ LoopRestartLong(r) \/ LoopRestartShort(r) \/ Drain(r)

LoopStep(r) ==
    \/ LoopStart(r) \/ LoopStartFails(r) \/ LoopNotFound(r)
    \/ LoopRestartLong(r) \/ LoopRestartShort(r) \/ Drain(r)

\* Goroutines run, mutexes are granted in turn, a select that can take a stop
\* does so in the end, and a process that has been sent SIGTERM exits.
Fairness ==
    /\ \A c \in Caller : /\ SF_vars(Lock(c)) /\ SF_vars(Kill(c))
                         /\ WF_vars(Check(c)) /\ WF_vars(Read(c))
                         /\ WF_vars(Acknowledge(c))
    /\ \A r \in Run : /\ WF_vars(LoopStep(r))
                      /\ WF_vars(Exit(r) /\ loop[r] = "drain")

Spec == Init /\ [][Next]_vars
FairSpec == Spec /\ Fairness

-----------------------------------------------------------------------------
(* Properties *)

Running == {r \in Run : proc[r] = "running"}

FlagsOK == started \in BOOLEAN /\ shutdown \in BOOLEAN

LoopsOK ==
    /\ run \in 0..MaxCalls
    /\ loop \in [Run -> {"none", "start", "select", "drain", "ack", "ended"}]
    /\ \A r \in Run : (loop[r] = "none") <=> (r > run)
    /\ retries \in [Run -> 0..ShortRetries]
    /\ proc \in [Run -> {"none", "running", "exited"}]
    /\ waiter \in [Run -> {"none", "cmdWait", "sendFalse", "sendTrue"}]
    /\ gaveUp \subseteq 1..run

CallsOK ==
    /\ lock \in Caller \cup {None}
    /\ op \in [Caller -> {"start", "stop", "upgrade", "stopAll", None}]
    /\ pc \in [Caller -> {"idle", "lock", "check", "kill", "wait"}]
    /\ lock # None => pc[lock] \in {"check", "kill", "wait"} /\ op[lock] # "stopAll"
    /\ target \in [Caller -> Run \cup {None}]
    /\ calls \in 0..MaxCalls

\* Every variable has its type; the loops are those of the runs so far, and
\* the mutex is held by a caller that is past its Lock call.
TypeOK == FlagsOK /\ LoopsOK /\ CallsOK

\* Two copies of the process never run at a time, whatever starts, stops,
\* upgrades, crashes and restarts come together, as long as StopAllProcesses,
\* which takes no lock, has not been called.
OneProcess == shutdown = FALSE => \A q, r \in Running : q = r

\* The lock is given back: a call returns unless the loop of the last start ended
\* by itself, or StopAllProcesses has interfered.
CallsReturn ==
    \A c \in Caller :
        pc[c] # "idle" ~> (pc[c] = "idle" \/ run \in gaveUp \/ shutdown)
=============================================================================
