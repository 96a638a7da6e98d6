------------------------- MODULE Supervisor_proofs -------------------------
(***************************************************************************)
(* Theorems about Supervisor for any number of callers, calls and retries. *)
(*                                                                         *)
(* OneProcess is not inductive.  It needs what the mutex guards (Guarded:  *)
(* one call at a time is past its Lock, and it looks at the last run) and  *)
(* what ph.started tells about the restart loops (Superseded: only the     *)
(* last loop may start a process, and when ph.started is false it will     *)
(* not, and its process is gone unless a call waits for it).               *)
(***************************************************************************)
EXTENDS Supervisor, FiniteSetTheorems, TLAPS

Busy == {c \in Caller : pc[c] # "idle"}

\* Every call starts at most one loop.
Counted == IsFiniteSet(Busy) /\ run + Cardinality(Busy) <= calls

\* There is a run to stop for whoever has found ph.started set.
Stoppable ==
    /\ started = TRUE => run >= 1
    /\ \A c \in Caller : pc[c] \in {"kill", "wait"} => run >= 1
    /\ \A c \in Caller : pc[c] = "lock" => op[c] # "stopAll"

\* A process is followed by a waiting goroutine and a loop that selects or
\* drains.
Followed ==
    \A r \in Run :
        /\ loop[r] \in {"none", "start", "select"} => retries[r] >= 1
        /\ proc[r] = "running" => waiter[r] = "cmdWait" /\ loop[r] \in {"select", "drain"}

\* One call at a time is past its Lock.
Guarded ==
    \A c \in Caller :
        /\ pc[c] # "idle" => op[c] # "stopAll"
        /\ pc[c] \in {"check", "kill", "wait"} => lock = c
        /\ target[c] # None => target[c] = run /\ pc[c] \in {"kill", "wait"}

\* Loops before the last one have no process and start none; nor does the
\* last one when ph.started is false, unless a call waits for its process.
Superseded ==
    \A r \in Run :
        /\ r < run => loop[r] \notin {"start", "select"} /\ proc[r] # "running"
        /\ r = run /\ started = FALSE =>
              /\ loop[r] \notin {"start", "select"}
              /\ proc[r] = "running" => \E c \in Caller : pc[c] = "wait"

IInv ==
    /\ TypeOK /\ Counted /\ Stoppable /\ Followed
    /\ shutdown = FALSE => Guarded /\ Superseded

USE SupervisorAssumption

LEMMA InitIInv == Init => IInv
<1> SUFFICES ASSUME Init PROVE IInv
  OBVIOUS
<1>1. Busy = {}
  BY DEF Init, Busy
<1>2. Counted
  BY <1>1, FS_EmptySet DEF Counted, Init
<1>3. FlagsOK
  BY DEF Init, FlagsOK
<1>4. LoopsOK /\ CallsOK
  BY DEF Init, LoopsOK, CallsOK, Run
<1> QED
  BY <1>2, <1>3, <1>4
     DEF Init, IInv, TypeOK, Run, Stoppable, Followed, Guarded, Superseded

\* A call that begins or returns changes the number of busy callers by one.
LEMMA BusyGrows ==
  ASSUME TypeOK, Counted, NEW c \in Caller, pc[c] = "idle",
         NEW p \in {"lock", "check"}, pc' = [pc EXCEPT ![c] = p],
         calls' = calls + 1, run' = run
  PROVE  Counted'
<1>1. Busy' = Busy \cup {c} /\ c \notin Busy
  BY DEF Busy, TypeOK, CallsOK
<1>2. IsFiniteSet(Busy') /\ Cardinality(Busy') = Cardinality(Busy) + 1
  BY <1>1, FS_AddElement DEF Counted
<1> QED
  BY <1>2, FS_CardinalityType DEF Counted, TypeOK, LoopsOK, CallsOK

LEMMA BusyShrinks ==
  ASSUME TypeOK, Counted, NEW c \in Caller, pc[c] # "idle",
         pc' = [pc EXCEPT ![c] = "idle"],
         calls' = calls, run' \in {run, run + 1}
  PROVE  Counted'
<1>1. Busy' = Busy \ {c} /\ c \in Busy
  BY DEF Busy, TypeOK, CallsOK
<1>2. IsFiniteSet(Busy') /\ Cardinality(Busy') = Cardinality(Busy) - 1
  BY <1>1, FS_RemoveElement DEF Counted
<1>3. Cardinality(Busy) \in Nat
  BY FS_CardinalityType DEF Counted
<1> QED
  BY <1>2, <1>3 DEF Counted, TypeOK, LoopsOK, CallsOK

LEMMA BusyStays ==
  ASSUME TypeOK, Counted, run' = run, calls' = calls,
         \A c \in Caller : (pc[c] # "idle") <=> (pc'[c] # "idle")
  PROVE  Counted'
<1>1. Busy' = Busy
  BY DEF Busy
<1> QED
  BY <1>1 DEF Counted

\* A busy caller leaves room for another run.
LEMMA Room ==
  ASSUME TypeOK, Counted, NEW c \in Caller, pc[c] # "idle"
  PROVE  run + 1 \in Run /\ run + 1 <= MaxCalls
<1>1. c \in Busy
  BY DEF Busy
<1>2. Cardinality(Busy) \in Nat /\ Cardinality(Busy) # 0
  BY <1>1, FS_CardinalityType, FS_EmptySet DEF Counted
<1> QED
  BY <1>2 DEF Counted, TypeOK, LoopsOK, CallsOK, Run

LEMMA FlagsStep ==
  ASSUME TypeOK, [Next]_vars
  PROVE  FlagsOK'
<1> USE DEF TypeOK, FlagsOK
<1>1. ASSUME NEW c \in Caller, NEW o, Begin(c, o) PROVE FlagsOK'
  BY <1>1 DEF Begin
<1>2. ASSUME NEW c \in Caller, BeginStopAll(c) \/ Lock(c) \/ Read(c) \/ Kill(c)
      PROVE FlagsOK'
  BY <1>2 DEF BeginStopAll, Lock, Read, Kill
<1>3. ASSUME NEW c \in Caller, Check(c) \/ StopsNothing(c) PROVE FlagsOK'
  BY <1>3 DEF Check, StopsNothing, StartLoop
<1>4. ASSUME NEW c \in Caller, Acknowledge(c) PROVE FlagsOK'
  BY <1>4 DEF Acknowledge
<1>5. ASSUME NEW r \in Run, LoopStart(r) \/ LoopStartFails(r) \/ Exit(r)
                             \/ LoopNotFound(r) \/ LoopRestartLong(r) \/ Drain(r)
      PROVE FlagsOK'
  BY <1>5 DEF LoopStart, LoopStartFails, Exit, LoopNotFound, LoopRestartLong, Drain
<1>6. ASSUME NEW r \in Run, LoopRestartShort(r) PROVE FlagsOK'
  BY <1>6 DEF LoopRestartShort
<1>7. CASE UNCHANGED vars
  BY <1>7 DEF vars
<1> QED
  BY <1>1, <1>2, <1>3, <1>4, <1>5, <1>6, <1>7 DEF Next

\* What a step has to re-establish beside FlagsOK and Counted.
Rest ==
    /\ LoopsOK /\ CallsOK /\ Stoppable /\ Followed
    /\ shutdown = FALSE => Guarded /\ Superseded

LEMMA BeginStep ==
  ASSUME IInv, NEW c \in Caller, NEW o \in {"start", "stop", "upgrade"}, Begin(c, o)
  PROVE  Counted' /\ Rest'
<1> USE DEF IInv, TypeOK, Begin, loopVars
<1>1. Counted'
  BY BusyGrows
<1>2. LoopsOK' /\ Followed'
  BY DEF LoopsOK, Followed
<1>3. CallsOK' /\ Stoppable'
  BY DEF CallsOK, Stoppable
<1>4. ASSUME shutdown' = FALSE PROVE Guarded' /\ Superseded'
  BY <1>4 DEF CallsOK, Guarded, Superseded
<1> QED
  BY <1>1, <1>2, <1>3, <1>4 DEF Rest

LEMMA BeginStopAllStep ==
  ASSUME IInv, NEW c \in Caller, BeginStopAll(c)
  PROVE  Counted' /\ Rest'
<1> USE DEF IInv, TypeOK, BeginStopAll, loopVars
<1>1. Counted'
  BY BusyGrows
<1>2. LoopsOK' /\ Followed'
  BY DEF LoopsOK, Followed
<1>3. CallsOK' /\ Stoppable'
  BY DEF CallsOK, Stoppable
<1> QED
  BY <1>1, <1>2, <1>3 DEF Rest

LEMMA LockStep ==
  ASSUME IInv, NEW c \in Caller, Lock(c)
  PROVE  Counted' /\ Rest'
<1> USE DEF IInv, TypeOK, Lock, loopVars
<1>1. Counted'
  BY BusyStays DEF CallsOK
<1>2. LoopsOK' /\ Followed'
  BY DEF LoopsOK, Followed
<1>3. CallsOK' /\ Stoppable'
  BY DEF CallsOK, Stoppable
<1>4. ASSUME shutdown' = FALSE PROVE Guarded' /\ Superseded'
  <2>1. Guarded'
    BY <1>4 DEF CallsOK, Guarded
  <2>2. Superseded'
    BY <1>4 DEF CallsOK, Superseded
  <2> QED
    BY <2>1, <2>2
<1> QED
  BY <1>1, <1>2, <1>3, <1>4 DEF Rest

\* A new run in the same step as the end of run r, which a call waited for.
LEMMA NewRun ==
  ASSUME IInv, run + 1 \in Run, run' = run + 1,
         NEW r \in Run, loop' = [loop EXCEPT ![r] = "ended", ![run + 1] = "start"],
         r <= run, loop[r] = "ack",
         UNCHANGED <<retries, proc, waiter, gaveUp>>
  PROVE  LoopsOK' /\ Followed'
<1> USE DEF IInv, TypeOK, LoopsOK
<1>1. /\ run \in Nat /\ r # run + 1
      /\ loop' \in [Run -> {"none", "start", "select", "drain", "ack", "ended"}]
  BY DEF Run
<1>2. \A q \in Run : loop'[q] = IF q = run + 1 THEN "start"
                                ELSE IF q = r THEN "ended" ELSE loop[q]
  BY <1>1
<1>3. \A q \in Run : q \in Nat /\ (q > run + 1 <=> q > run /\ q # run + 1)
  BY <1>1 DEF Run
<1>4. \A q \in Run : (loop'[q] = "none") <=> (q > run')
  BY <1>1, <1>2, <1>3
<1>5. run' \in 0..MaxCalls /\ gaveUp' \subseteq 1..run'
  BY DEF Run
<1>6. Followed'
  BY <1>1, <1>2, <1>3 DEF Followed
<1> QED
  BY <1>1, <1>4, <1>5, <1>6

\* A call past its Lock that starts the process and returns.
LEMMA StartsRun ==
  ASSUME IInv, NEW c \in Caller, pc[c] \in {"check", "kill"}, started = FALSE,
         StartLoop, Return(c),
         UNCHANGED <<retries, proc, waiter, gaveUp, calls, shutdown>>
  PROVE  Counted' /\ Rest'
<1> USE DEF IInv, TypeOK, StartLoop, Starts, Return
<1>1. run + 1 \in Run
  BY Room
<1>2. Counted'
  BY BusyShrinks
<1>3. LoopsOK' /\ Followed'
  BY <1>1 DEF LoopsOK, Followed, Run
<1>4. CallsOK'
  BY DEF CallsOK
<1>5. Stoppable'
  BY DEF CallsOK, LoopsOK, Stoppable
<1>6. ASSUME shutdown' = FALSE PROVE Guarded' /\ Superseded'
  <2>1. lock = c /\ \A d \in Caller : d # c => pc[d] \in {"idle", "lock"}
    BY <1>6 DEF Guarded, CallsOK
  <2>2. Guarded'
    BY <1>6, <2>1 DEF Guarded, CallsOK
  <2>3. \A d \in Caller : pc[d] # "wait"
    BY <2>1
  <2>4. \A r \in Run : r <= run => loop[r] \notin {"start", "select"} /\ proc[r] # "running"
    <3>1. Superseded
      BY <1>6
    <3>2. \A r \in Run : r <= run => r < run \/ r = run
      BY DEF LoopsOK, Run
    <3> QED
      BY <2>3, <3>1, <3>2 DEF Superseded
  <2>5. \A r \in Run : r < run + 1 => r <= run /\ r # run + 1
    BY DEF LoopsOK, Run
  <2>6. run' = run + 1 /\ started' = TRUE /\ loop' = [loop EXCEPT ![run + 1] = "start"]
    OBVIOUS
  <2>7. \A r \in Run : r < run + 1 => /\ loop'[r] \notin {"start", "select"}
                                      /\ proc[r] # "running"
    BY <1>1, <2>4, <2>5, <2>6 DEF LoopsOK
  <2>8. Superseded'
    BY <2>5, <2>6, <2>7 DEF Superseded
  <2> QED
    BY <2>2, <2>8
<1> QED
  BY <1>2, <1>3, <1>4, <1>5, <1>6 DEF Rest

\* A call past its Lock that returns without having changed anything.
LEMMA JustReturns ==
  ASSUME IInv, NEW c \in Caller, pc[c] \in {"check", "kill"}, Return(c),
         UNCHANGED <<started, run, loop, retries, proc, waiter, gaveUp, calls, shutdown>>
  PROVE  Counted' /\ Rest'
<1> USE DEF IInv, TypeOK, Return
<1>1. Counted'
  BY BusyShrinks
<1>2. LoopsOK' /\ Followed'
  BY DEF LoopsOK, Followed
<1>3. CallsOK' /\ Stoppable'
  BY DEF CallsOK, Stoppable
<1>4. ASSUME shutdown' = FALSE PROVE Guarded' /\ Superseded'
  <2>1. Guarded'
    BY <1>4 DEF Guarded, CallsOK
  <2>2. Superseded'
    BY <1>4 DEF Superseded, CallsOK
  <2> QED
    BY <2>1, <2>2
<1> QED
  BY <1>1, <1>2, <1>3, <1>4 DEF Rest

LEMMA CheckStep ==
  ASSUME IInv, NEW c \in Caller, Check(c)
  PROVE  Counted' /\ Rest'
<1> USE DEF Check
<1>1. started = TRUE \/ started = FALSE
  BY DEF IInv, TypeOK, FlagsOK
<1>2. CASE op[c] = "start" /\ started = FALSE
  BY <1>2, StartsRun
<1>3. CASE (op[c] = "start" /\ started = TRUE) \/ (op[c] # "start" /\ started = FALSE)
  <2>1. /\ Return(c)
        /\ UNCHANGED <<started, run, loop, retries, proc, waiter, gaveUp, calls, shutdown>>
    BY <1>3 DEF StartLoop, Starts
  <2> QED
    BY <2>1, JustReturns
<1>4. CASE op[c] # "start" /\ started = TRUE
  <2> USE DEF IInv, TypeOK
  <2>2. Counted'
    BY <1>4, BusyStays DEF CallsOK
  <2>3. LoopsOK' /\ Followed'
    BY <1>4 DEF LoopsOK, Followed
  <2>4. CallsOK' /\ Stoppable'
    BY <1>4 DEF CallsOK, Stoppable
  <2>5. ASSUME shutdown' = FALSE PROVE Guarded' /\ Superseded'
    <3>1. Guarded'
      BY <1>4, <2>5 DEF Guarded, CallsOK
    <3>2. Superseded'
      BY <1>4, <2>5 DEF Superseded, CallsOK
    <3> QED
      BY <3>1, <3>2
  <2> QED
    BY <2>2, <2>3, <2>4, <2>5 DEF Rest
<1> QED
  BY <1>1, <1>2, <1>3, <1>4

LEMMA StopsNothingStep ==
  ASSUME IInv, NEW c \in Caller, StopsNothing(c)
  PROVE  Counted' /\ Rest'
<1> USE DEF StopsNothing
<1>1. CASE StartLoop
  BY <1>1, StartsRun
<1>2. CASE UNCHANGED <<started, run, loop>>
  BY <1>2, JustReturns
<1> QED
  BY <1>1, <1>2

LEMMA ReadStep ==
  ASSUME IInv, NEW c \in Caller, Read(c)
  PROVE  Counted' /\ Rest'
<1> USE DEF IInv, TypeOK, Read, loopVars
<1>1. Counted'
  BY BusyStays DEF CallsOK
<1>2. LoopsOK' /\ Followed'
  BY DEF LoopsOK, Followed
<1>3. run \in Run
  BY DEF Stoppable, LoopsOK, Run
<1>4. CallsOK' /\ Stoppable'
  BY <1>3 DEF CallsOK, Stoppable
<1>5. ASSUME shutdown' = FALSE PROVE Guarded' /\ Superseded'
  BY <1>5 DEF CallsOK, Guarded, Superseded
<1> QED
  BY <1>1, <1>2, <1>4, <1>5 DEF Rest

LEMMA KillStep ==
  ASSUME IInv, NEW c \in Caller, Kill(c)
  PROVE  Counted' /\ Rest'
<1> USE DEF IInv, TypeOK, Kill
<1>1. Counted'
  BY BusyStays DEF CallsOK
<1>2. target[c] \in Run
  BY DEF CallsOK
<1>3. LoopsOK' /\ Followed'
  BY <1>2 DEF LoopsOK, Followed
<1>4. CallsOK' /\ Stoppable'
  BY DEF CallsOK, Stoppable
<1>5. ASSUME shutdown' = FALSE PROVE Guarded' /\ Superseded'
  <2>1. target[c] = run
    BY <1>5 DEF Guarded
  <2>2. Guarded'
    BY <1>5 DEF Guarded, CallsOK
  <2>3. Superseded'
    BY <1>2, <1>5, <2>1 DEF Superseded, CallsOK, LoopsOK
  <2> QED
    BY <2>2, <2>3
<1> QED
  BY <1>1, <1>3, <1>4, <1>5 DEF Rest

LEMMA AcknowledgeStep ==
  ASSUME IInv, NEW c \in Caller, Acknowledge(c)
  PROVE  Counted' /\ Rest'
<1> USE DEF IInv, TypeOK, Acknowledge, Return
<1>1. target[c] \in Run /\ target[c] <= run
  BY DEF CallsOK, LoopsOK, Run
<1>2. run + 1 \in Run
  BY Room
<1>3. Counted'
  BY BusyShrinks
<1>4. CallsOK'
  BY DEF CallsOK
<1>5. ASSUME shutdown' = FALSE PROVE /\ target[c] = run /\ lock = c
                                     /\ \A d \in Caller : d # c => pc[d] \in {"idle", "lock"}
  BY <1>5 DEF Guarded, CallsOK
<1>6. ASSUME shutdown' = FALSE PROVE Guarded'
  BY <1>5, <1>6 DEF Guarded, CallsOK
<1>7. CASE /\ run' = run + 1 /\ started' = TRUE
           /\ loop' = [loop EXCEPT ![target[c]] = "ended", ![run + 1] = "start"]
  <2>1. LoopsOK' /\ Followed'
    BY <1>1, <1>2, <1>7, NewRun
  <2>2. Stoppable'
    BY <1>7 DEF CallsOK, LoopsOK, Stoppable
  <2>3. ASSUME shutdown' = FALSE PROVE Superseded'
    <3>1. \A r \in Run : r < run + 1 => (r < run \/ r = run) /\ r # run + 1
      BY DEF LoopsOK, Run
    <3>2. \A r \in Run : r < run + 1 => /\ loop'[r] \notin {"start", "select"}
                                        /\ proc[r] # "running"
      BY <1>1, <1>2, <1>5, <1>7, <2>3, <3>1 DEF Superseded, Followed, LoopsOK
    <3> QED
      BY <1>7, <3>2, <3>1 DEF Superseded, LoopsOK
  <2> QED
    BY <1>3, <1>4, <1>6, <2>1, <2>2, <2>3 DEF Rest
<1>8. CASE /\ loop' = [loop EXCEPT ![target[c]] = "ended"]
           /\ UNCHANGED <<run, started>>
  <2>1. LoopsOK' /\ Followed'
    BY <1>1, <1>8 DEF LoopsOK, Followed
  <2>2. Stoppable'
    BY <1>8 DEF CallsOK, Stoppable
  <2>3. ASSUME shutdown' = FALSE PROVE Superseded'
    BY <1>1, <1>5, <1>8, <2>3 DEF Superseded, Followed, LoopsOK, Run
  <2> QED
    BY <1>3, <1>4, <1>6, <2>1, <2>2, <2>3 DEF Rest
<1> QED
  BY <1>7, <1>8

\* What the steps of a restart loop leave alone.
LEMMA LoopFrame ==
  ASSUME IInv, UNCHANGED <<run, callVars, calls, shutdown>>, started' \in {started, FALSE}
  PROVE  /\ Counted' /\ CallsOK' /\ Stoppable'
         /\ Guarded => Guarded'
<1> USE DEF IInv, TypeOK, callVars
<1>1. Counted'
  BY BusyStays
<1>2. CallsOK' /\ (Guarded => Guarded')
  BY DEF CallsOK, Guarded
<1>3. Stoppable'
  BY DEF Stoppable
<1> QED
  BY <1>1, <1>2, <1>3

LEMMA LoopStepRest ==
  ASSUME IInv, NEW r \in Run, LoopStep(r) \/ Exit(r)
  PROVE  Counted' /\ Rest'
<1> USE DEF IInv, TypeOK
<1>1. UNCHANGED <<run, callVars, calls, shutdown>> /\ started' \in {started, FALSE}
  BY DEF LoopStep, LoopStart, LoopStartFails, LoopNotFound, LoopRestartLong,
         LoopRestartShort, Drain, Exit
<1>2. Counted' /\ CallsOK' /\ Stoppable' /\ (Guarded => Guarded')
  BY <1>1, LoopFrame
<1>3. pc' = pc
  BY <1>1 DEF callVars
<1>4. SUFFICES LoopsOK' /\ Followed' /\ (Superseded => Superseded')
  BY <1>1, <1>2 DEF Rest
<1>5. loop[r] # "none" => r \in 1..run
  BY DEF LoopsOK, Run
<1>6. CASE LoopStart(r)
  <2>1. LoopsOK'
    BY <1>5, <1>6 DEF LoopStart, LoopsOK, Followed
  <2>2. Followed'
    BY <1>6 DEF LoopStart, LoopsOK, Followed
  <2>3. Superseded => Superseded'
    BY <1>1, <1>3, <1>5, <1>6 DEF LoopStart, LoopsOK, Followed, Superseded
  <2> QED
    BY <2>1, <2>2, <2>3
<1>7. CASE LoopStartFails(r)
  <2>1. LoopsOK'
    BY <1>5, <1>7 DEF LoopStartFails, LoopsOK, Followed
  <2>2. Followed'
    BY <1>7 DEF LoopStartFails, LoopsOK, Followed
  <2>3. Superseded => Superseded'
    BY <1>1, <1>3, <1>5, <1>7 DEF LoopStartFails, LoopsOK, Followed, Superseded
  <2> QED
    BY <2>1, <2>2, <2>3
<1>8. CASE Exit(r)
  <2>1. LoopsOK'
    BY <1>5, <1>8 DEF Exit, LoopsOK, Followed
  <2>2. Followed'
    BY <1>8 DEF Exit, LoopsOK, Followed
  <2>3. Superseded => Superseded'
    BY <1>1, <1>3, <1>5, <1>8 DEF Exit, LoopsOK, Followed, Superseded
  <2> QED
    BY <2>1, <2>2, <2>3
<1>9. CASE LoopNotFound(r)
  <2>1. LoopsOK'
    BY <1>5, <1>9 DEF LoopNotFound, LoopsOK, Followed
  <2>2. Followed'
    BY <1>9 DEF LoopNotFound, LoopsOK, Followed
  <2>3. Superseded => Superseded'
    BY <1>1, <1>3, <1>5, <1>9 DEF LoopNotFound, LoopsOK, Followed, Superseded
  <2> QED
    BY <2>1, <2>2, <2>3
<1>10. CASE LoopRestartLong(r)
  <2>1. LoopsOK'
    BY <1>5, <1>10 DEF LoopRestartLong, LoopsOK, Followed
  <2>2. Followed'
    BY <1>10 DEF LoopRestartLong, LoopsOK, Followed
  <2>3. Superseded => Superseded'
    BY <1>1, <1>3, <1>5, <1>10 DEF LoopRestartLong, LoopsOK, Followed, Superseded
  <2> QED
    BY <2>1, <2>2, <2>3
<1>11. CASE Drain(r)
  <2>1. LoopsOK'
    BY <1>5, <1>11 DEF Drain, LoopsOK, Followed
  <2>2. Followed'
    BY <1>11 DEF Drain, LoopsOK, Followed
  <2>3. Superseded => Superseded'
    BY <1>1, <1>3, <1>5, <1>11 DEF Drain, LoopsOK, Followed, Superseded
  <2> QED
    BY <2>1, <2>2, <2>3
<1>12. CASE LoopRestartShort(r)
  <2>1. retries[r] \in 1..ShortRetries /\ r <= run
    BY <1>5, <1>12 DEF LoopRestartShort, LoopsOK, Followed
  <2>2. CASE retries[r] = 1
    <3>1. /\ loop' = [loop EXCEPT ![r] = "drain"]
          /\ retries' = [retries EXCEPT ![r] = retries[r] - 1]
          /\ waiter' = [waiter EXCEPT ![r] = "none"]
          /\ gaveUp' = gaveUp \cup {r}
          /\ proc' = proc /\ run' = run /\ proc[r] # "running" /\ loop[r] = "select"
      BY <1>12, <2>2 DEF LoopRestartShort, LoopsOK, Followed
    <3>2. retries' \in [Run -> 0..ShortRetries] /\ retries'[r] = 0
      BY <2>1, <2>2, <3>1 DEF LoopsOK
    <3>3. LoopsOK'
      BY <1>5, <3>1, <3>2 DEF LoopsOK
    <3>4. Followed'
      BY <3>1, <3>2 DEF LoopsOK, Followed
    <3>5. Superseded => Superseded'
      <4> SUFFICES ASSUME Superseded PROVE Superseded'
        OBVIOUS
      <4>1. r = run
        BY <2>1, <3>1 DEF Superseded, LoopsOK, Run
      <4>2. \A q \in Run : q # r => loop'[q] = loop[q]
        BY <3>1 DEF LoopsOK
      <4>3. loop'[r] = "drain"
        BY <3>1 DEF LoopsOK
      <4> QED
        BY <3>1, <4>1, <4>2, <4>3 DEF Superseded, LoopsOK, Run
    <3> QED
      BY <3>3, <3>4, <3>5
  <2>3. CASE retries[r] # 1
    <3>1. /\ loop' = [loop EXCEPT ![r] = "start"]
          /\ retries' = [retries EXCEPT ![r] = retries[r] - 1]
          /\ waiter' = [waiter EXCEPT ![r] = "none"]
          /\ UNCHANGED <<started, gaveUp>>
          /\ proc' = proc /\ run' = run /\ proc[r] # "running" /\ loop[r] = "select"
      BY <1>12, <2>3 DEF LoopRestartShort, LoopsOK, Followed
    <3>2. retries' \in [Run -> 0..ShortRetries] /\ retries'[r] >= 1
      BY <2>1, <2>3, <3>1 DEF LoopsOK
    <3>3. LoopsOK'
      BY <1>5, <3>1, <3>2 DEF LoopsOK
    <3>4. Followed'
      BY <3>1, <3>2 DEF LoopsOK, Followed
    <3>5. Superseded => Superseded'
      BY <1>3, <2>1, <3>1 DEF LoopsOK, Superseded
    <3> QED
      BY <3>3, <3>4, <3>5
  <2> QED
    BY <2>2, <2>3
<1> QED
  BY <1>6, <1>7, <1>8, <1>9, <1>10, <1>11, <1>12 DEF LoopStep

LEMMA Inductive == IInv /\ [Next]_vars => IInv'
<1> SUFFICES ASSUME IInv, [Next]_vars PROVE IInv'
  OBVIOUS
<1>1. FlagsOK'
  BY FlagsStep DEF IInv
<1>2. SUFFICES Counted' /\ Rest'
  BY <1>1 DEF IInv, TypeOK, Rest
<1>3. CASE UNCHANGED vars
  BY <1>3 DEF vars, loopVars, callVars, IInv, TypeOK, LoopsOK, CallsOK, Counted, Busy, Rest,
              Stoppable, Followed, Guarded, Superseded
<1> QED
  BY <1>3, BeginStep, BeginStopAllStep, LockStep, CheckStep, StopsNothingStep,
     ReadStep, KillStep, AcknowledgeStep, LoopStepRest DEF Next, LoopStep

LEMMA Safe == IInv => OneProcess
  BY DEF IInv, TypeOK, LoopsOK, Followed, Superseded, OneProcess, Running, Run

(***************************************************************************)
(* Type correctness: also says that the mutex is held by a caller that is  *)
(* past its Lock call, and that the retry counter does not pass zero.      *)
(***************************************************************************)
THEOREM TypeCorrect == Spec => []TypeOK
<1>1. Init => IInv
  BY InitIInv
<1>2. IInv /\ [Next]_vars => IInv'
  BY Inductive
<1>3. IInv => TypeOK
  BY DEF IInv
<1> QED
  BY <1>1, <1>2, <1>3, PTL DEF Spec

(***************************************************************************)
(* Whatever starts, stops, upgrades, crashes and restarts come together,   *)
(* procHandler never runs two copies of its process, as long as            *)
(* StopAllProcesses, which takes no lock, has not been called.             *)
(***************************************************************************)
THEOREM OneProcessRuns == Spec => []OneProcess
<1>1. Init => IInv
  BY InitIInv
<1>2. IInv /\ [Next]_vars => IInv'
  BY Inductive
<1>3. IInv => OneProcess
  BY Safe
<1> QED
  BY <1>1, <1>2, <1>3, PTL DEF Spec
=============================================================================
