------------------------------ MODULE Supervisor ------------------------------
(***************************************************************************)
(* supervisor.py: one child process per camera, restarted when it dies,    *)
(* until a signal or a child that was given bad arguments ends them all.   *)
(*                                                                         *)
(* Each worker has a thread that runs _WorkerRunner.run().  The main       *)
(* thread joins them, and calls terminate() once stop_all is set.  The     *)
(* signal handler _shutdown() runs on the main thread too, on top of       *)
(* whatever it was doing: stack holds its calls, the innermost last, and   *)
(* is empty when supervise() has returned.                                 *)
(***************************************************************************)
EXTENDS Integers, Sequences, SequencesExt

CONSTANTS
  N,          \* the number of workers
  MaxBackoff, \* the longest pause between two attempts: 30 seconds in the code
  MaxSignals  \* bound: signals delivered

ASSUME SupervisorAssumption == N \in Nat /\ MaxBackoff \in Nat \ {0} /\ MaxSignals \in Nat

Workers == 1..N

VARIABLES
  stop_all,
  thread,    \* what the thread of each worker is about to do
  child,     \* the latest child of each worker
  lock,      \* who holds the _lock of each runner
  exit_code,
  backoff,
  stack,     \* the calls the main thread is in
  signals,   \* signals delivered so far
  passed     \* history: the runners whose lock terminate() has taken

vars == <<stop_all, thread, child, lock, exit_code, backoff, stack, signals, passed>>

\* Joining the threads; in stop_all.set() before and in the Event's own lock; or in
\* terminate() of runner at before, in and after the runner's lock.
Frames == [at : Workers \cup {N + 1}, step : {"join", "set", "setting", "lock", "held", "kill"}]
Joining == [at |-> N + 1, step |-> "join"]

TypeOK ==
  /\ stop_all \in BOOLEAN
  /\ thread \in [Workers -> {"top", "enter", "spawn", "popen", "wait", "backoff", "gone", "raised"}]
  /\ child \in [Workers -> {"none", "running", "clean", "usage", "crash", "killed"}]
  /\ lock \in [Workers -> {"free", "thread", "main"}]
  /\ exit_code \in [Workers -> {0, 2}]
  /\ backoff \in [Workers -> 1..MaxBackoff]
  /\ stack \in Seq(Frames)
  /\ signals \in 0..MaxSignals
  /\ passed \subseteq Workers

\* The thread has returned, or an exception has ended it.
Ended(w) == thread[w] \in {"gone", "raised"}

\* The main thread is inside stop_all.set() and holds the Event's lock.
EventHeld == \E k \in DOMAIN stack : stack[k].step = "setting"

-----------------------------------------------------------------------------
(* The thread of worker w: run(). *)

\* The loop's test, and the end of a pause: Event.wait() takes the Event's lock to return.
Loop(w) ==
  /\ \/ /\ thread[w] = "top"
        /\ thread' = [thread EXCEPT ![w] = IF stop_all THEN "gone" ELSE "enter"]
     \/ /\ thread[w] = "backoff" /\ ~EventHeld
        /\ thread' = [thread EXCEPT ![w] = "top"]
  /\ UNCHANGED <<stop_all, child, lock, exit_code, backoff, stack, signals, passed>>

Enter(w) ==
  /\ thread[w] = "enter" /\ lock[w] = "free"
  /\ lock' = [lock EXCEPT ![w] = "thread"]
  /\ thread' = [thread EXCEPT ![w] = "spawn"]
  /\ UNCHANGED <<stop_all, child, exit_code, backoff, stack, signals, passed>>

\* Mutant: stop_all is not looked at again once the lock is held.
RecheckNothing(w) ==
  /\ thread[w] = "spawn"
  /\ thread' = [thread EXCEPT ![w] = "popen"]
  /\ UNCHANGED <<stop_all, child, lock, exit_code, backoff, stack, signals, passed>>

\* The second look at stop_all, under the lock.  stop_all is set without that lock, so
\* what this has seen may be out of date when Popen runs.
Recheck(w) ==
  /\ thread[w] = "spawn"
  /\ \/ /\ stop_all
        /\ thread' = [thread EXCEPT ![w] = "gone"]
        /\ lock' = [lock EXCEPT ![w] = "free"]
     \/ /\ ~stop_all
        /\ thread' = [thread EXCEPT ![w] = "popen"] /\ UNCHANGED lock
  /\ UNCHANGED <<stop_all, child, exit_code, backoff, stack, signals, passed>>

\* Popen, still under the lock: it starts the child, or raises and so ends the thread.
Spawn(w) ==
  /\ thread[w] = "popen"
  /\ lock' = [lock EXCEPT ![w] = "free"]
  /\ \/ thread' = [thread EXCEPT ![w] = "wait"] /\ child' = [child EXCEPT ![w] = "running"]
     \/ thread' = [thread EXCEPT ![w] = "raised"] /\ UNCHANGED child
  /\ UNCHANGED <<stop_all, exit_code, backoff, stack, signals, passed>>

\* The child exits: with 0, with argparse's 2, or with anything else.
Exit(w) ==
  /\ child[w] = "running"
  /\ \E code \in {"clean", "usage", "crash"} : child' = [child EXCEPT ![w] = code]
  /\ UNCHANGED <<stop_all, thread, lock, exit_code, backoff, stack, signals, passed>>

\* Mutant: the cap on the backoff is forgotten.
UncappedBackoff(b) == {1, 2 * b}

\* Back to 1 if the worker ran for more than 30 seconds, else doubled up to the cap.
NextBackoff(b) == {1, IF 2 * b < MaxBackoff THEN 2 * b ELSE MaxBackoff}

\* Mutant: a crash ends the thread as a clean exit does.
ReapNoRestart(w) ==
  /\ thread[w] = "wait" /\ child[w] # "running"
  /\ thread' = [thread EXCEPT ![w] = "gone"]
  /\ UNCHANGED <<stop_all, exit_code, backoff, child, lock, stack, signals, passed>>

\* wait() returns: the thread ends, ends all others, or tries again after a while.
Reap(w) ==
  /\ thread[w] = "wait" /\ child[w] # "running"
  /\ \/ /\ stop_all \/ child[w] = "clean"
        /\ thread' = [thread EXCEPT ![w] = "gone"]
        /\ UNCHANGED <<stop_all, exit_code, backoff>>
     \/ /\ ~stop_all /\ child[w] = "usage" /\ ~EventHeld
        /\ thread' = [thread EXCEPT ![w] = "gone"]
        /\ exit_code' = [exit_code EXCEPT ![w] = 2]
        /\ stop_all' = TRUE /\ UNCHANGED backoff
     \/ /\ ~stop_all /\ child[w] = "crash"
        /\ thread' = [thread EXCEPT ![w] = "backoff"]
        /\ \E b \in NextBackoff(backoff[w]) : backoff' = [backoff EXCEPT ![w] = b]
        /\ UNCHANGED <<stop_all, exit_code>>
  /\ UNCHANGED <<child, lock, stack, signals, passed>>

-----------------------------------------------------------------------------
(* The main thread. *)

Top == Last(stack)

\* What is left when runner Top.at has been dealt with.
NextRunner ==
  CASE Top.at < N -> Front(stack) \o <<[at |-> Top.at + 1, step |-> "lock"]>>
    [] Top.at >= N /\ Len(stack) > 1 -> Front(stack)
    [] OTHER -> <<Joining>>

\* A signal: _shutdown() runs on top of everything else.
Signal ==
  /\ stack # <<>> /\ signals < MaxSignals
  /\ signals' = signals + 1
  /\ stack' = stack \o <<[at |-> 1, step |-> "set"]>>
  /\ UNCHANGED <<stop_all, thread, child, lock, exit_code, backoff, passed>>

\* stop_all.set(): it takes the Event's lock, which is not reentrant ...
EventLock ==
  /\ stack # <<>> /\ Top.step = "set" /\ ~EventHeld
  /\ stack' = Front(stack) \o <<[Top EXCEPT !.step = "setting"]>>
  /\ UNCHANGED <<stop_all, thread, child, lock, exit_code, backoff, signals, passed>>

\* ... sets the flag and wakes the sleepers.  The loop over the runners follows.
EventSet ==
  /\ stack # <<>> /\ Top.step = "setting"
  /\ stop_all' = TRUE
  /\ stack' = IF N = 0 THEN Front(stack)
              ELSE Front(stack) \o <<[Top EXCEPT !.step = "lock"]>>
  /\ UNCHANGED <<thread, child, lock, exit_code, backoff, signals, passed>>

\* Mutant: supervise() returns as soon as one worker's thread has ended.
JoinAny ==
  /\ stack = <<Joining>>
  /\ \/ (\E w \in Workers : Ended(w)) /\ stack' = <<>>
     \/ /\ stop_all /\ \E w \in Workers : ~Ended(w)
        /\ stack' = <<[at |-> 1, step |-> "lock"]>>
  /\ UNCHANGED <<stop_all, thread, child, lock, exit_code, backoff, signals, passed>>

\* The loop over join(0.5).
Join ==
  /\ stack = <<Joining>>
  /\ \/ (\A w \in Workers : Ended(w)) /\ stack' = <<>>
     \/ /\ stop_all /\ \E w \in Workers : ~Ended(w)
        /\ stack' = <<[at |-> 1, step |-> "lock"]>>
  /\ UNCHANGED <<stop_all, thread, child, lock, exit_code, backoff, signals, passed>>

TermLock ==
  /\ stack # <<>> /\ Top.step = "lock" /\ lock[Top.at] = "free"
  /\ lock' = [lock EXCEPT ![Top.at] = "main"]
  /\ stack' = Front(stack) \o <<[Top EXCEPT !.step = "held"]>>
  /\ passed' = passed \cup {Top.at}
  /\ UNCHANGED <<stop_all, thread, child, exit_code, backoff, signals>>

\* The child has been read under the lock; if it is not running there is nothing to do.
TermRelease ==
  /\ stack # <<>> /\ Top.step = "held"
  /\ lock' = [lock EXCEPT ![Top.at] = "free"]
  /\ stack' = IF child[Top.at] = "running"
                THEN Front(stack) \o <<[Top EXCEPT !.step = "kill"]>>
                ELSE NextRunner
  /\ UNCHANGED <<stop_all, thread, child, exit_code, backoff, signals, passed>>

\* Mutant: a child that ignores SIGTERM is not killed.
TermPolitely ==
  /\ stack # <<>> /\ Top.step = "kill"
  /\ stack' = NextRunner
  /\ UNCHANGED <<stop_all, thread, child, lock, exit_code, backoff, signals, passed>>

\* SIGTERM, and after a second SIGKILL; either way the child is gone.
TermKill ==
  /\ stack # <<>> /\ Top.step = "kill"
  /\ child' = IF child[Top.at] = "running" THEN [child EXCEPT ![Top.at] = "killed"] ELSE child
  /\ stack' = NextRunner
  /\ UNCHANGED <<stop_all, thread, lock, exit_code, backoff, signals, passed>>

-----------------------------------------------------------------------------
Init ==
  /\ stop_all = FALSE /\ signals = 0 /\ passed = {}
  /\ thread = [w \in Workers |-> "top"] /\ child = [w \in Workers |-> "none"]
  /\ lock = [w \in Workers |-> "free"] /\ exit_code = [w \in Workers |-> 0]
  /\ backoff = [w \in Workers |-> 1]
  /\ stack = <<Joining>>

Runner(w) == Loop(w) \/ Enter(w) \/ Recheck(w) \/ Spawn(w) \/ Reap(w)

MainThread == Join \/ EventLock \/ EventSet \/ TermLock \/ TermRelease \/ TermKill

Next == (\E w \in Workers : Runner(w) \/ Exit(w)) \/ MainThread \/ Signal

Spec == Init /\ [][Next]_vars

\* Every thread keeps running and gets a lock that is free most of the time.  No child has
\* to exit, and no signal has to come.
FairSpec ==
  /\ Spec /\ WF_vars(MainThread)
  /\ \A w \in Workers : WF_vars(Runner(w)) /\ SF_vars(Enter(w))

-----------------------------------------------------------------------------
(* Properties. *)

\* When supervise() has returned, it leaves no child process behind.
NoOrphan == stack = <<>> => \A w \in Workers : child[w] # "running"

\* A child may still start after stop_all has been set, from a thread that has just seen it
\* unset.  But once terminate() has been through a runner's lock, no child of that runner
\* appears any more, so that none can slip past the loop that ends them.
NoSpawnPastTerminate ==
  [][\A w \in passed : child[w] # "running" => child'[w] # "running"]_vars

\* The handler waits for a lock that the call it interrupted holds: that of a runner, held
\* in terminate(), or that of the Event, held in set().
SelfLocked ==
  \E j, k \in DOMAIN stack :
    /\ j < k
    /\ \/ stack[k].step = "lock" /\ stack[j].step = "held" /\ stack[j].at = stack[k].at
       \/ stack[k].step = "set" /\ stack[j].step = "setting"

\* A shutdown comes to an end, whatever the children do, unless a signal arrived in the
\* few instructions in which the main thread held one of the two locks.
ShutdownEnds == signals # 0 \/ stop_all ~> stack = <<>> \/ SelfLocked

\* A worker that crashes comes back, unless everything is being shut down, or Popen has
\* raised and so ended the thread that would have restarted it.
CrashRestarts ==
  \A w \in Workers :
    child[w] = "crash" ~> child[w] = "running" \/ stop_all \/ thread[w] = "raised" \/ SelfLocked
=============================================================================
