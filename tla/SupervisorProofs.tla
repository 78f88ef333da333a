--------------------------- MODULE SupervisorProofs ---------------------------
(***************************************************************************)
(* Theorems about Supervisor, for any number of workers and of signals.    *)
(*                                                                         *)
(* The inductive invariant ties each child to its thread: a child runs     *)
(* only while its thread waits for it, and supervise() returns only when   *)
(* every thread has ended.  It also ties a runner whose lock terminate()   *)
(* has taken to its thread: that thread is not between the second look at  *)
(* stop_all and Popen, and never gets there again.                         *)
(***************************************************************************)
EXTENDS Supervisor, SequenceTheorems, TLAPS

\* A child runs only while its thread waits for it.
Attended == \A w \in Workers : child[w] = "running" => thread[w] = "wait"

\* The call returns last.
ReturnsLast == stack = <<>> => \A w \in Workers : Ended(w)

\* The frames the stack may hold: terminate() is called only after stop_all has been set,
\* and counts as through a lock as soon as it has taken it.
Legit ==
  {f \in Frames : /\ f.step \in {"lock", "held", "kill"} => stop_all /\ f.at \in Workers
                  /\ f.step \in {"set", "setting"} => f.at = 1
                  /\ f.step = "held" => f.at \in passed}

LegitStack == stack \in Seq(Legit)

\* A thread that may be about to spawn holds its runner's lock.
Locked == \A w \in Workers \ passed : thread[w] \in {"spawn", "popen"} => lock[w] = "thread"

\* Past terminate() no thread is about to spawn.
Caught == \A w \in passed : stop_all /\ thread[w] # "popen"

IInv == TypeOK /\ Attended /\ ReturnsLast /\ LegitStack /\ Locked /\ Caught

-----------------------------------------------------------------------------
(* The stack of calls. *)

\* A frame of the stack can be replaced, dropped from under another, or put on top.
LEMMA StackFacts ==
  ASSUME NEW A, NEW q \in Seq(A), NEW f \in A
  PROVE  /\ q \o <<f>> \in Seq(A) /\ q \o <<f>> # <<>>
         /\ q # <<>> => /\ Last(q) \in A /\ Front(q) \in Seq(A)
                        /\ Front(q) \o <<f>> \in Seq(A) /\ Front(q) \o <<f>> # <<>>
         /\ Len(q) > 1 => Front(q) # <<>>
<1>1. q \o <<f>> \in Seq(A) /\ Len(q \o <<f>>) = Len(q) + 1
  OBVIOUS
<1>2. q \o <<f>> # <<>>
  BY <1>1
<1>3. ASSUME q # <<>>
      PROVE  Last(q) \in A /\ Front(q) \in Seq(A) /\ Len(Front(q)) = Len(q) - 1
  <2>1. Len(q) \in 1..Len(q)
    BY <1>3
  <2>2. Last(q) \in A
    BY <2>1 DEF Last
  <2>3. PICK n \in Nat \ {0} : n = Len(q)
    BY <1>3
  <2>4. SubSeq(q, 1, n - 1) \in Seq(A) /\ Len(SubSeq(q, 1, n - 1)) = n - 1
    BY <2>3, SubSeqProperties
  <2>5. Front(q) \in Seq(A) /\ Len(Front(q)) = Len(q) - 1
    BY <2>3, <2>4 DEF Front
  <2>6. QED BY <2>2, <2>5
<1>4. ASSUME q # <<>>
      PROVE  Front(q) \o <<f>> \in Seq(A) /\ Len(Front(q) \o <<f>>) = Len(q)
  BY <1>3, <1>4
<1>5. QED BY <1>1, <1>2, <1>3, <1>4

\* A stack stays legitimate when more frames become so.
LEMMA SeqGrows ==
  ASSUME NEW S, NEW T, S \subseteq T, NEW s \in Seq(S) PROVE s \in Seq(T)
  OBVIOUS

\* The frames that the main thread's steps build.
LEMMA FrameFacts ==
  /\ Joining \in Frames
  /\ [at |-> 1, step |-> "set"] \in Frames
  /\ 1 \in Workers => [at |-> 1, step |-> "lock"] \in Frames
  /\ \A f \in Frames :
       /\ \A s \in {"setting", "lock", "held", "kill"} :
            /\ [f EXCEPT !.step = s] \in Frames
            /\ [f EXCEPT !.step = s].step = s /\ [f EXCEPT !.step = s].at = f.at
       /\ f.at < N => [at |-> f.at + 1, step |-> "lock"] \in Frames
  BY SupervisorAssumption DEF Frames, Joining, Workers

\* Going on to the next runner, or back to what was interrupted, leaves a stack.
LEMMA NextRunnerType ==
  ASSUME TypeOK, LegitStack, stop_all, stack # <<>>
  PROVE  NextRunner \in Seq(Legit) /\ NextRunner # <<>>
<1>1. Top \in Legit /\ Joining \in Legit
  <2>1. Joining \in Legit
    BY FrameFacts DEF Legit, Joining
  <2>2. QED BY <2>1, StackFacts DEF LegitStack, Top
<1>2. CASE Top.at < N
  <2>1. [at |-> Top.at + 1, step |-> "lock"] \in Legit
    BY <1>1, <1>2, FrameFacts, SupervisorAssumption DEF Legit, Frames, Workers
  <2>2. QED BY <1>1, <1>2, <2>1, StackFacts DEF NextRunner, LegitStack
<1>3. CASE Top.at >= N /\ ~(Top.at < N) /\ Len(stack) > 1
  BY <1>1, <1>3, StackFacts DEF NextRunner, LegitStack
<1>4. CASE ~(Top.at < N) /\ ~(Top.at >= N /\ Len(stack) > 1)
  BY <1>1, <1>4 DEF NextRunner
<1>5. Top.at \in Int /\ N \in Int
  BY <1>1, SupervisorAssumption DEF Frames, Workers, Legit
<1>6. QED BY <1>2, <1>3, <1>4, <1>5

-----------------------------------------------------------------------------
(* The invariant. *)

LEMMA InitInv == Init => IInv
<1>1. ASSUME Init
      PROVE  stack \in Seq(Frames) /\ stack \in Seq(Legit)
  <2>1. Joining \in Legit
    BY FrameFacts DEF Legit, Joining
  <2>2. QED BY <1>1, <2>1, FrameFacts DEF Init
<1>2. 1 \in 1..MaxBackoff /\ 0 \in 0..MaxSignals
  BY SupervisorAssumption
<1>3. ASSUME Init
      PROVE  /\ stop_all \in BOOLEAN /\ signals \in 0..MaxSignals /\ passed \subseteq Workers
             /\ lock \in [Workers -> {"free", "thread", "main"}]
             /\ exit_code \in [Workers -> {0, 2}] /\ backoff \in [Workers -> 1..MaxBackoff]
  BY <1>2, <1>3 DEF Init
<1>4. ASSUME Init
      PROVE  /\ thread \in [Workers ->
                   {"top", "enter", "spawn", "popen", "wait", "backoff", "gone", "raised"}]
             /\ child \in [Workers -> {"none", "running", "clean", "usage", "crash", "killed"}]
  BY <1>4, Zenon DEF Init
<1>5. Init => Attended /\ ReturnsLast /\ Locked /\ Caught
  BY DEF Init, Attended, ReturnsLast, Locked, Caught
<1>6. QED BY <1>1, <1>3, <1>4, <1>5 DEF IInv, TypeOK, LegitStack

\* What the thread of a worker does.
LEMMA RunnerInv ==
  ASSUME IInv, NEW w \in Workers, Runner(w) \/ Exit(w)
  PROVE  IInv'
<1>1. stack' = stack /\ passed' = passed /\ (stop_all => stop_all')
  BY DEF Runner, Exit, Loop, Enter, Recheck, Spawn, Reap
<1>2. LegitStack'
  <2>1. Legit \subseteq Legit'
    BY <1>1 DEF Legit
  <2>2. QED BY <1>1, <2>1, SeqGrows DEF IInv, LegitStack
<1> USE DEF IInv, TypeOK, Attended, ReturnsLast, Locked, Caught, Ended
<1>3. CASE Loop(w)
  BY <1>2, <1>3, ZenonT(30) DEF Loop
<1>4. CASE Enter(w)
  BY <1>2, <1>4 DEF Enter
<1>5. CASE Recheck(w)
  BY <1>2, <1>5, ZenonT(30) DEF Recheck
<1>6. CASE Spawn(w)
  <2>1. /\ w \in Workers \ passed /\ thread[w] = "popen" /\ child[w] # "running"
        /\ lock' = [lock EXCEPT ![w] = "free"]
        /\ UNCHANGED <<stop_all, exit_code, backoff, stack, signals, passed>>
    BY <1>6 DEF Spawn
  <2>2. CASE thread' = [thread EXCEPT ![w] = "wait"] /\ child' = [child EXCEPT ![w] = "running"]
    BY <1>2, <2>1, <2>2
  <2>3. CASE thread' = [thread EXCEPT ![w] = "raised"] /\ UNCHANGED child
    BY <1>2, <2>1, <2>3
  <2>4. QED BY <1>6, <2>2, <2>3 DEF Spawn
<1>7. CASE Reap(w)
  <2>1. /\ thread[w] = "wait" /\ child[w] # "running" /\ (stop_all => stop_all')
        /\ UNCHANGED <<child, lock, stack, signals, passed>>
    BY <1>1, <1>7 DEF Reap
  <2>2. thread' = [thread EXCEPT ![w] = "gone"] \/ thread' = [thread EXCEPT ![w] = "backoff"]
    BY <1>7 DEF Reap
  <2>3. /\ stop_all' \in BOOLEAN /\ exit_code' \in [Workers -> {0, 2}]
        /\ backoff' \in [Workers -> 1..MaxBackoff]
    <3>1. backoff' \in [Workers -> 1..MaxBackoff]
      <4>1. ASSUME NEW b \in NextBackoff(backoff[w]), backoff' = [backoff EXCEPT ![w] = b]
            PROVE  backoff' \in [Workers -> 1..MaxBackoff]
        <5>1. b \in 1..MaxBackoff
          BY <4>1, SupervisorAssumption DEF NextBackoff
        <5>2. QED BY <4>1, <5>1
      <4>2. QED BY <1>7, <4>1 DEF Reap
    <3>2. stop_all' \in BOOLEAN /\ exit_code' \in [Workers -> {0, 2}]
      BY <1>7 DEF Reap
    <3>3. QED BY <3>1, <3>2
  <2>4. Attended' /\ ReturnsLast' /\ Locked' /\ Caught'
    BY <2>1, <2>2
  <2>5. TypeOK'
    BY <2>1, <2>2, <2>3
  <2>6. QED BY <1>2, <2>4, <2>5
<1>8. CASE Exit(w)
  BY <1>2, <1>8 DEF Exit
<1>9. QED BY <1>3, <1>4, <1>5, <1>6, <1>7, <1>8 DEF Runner

\* What the main thread does.
LEMMA MainInv ==
  ASSUME IInv, MainThread \/ Signal
  PROVE  IInv'
<1> USE DEF IInv
<1>1. ASSUME NEW S, NEW s \in Seq(S) PROVE s # <<>> => Last(s) \in S
  BY <1>1, SubSeqProperties DEF Last
<1>2. ASSUME stack # <<>> PROVE Top \in Legit /\ Top \in Frames
  BY <1>1, <1>2 DEF LegitStack, Top, Legit
<1>3. (stop_all => stop_all') /\ passed \subseteq passed' => Legit \subseteq Legit'
  BY DEF Legit
<1>4. ASSUME stack' \in Seq(Legit') PROVE stack' \in Seq(Frames) /\ LegitStack'
  <2>1. Legit' \subseteq Frames
    BY DEF Legit, Frames
  <2>2. QED BY <1>4, <2>1, SeqGrows DEF LegitStack
<1>5. CASE Signal
  <2>1. [at |-> 1, step |-> "set"] \in Legit'
    BY FrameFacts DEF Legit, Frames
  <2>2. stack' \in Seq(Legit') /\ stack' # <<>>
    BY <1>3, <1>5, <2>1, StackFacts, SeqGrows DEF Signal, LegitStack
  <2>3. QED BY <1>4, <1>5, <2>2, SupervisorAssumption
           DEF Signal, TypeOK, Attended, ReturnsLast, Locked, Caught
<1>6. CASE Join
  <2>1. stack' \in Seq(Legit')
    <3>1. CASE stack' = <<>>
      BY <3>1
    <3>2. CASE stop_all /\ (\E w \in Workers : ~Ended(w))
               /\ stack' = <<[at |-> 1, step |-> "lock"]>>
      <4>1. [at |-> 1, step |-> "lock"] \in Legit'
        BY <1>6, <3>2, FrameFacts, SupervisorAssumption DEF Join, Workers, Legit, Frames
      <4>2. QED BY <3>2, <4>1
    <3>3. QED BY <1>6, <3>1, <3>2 DEF Join
  <2>2. stack' = <<>> => \A w \in Workers : Ended(w)'
    BY <1>6 DEF Join, Ended
  <2>3. QED BY <1>4, <1>6, <2>1, <2>2
           DEF Join, TypeOK, Attended, ReturnsLast, Locked, Caught
<1>7. CASE EventLock
  <2>1. [Top EXCEPT !.step = "setting"] \in Legit'
    BY <1>2, <1>7, FrameFacts DEF EventLock, Legit, Frames
  <2>2. stack' \in Seq(Legit') /\ stack' # <<>>
    BY <1>3, <1>7, <2>1, StackFacts, SeqGrows DEF EventLock, LegitStack
  <2>3. QED BY <1>4, <1>7, <2>2
           DEF EventLock, TypeOK, Attended, ReturnsLast, Locked, Caught
<1>8. CASE EventSet
  <2>1. N # 0 => [Top EXCEPT !.step = "lock"] \in Legit'
    BY <1>2, <1>8, FrameFacts, SupervisorAssumption DEF EventSet, Legit, Frames, Workers
  <2>2. Front(stack) \in Seq(Legit') /\ stack' \in Seq(Legit')
    BY <1>3, <1>8, <2>1, StackFacts, SeqGrows DEF EventSet, LegitStack
  <2>3. stack' = <<>> => \A w \in Workers : Ended(w)'
    <3>1. CASE N = 0
      BY <3>1 DEF Workers
    <3>2. CASE N # 0
      BY <1>3, <1>8, <2>1, <3>2, StackFacts, SeqGrows DEF EventSet, LegitStack
    <3>3. QED BY <3>1, <3>2
  <2>4. QED BY <1>4, <1>8, <2>2, <2>3
           DEF EventSet, TypeOK, Attended, ReturnsLast, Locked, Caught
<1>9. CASE TermLock
  <2>1. Top.at \in Workers /\ stop_all
    BY <1>2, <1>9 DEF TermLock, Legit
  <2>2. [Top EXCEPT !.step = "held"] \in Legit'
    BY <1>2, <1>9, FrameFacts DEF TermLock, Legit, Frames
  <2>3. stack' \in Seq(Legit') /\ stack' # <<>>
    BY <1>3, <1>9, <2>2, StackFacts, SeqGrows DEF TermLock, LegitStack
  <2>4. QED BY <1>4, <1>9, <2>1, <2>3
           DEF TermLock, TypeOK, Attended, ReturnsLast, Locked, Caught
<1>10. CASE TermRelease
  <2>1. Top.at \in passed /\ stop_all
    BY <1>2, <1>10 DEF TermRelease, Legit
  <2>2. [Top EXCEPT !.step = "kill"] \in Legit
    BY <1>2, <2>1, <1>10, FrameFacts DEF TermRelease, Legit
  <2>3. stack' \in Seq(Legit') /\ stack' # <<>>
    BY <1>3, <1>10, <2>1, <2>2, StackFacts, SeqGrows, NextRunnerType DEF TermRelease, LegitStack
  <2>4. QED BY <1>4, <1>10, <2>1, <2>3
           DEF TermRelease, TypeOK, Attended, ReturnsLast, Locked, Caught
<1>11. CASE TermKill
  <2>1. stop_all
    BY <1>2, <1>11 DEF TermKill, Legit
  <2>2. stack' \in Seq(Legit') /\ stack' # <<>>
    BY <1>3, <1>11, <2>1, SeqGrows, NextRunnerType DEF TermKill
  <2>3. QED BY <1>4, <1>11, <2>2
           DEF TermKill, TypeOK, Attended, ReturnsLast, Locked, Caught
<1>12. QED BY <1>5, <1>6, <1>7, <1>8, <1>9, <1>10, <1>11 DEF MainThread

LEMMA InvHolds == Spec => []IInv
<1>1. IInv /\ UNCHANGED vars => IInv'
  BY DEF IInv, TypeOK, Attended, ReturnsLast, LegitStack, Legit, Locked, Caught, Ended, vars
<1>2. IInv /\ [Next]_vars => IInv'
  BY <1>1, RunnerInv, MainInv DEF Next
<1>3. QED BY InitInv, <1>2, PTL DEF Spec

\* The types of the variables; no pause between two attempts exceeds the cap.
THEOREM SupervisorTypeCorrect == Spec => []TypeOK
<1>1. IInv => TypeOK
  BY DEF IInv
<1>2. QED BY <1>1, InvHolds, PTL

\* supervise() returns only when no child process runs any more.
THEOREM NoOrphanLeft == Spec => []NoOrphan
<1>1. IInv => NoOrphan
  BY DEF IInv, TypeOK, Attended, ReturnsLast, Ended, NoOrphan
<1>2. QED BY <1>1, InvHolds, PTL

\* Once terminate() has taken a runner's lock, no child of that runner starts any more:
\* what it then finds running is all there is to end.
THEOREM NothingSpawnedPastTerminate == Spec => NoSpawnPastTerminate
<1>1. ASSUME IInv, [Next]_vars, NEW w \in passed, child[w] # "running"
      PROVE  child'[w] # "running"
  <2> USE DEF IInv, TypeOK
  <2>1. ASSUME NEW v \in Workers, Runner(v) \/ Exit(v) PROVE child'[w] # "running"
    BY <1>1, <2>1 DEF Runner, Exit, Loop, Enter, Recheck, Spawn, Reap, Caught
  <2>2. CASE MainThread \/ Signal
    BY <1>1, <2>2
    DEF MainThread, Signal, Join, EventLock, EventSet, TermLock, TermRelease, TermKill
  <2>3. CASE UNCHANGED vars
    BY <1>1, <2>3 DEF vars
  <2>4. QED BY <1>1, <2>1, <2>2, <2>3 DEF Next
<1>2. IInv /\ [Next]_vars =>
        [\A w \in passed : child[w] # "running" => child'[w] # "running"]_vars
  BY <1>1
<1>3. QED BY <1>2, InvHolds, PTL DEF Spec, NoSpawnPastTerminate
=============================================================================
