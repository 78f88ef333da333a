----------------------------- MODULE SessionProofs -----------------------------
(***************************************************************************)
(* Theorems about Session, for any number of camera sessions, rendezvous   *)
(* servers and commands, and whatever is kept in pending and early.        *)
(*                                                                         *)
(* ConnInv ties the address and the key to what the main thread is doing:  *)
(* the refinement of Connection follows from it.  HealthInv adds what a    *)
(* /health request under way may have read, CommandInv what a command      *)
(* under way has in its hands.  The types need CommandInv for the commands *)
(* left to send, and that KeptFrom, which is recursive, yields datagrams:  *)
(* by induction over a set of numbers, as < is well-founded.               *)
(***************************************************************************)
EXTENDS Session, WellFoundedInduction, SequenceTheorems, TLAPS

Searching == main \in {"lan", "ask", "probe"}

Handshaking == main \in {"alive", "auth"}

Recovers == main \in {"command", "reset", "backoff"}

\* Where the main thread stands, and what it knows there.
ConnInv ==
  /\ main \in MainSteps
  /\ reconnecting \in {"no", "recent", "long"}
  /\ Searching => camera = NoAddress /\ session_key = NoKey
  /\ Handshaking => camera \in Sessions /\ session_key = NoKey
  /\ main = "exited" => session_key = NoKey
  /\ main \in {"command", "stream"} => camera \in Sessions
  /\ main \in {"command", "stream"} => session_key = camera
  /\ main \in {"stream", "exited"} => ~Reconnecting
  /\ Recovers => Reconnecting

-----------------------------------------------------------------------------
LEMMA NotASession == NoKey \notin Sessions /\ NoAddress \notin Sessions
  BY SessionAssumption DEF NoKey, NoAddress, Sessions

LEMMA ConnInit == Init => ConnInv
  BY DEF Init, ConnInv, MainSteps, Searching, Handshaking, Recovers, Reconnecting

\* Every step keeps ConnInv.
LEMMA ConnNext == ConnInv /\ [Next]_vars => ConnInv'
<1> SUFFICES ASSUME ConnInv, [Next]_vars PROVE ConnInv'
  OBVIOUS
<1> USE DEF ConnInv, MainSteps, Searching, Handshaking, Recovers, Reconnecting, conn
<1>1. ASSUME NEW d \in Datagrams, LanHears(d) PROVE ConnInv'
  BY <1>1 DEF LanHears, Locate, Datagrams
<1>2. ASSUME NEW d \in Datagrams, ProbeHears(d) PROVE ConnInv'
  BY <1>2 DEF ProbeHears, Locate, Datagrams
<1>3. CASE LanTimesOut
  BY <1>3 DEF LanTimesOut, GiveUp
<1>4. CASE AskServer
  BY <1>4 DEF AskServer, NextServer, GiveUp
<1>5. CASE ProbeFails
  BY <1>5 DEF ProbeFails, NextServer, GiveUp
<1>6. ASSUME NEW d \in Datagrams, AliveHears(d) PROVE ConnInv'
  BY <1>6 DEF AliveHears
<1>7. ASSUME NEW d \in Datagrams, AuthHears(d) PROVE ConnInv'
  <2>1. CASE AuthChallenge(d)
    BY <1>7, <2>1 DEF AuthHears, AuthChallenge
  <2>2. CASE AuthOk(d)
    BY <1>7, <2>2 DEF AuthHears, AuthOk
  <2>3. CASE AuthIgnores(d)
    BY <1>7, <2>3 DEF AuthHears, AuthIgnores
  <2>4. QED BY <1>7, <2>1, <2>2, <2>3 DEF AuthHears
<1>8. CASE AliveTimesOut
  BY <1>8 DEF AliveTimesOut
<1>9. CASE AuthRequest
  BY <1>9 DEF AuthRequest
<1>10. CASE AuthRefused \/ AuthTimesOut
  BY <1>10 DEF AuthRefused, AuthTimesOut, GiveUp
<1>11. CASE LoseSession
  BY <1>11 DEF LoseSession
<1>12. CASE Reset
  BY <1>12 DEF Reset
<1>13. CASE Retry \/ FinishReconnect
  BY <1>13 DEF Retry, FinishReconnect
<1>14. CASE SendFails
  BY <1>14 DEF SendFails, GiveUp
<1>15. CASE Restart
  BY <1>15 DEF Restart
<1>16. ASSUME NEW t \in Threads, Command(t) PROVE ConnInv'
  BY <1>16 DEF Command, CommandBegin, CommandBuild, CommandBump, CommandSend
<1>17. CASE Health
  BY <1>17 DEF Health, HealthBegin, HealthReadKey, HealthReadOutage, HealthReply, HealthReads
<1>18. CASE OutageDrags
  BY <1>18 DEF OutageDrags
<1>19. CASE Camera
  BY <1>19 DEF Camera, CameraOpens, CameraHears, CameraChallenges, CameraAccepts, CameraActs
<1>20. CASE UNCHANGED vars
  BY <1>20 DEF vars
<1>21. QED
  BY <1>1, <1>2, <1>3, <1>4, <1>5, <1>6, <1>7, <1>8, <1>9, <1>10, <1>11, <1>12, <1>13,
     <1>14, <1>15, <1>16, <1>17, <1>18, <1>19, <1>20
  DEF Next, Discovering, Authenticating, Recovering

THEOREM ConnCorrect == Spec => []ConnInv
  BY ConnInit, ConnNext, PTL DEF Spec

-----------------------------------------------------------------------------
(* The refinement of Connection. *)

\* Every step locates the camera, establishes the key of the camera located, gives both
\* up, or changes neither.
LEMMA ConnectionStep == ConnInv /\ [Next]_vars => [C!Next]_<<camera, session_key>>
<1> SUFFICES ASSUME ConnInv, [Next]_vars PROVE [C!Next]_<<camera, session_key>>
  OBVIOUS
<1> USE DEF conn
<1>1. ASSUME NEW d \in Datagrams, LanHears(d) \/ ProbeHears(d)
      PROVE  C!Locate \/ UNCHANGED conn
  BY <1>1 DEF LanHears, ProbeHears, Locate, Datagrams, C!Locate, ConnInv, Searching, NoKey,
              NoAddress
<1>2. ASSUME NEW d \in Datagrams, AuthHears(d)
      PROVE  C!Establish \/ UNCHANGED conn
  <2>1. CASE AuthOk(d)
    BY <1>2, <2>1 DEF AuthHears, AuthOk, C!Establish, ConnInv, Handshaking
  <2>2. CASE AuthChallenge(d) \/ AuthIgnores(d)
    BY <1>2, <2>2 DEF AuthHears, AuthChallenge, AuthIgnores
  <2>3. QED BY <1>2, <2>1, <2>2 DEF AuthHears
<1>3. CASE Reset \/ Restart
  BY <1>3 DEF Reset, Restart, C!Next, C!Lose, NoKey, NoAddress
<1>4. CASE LanTimesOut \/ AskServer \/ ProbeFails \/ AliveTimesOut \/ AuthRequest
  BY <1>4 DEF LanTimesOut, AskServer, ProbeFails, AliveTimesOut, AuthRequest
<1>5. CASE AuthRefused \/ AuthTimesOut \/ LoseSession \/ Retry \/ FinishReconnect \/ SendFails
  BY <1>5 DEF AuthRefused, AuthTimesOut, LoseSession, Retry, FinishReconnect, SendFails
<1>6. ASSUME NEW d \in Datagrams, AliveHears(d) PROVE UNCHANGED conn
  BY <1>6 DEF AliveHears
<1>7. ASSUME NEW t \in Threads, Command(t) PROVE UNCHANGED conn
  BY <1>7 DEF Command, CommandBegin, CommandBuild, CommandBump, CommandSend
<1>8. CASE Health \/ OutageDrags
  BY <1>8 DEF Health, HealthBegin, HealthReadKey, HealthReadOutage, HealthReply, HealthReads,
              OutageDrags
<1>9. CASE Camera
  BY <1>9 DEF Camera, CameraOpens, CameraHears, CameraChallenges, CameraAccepts, CameraActs
<1>10. CASE UNCHANGED vars
  BY <1>10 DEF vars
<1>11. QED
  BY <1>1, <1>2, <1>3, <1>4, <1>5, <1>6, <1>7, <1>8, <1>9, <1>10
  DEF Next, Discovering, Authenticating, Recovering, C!Next

\* discover(), auth() and reconnect() implement Connection.
THEOREM ConnectionImplemented == Spec => ImplementsConnection
<1>1. Init => C!Init
  BY DEF Init, C!Init, NoKey, NoAddress
<1>2. QED BY <1>1, ConnCorrect, ConnectionStep, PTL DEF Spec, ImplementsConnection, C!Spec

-----------------------------------------------------------------------------
(* What a /health request may have read. *)

\* A camera or a key it has seen is there still, unless it went with an outage.
HealthInv ==
  /\ pc["rest"] \in CommandSteps \cup HealthSteps \cup {"idle"}
  /\ DOMAIN pc = Threads
  /\ (pc["rest"] = "read key" /\ saw) => (camera # NoAddress \/ Reconnecting)
  /\ (pc["rest"] \in {"read outage", "read outage again"} /\ saw)
       => (session_key # NoKey \/ Reconnecting)

LEMMA HealthInit == Init => HealthInv
  BY DEF Init, HealthInv, HealthSteps, CommandSteps, Threads

LEMMA HealthKept ==
  ASSUME HealthInv, UNCHANGED <<pc, saw, camera, session_key>>, Reconnecting => Reconnecting'
  PROVE  HealthInv'
  BY DEF HealthInv, HealthSteps, CommandSteps, Reconnecting

LEMMA HealthNext == ConnInv /\ HealthInv /\ [Next]_vars => HealthInv'
<1> SUFFICES ASSUME ConnInv, HealthInv, [Next]_vars PROVE HealthInv'
  OBVIOUS
<1> USE DEF HealthInv, HealthSteps, CommandSteps, Reconnecting, conn, cmd
<1>1. ASSUME NEW d \in Datagrams, LanHears(d) \/ ProbeHears(d) \/ AliveHears(d)
      PROVE  HealthInv'
  <2>1. d.from # NoAddress
    BY NotASession DEF Datagrams
  <2>2. CASE LanHears(d)
    BY <2>1, <2>2 DEF LanHears, Locate
  <2>3. CASE ProbeHears(d)
    BY <2>1, <2>3 DEF ProbeHears, Locate
  <2>4. CASE AliveHears(d)
    BY <2>4 DEF AliveHears
  <2>5. QED BY <1>1, <2>2, <2>3, <2>4
<1>2. ASSUME NEW d \in Datagrams, AuthHears(d) PROVE HealthInv'
  <2>1. CASE AuthOk(d)
    BY <1>2, <2>1, NotASession DEF AuthHears, AuthOk, Datagrams, ConnInv
  <2>2. CASE AuthChallenge(d) \/ AuthIgnores(d)
    BY <1>2, <2>2 DEF AuthHears, AuthChallenge, AuthIgnores
  <2>3. QED BY <1>2, <2>1, <2>2 DEF AuthHears
<1>3. CASE LanTimesOut \/ AskServer \/ ProbeFails \/ AliveTimesOut \/ AuthRequest
  BY <1>3, HealthKept DEF LanTimesOut, AskServer, ProbeFails, AliveTimesOut, AuthRequest
<1>4. CASE AuthRefused \/ AuthTimesOut \/ Retry \/ OutageDrags \/ LoseSession
  BY <1>4, HealthKept DEF AuthRefused, AuthTimesOut, Retry, OutageDrags, LoseSession
<1>5. CASE Reset
  BY <1>5 DEF Reset, ConnInv, Recovers
<1>6. CASE FinishReconnect
  BY <1>6, NotASession DEF FinishReconnect, ConnInv
<1>7. CASE SendFails
  BY <1>7 DEF SendFails, Threads
<1>8. CASE Restart
  BY <1>8 DEF Restart, Threads
<1>9. ASSUME NEW t \in Threads, Command(t) PROVE HealthInv'
  <2>1. UNCHANGED <<saw, camera, session_key, reconnecting>>
    BY <1>9 DEF Command, CommandBegin, CommandBuild, CommandBump, CommandSend
  <2>3. PICK p \in CommandSteps \cup {"idle"} : pc' = [pc EXCEPT ![t] = p]
    BY <1>9 DEF Command, CommandBegin, CommandBuild, CommandBump, CommandSend
  <2>4. pc'["rest"] = pc["rest"] \/ pc'["rest"] \in CommandSteps \cup {"idle"}
    BY <2>3 DEF Threads
  <2>5. DOMAIN pc' = Threads
    BY <2>3
  <2>6. QED BY <2>1, <2>4, <2>5
<1>10. CASE Health
  <2>1. CASE HealthBegin
    BY <2>1 DEF HealthBegin, HealthReads, Threads
  <2>2. CASE HealthReadKey
    BY <2>2 DEF HealthReadKey, HealthReads, Threads
  <2>3. CASE HealthReadOutage
    BY <2>3 DEF HealthReadOutage, HealthReads, Threads
  <2>4. CASE HealthReply
    BY <2>4 DEF HealthReply, HealthReads, Threads
  <2>5. QED BY <1>10, <2>1, <2>2, <2>3, <2>4 DEF Health
<1>11. CASE Camera
  BY <1>11, HealthKept DEF Camera, CameraOpens, CameraHears, CameraChallenges, CameraAccepts,
                            CameraActs
<1>12. CASE UNCHANGED vars
  BY <1>12, HealthKept DEF vars
<1>13. QED
  BY <1>1, <1>2, <1>3, <1>4, <1>5, <1>6, <1>7, <1>8, <1>9, <1>10, <1>11, <1>12
  DEF Next, Discovering, Authenticating, Recovering

\* A request that reads no outage last, having seen a camera and a key, is right.
LEMMA HealthImplies == ConnInv /\ HealthInv => ServingIsServing
<1> SUFFICES ASSUME ConnInv, HealthInv, Answer = "serving"
             PROVE  main = "stream" /\ session_key # NoKey
  BY DEF ServingIsServing
<1>1. pc["rest"] = "read outage" /\ ~Reconnecting /\ saw
  <2>1. CASE pc["rest"] = "read outage" /\ ~Reconnecting
    BY <2>1 DEF Answer, Status
  <2>2. CASE pc["rest"] = "read outage again" /\ Reconnecting
    BY <2>2 DEF Answer, Status, ConnInv, Reconnecting
  <2>3. CASE pc["rest"] = "read outage again" /\ ~Reconnecting
    BY <2>3 DEF Answer
  <2>4. CASE pc["rest"] \notin {"read outage", "read outage again"}
    BY <2>4 DEF Answer
  <2>5. CASE pc["rest"] = "read outage" /\ Reconnecting
    BY <2>5 DEF Answer
  <2>6. QED BY <2>1, <2>2, <2>3, <2>4, <2>5
<1>2. session_key # NoKey
  BY <1>1 DEF HealthInv
<1>3. main = "stream"
  BY <1>1, <1>2 DEF ConnInv, MainSteps, Searching, Handshaking, Recovers
<1>4. QED BY <1>2, <1>3

\* /health never reports a camera as served that is not.
THEOREM ServingCorrect == Spec => []ServingIsServing
<1>1. Init => ConnInv /\ HealthInv
  BY ConnInit, HealthInit
<1>2. ConnInv /\ HealthInv /\ [Next]_vars => (ConnInv /\ HealthInv)'
  BY ConnNext, HealthNext
<1>3. QED BY <1>1, <1>2, HealthImplies, PTL DEF Spec

-----------------------------------------------------------------------------
(* Commands. *)

\* Unless a command raced the last reset, every command under way has the key of the
\* connection, and a number that is not spent: the next one while it holds the lock, one
\* of its own afterwards.
CommandInv ==
  /\ local_seq \in Nat
  /\ pc \in [Threads -> CommandSteps \cup HealthSteps \cup {"idle"}]
  /\ DOMAIN key = Threads /\ DOMAIN num = Threads
  /\ \A t \in Threads : pc[t] = "bump" => lock = t
  /\ todo \in Nat
  /\ pc["main"] # "idle" => main = "command" /\ todo > 0
  /\ ~repeated /\ ~wrongKey
  /\ raced \in BOOLEAN
  /\ ~raced =>
       /\ \A n \in used : n \in Nat /\ n < local_seq
       /\ \A t \in Threads :
            /\ pc[t] \in CommandSteps => key[t] = session_key /\ session_key # NoKey
            /\ pc[t] = "bump" => num[t] = local_seq
            /\ pc[t] = "send" => num[t] \in Nat /\ num[t] < local_seq /\ num[t] \notin used
       /\ pc["main"] = "send" /\ pc["rest"] = "send" => num["main"] # num["rest"]

LEMMA CommandInit == Init => CommandInv
<1> SUFFICES ASSUME Init PROVE CommandInv
  OBVIOUS
<1>1. \A t \in Threads : pc[t] = "idle"
  BY DEF Init
<1>2. ~repeated /\ ~wrongKey /\ raced = FALSE
  BY DEF Init
<1>3. used = {} /\ local_seq = 0 /\ todo = 0 /\ DOMAIN key = Threads /\ DOMAIN num = Threads
  BY DEF Init
<1>4. pc \in [Threads -> CommandSteps \cup HealthSteps \cup {"idle"}]
  BY DEF Init
<1>5. QED BY <1>1, <1>2, <1>3, <1>4 DEF CommandInv, CommandSteps, Threads

\* While there is no key, and no command raced the reset, none is under way.
LEMMA NoKeyNoCommand ==
  ASSUME CommandInv, session_key = NoKey, ~raced
  PROVE  \A t \in Threads : pc[t] \notin CommandSteps
  BY DEF CommandInv

\* Authentication frames take numbers without the lock, when no command is under way.
LEMMA AuthFrame ==
  ASSUME ConnInv, CommandInv, main = "auth", main' = "auth", SendAuth, UNCHANGED conn,
         UNCHANGED <<todo, lock, pc, key, num>>
  PROVE  CommandInv'
<1>1. session_key = NoKey
  BY DEF ConnInv, Handshaking
<1>2. pc["main"] = "idle"
  BY DEF CommandInv
<1>3. CASE raced
  BY <1>3, <1>2 DEF CommandInv, SendAuth, Transmit
<1>4. CASE ~raced
  <2>1. \A t \in Threads : pc[t] \notin CommandSteps
    BY <1>1, <1>4, NoKeyNoCommand
  <2>2. used' = used \cup {local_seq} /\ repeated' = (repeated \/ local_seq \in used)
    BY <1>4 DEF SendAuth, Transmit
  <2>3. local_seq \notin used
    BY <1>4 DEF CommandInv
  <2>4. local_seq' = local_seq + 1 /\ UNCHANGED <<wrongKey, raced>>
    BY DEF SendAuth
  <2>5. \A n \in used' : n \in Nat /\ n < local_seq'
    BY <1>4, <2>2, <2>4 DEF CommandInv
  <2>6. ~repeated' /\ ~wrongKey'
    BY <2>2, <2>3, <2>4 DEF CommandInv
  <2>7. QED
    BY <1>2, <2>1, <2>4, <2>5, <2>6 DEF CommandInv, CommandSteps, conn
<1>5. QED BY <1>3, <1>4 DEF CommandInv

\* Nothing that CommandInv speaks of changes.
LEMMA CommandKept ==
  ASSUME CommandInv, UNCHANGED <<local_seq, cmd, session_key, history>>,
         pc["main"] # "idle" => main' = "command"
  PROVE  CommandInv'
  BY DEF CommandInv, cmd, history

\* A key is negotiated when no command is under way, unless one raced the reset.
LEMMA CommandAuth ==
  ASSUME ConnInv, CommandInv, NEW d \in Datagrams, AuthHears(d)
  PROVE  CommandInv'
<1>1. main = "auth" /\ session_key = NoKey /\ pc["main"] = "idle"
  BY DEF AuthHears, ConnInv, Handshaking, CommandInv
<1>2. UNCHANGED <<camera, lock, pc, key, num>>
  BY DEF AuthHears
<1>3. CASE AuthChallenge(d)
  BY <1>1, <1>2, <1>3, AuthFrame DEF AuthChallenge, conn
<1>4. CASE AuthOk(d)
  <2>1. UNCHANGED <<local_seq, history>> /\ todo' \in Nat
    BY <1>4, SessionAssumption DEF AuthOk, CommandInv
  <2>2. CASE raced
    BY <1>1, <1>2, <2>1, <2>2 DEF CommandInv, history
  <2>3. CASE ~raced
    <3>1. \A t \in Threads : pc[t] \notin CommandSteps
      BY <1>1, <2>3, NoKeyNoCommand
    <3>2. QED BY <1>1, <1>2, <2>1, <3>1 DEF CommandInv, CommandSteps, history
  <2>4. QED BY <2>2, <2>3 DEF CommandInv
<1>5. CASE AuthIgnores(d)
  BY <1>1, <1>2, <1>5, CommandKept DEF AuthIgnores, cmd
<1>6. QED BY <1>3, <1>4, <1>5 DEF AuthHears

\* The steps of send_ioctl().
LEMMA CommandStep ==
  ASSUME ConnInv, CommandInv, NEW t \in Threads, Command(t)
  PROVE  CommandInv'
<1> USE DEF CommandSteps
<1>1. UNCHANGED <<session_key, main, raced>>
  BY DEF Command, CommandBegin, CommandBuild, CommandBump, CommandSend, conn, history
<1>2. CASE CommandBegin(t)
  <2>1. /\ UNCHANGED <<local_seq, todo, lock, num, used, repeated, wrongKey>>
        /\ pc' = [pc EXCEPT ![t] = "build"] /\ key' = [key EXCEPT ![t] = session_key]
        /\ session_key # NoKey /\ pc[t] = "idle"
        /\ t = "main" => main = "command" /\ todo > 0
    BY <1>2 DEF CommandBegin, history, Threads
  <2>2. QED BY <1>1, <2>1 DEF CommandInv, Threads
<1>3. CASE CommandBuild(t)
  <2>1. /\ UNCHANGED <<local_seq, todo, key, used, repeated, wrongKey>>
        /\ pc' = [pc EXCEPT ![t] = "bump"] /\ num' = [num EXCEPT ![t] = local_seq]
        /\ lock = "free" /\ lock' = t /\ pc[t] = "build"
    BY <1>3 DEF CommandBuild, history
  <2>2. \A u \in Threads : pc[u] # "bump"
    BY <2>1 DEF CommandInv, Threads
  <2>3. QED BY <1>1, <2>1, <2>2 DEF CommandInv, Threads
<1>4. CASE CommandBump(t)
  <2>1. /\ UNCHANGED <<todo, key, num, used, repeated, wrongKey>>
        /\ pc' = [pc EXCEPT ![t] = "send"] /\ local_seq' = local_seq + 1
        /\ lock' = "free" /\ pc[t] = "bump"
    BY <1>4 DEF CommandBump, history
  <2>2. \A u \in Threads \ {t} : pc[u] # "bump"
    BY <2>1 DEF CommandInv
  <2>3. ~raced => num[t] = local_seq /\ num[t] \notin used
    BY <2>1 DEF CommandInv
  <2>4. QED BY <1>1, <2>1, <2>2, <2>3 DEF CommandInv, Threads
<1>5. CASE CommandSend(t)
  <2>1. /\ UNCHANGED <<local_seq, lock>> /\ pc[t] = "send"
        /\ pc' = [pc EXCEPT ![t] = "idle"]
        /\ key' = [key EXCEPT ![t] = NoKey] /\ num' = [num EXCEPT ![t] = 0]
        /\ todo' = IF t = "main" THEN todo - 1 ELSE todo
    BY <1>5 DEF CommandSend
  <2>2. todo' \in Nat /\ (t = "rest" => todo' = todo)
    BY <2>1 DEF CommandInv, Threads
  <2>3. ~repeated' /\ ~wrongKey'
    BY <1>5, <2>1 DEF CommandSend, CommandInv, Transmit
  <2>4. ~raced => used' \in {used, used \cup {num[t]}}
    BY <1>5 DEF CommandSend, Transmit
  <2>5. QED BY <1>1, <2>1, <2>2, <2>3, <2>4 DEF CommandInv, Threads
<1>6. QED BY <1>2, <1>3, <1>4, <1>5 DEF Command

LEMMA CommandNext == ConnInv /\ CommandInv /\ [Next]_vars => CommandInv'
<1> SUFFICES ASSUME ConnInv, CommandInv, [Next]_vars PROVE CommandInv'
  OBVIOUS
<1>1. ASSUME NEW d \in Datagrams, LanHears(d) \/ ProbeHears(d) \/ AliveHears(d)
      PROVE  CommandInv'
  BY <1>1, CommandKept DEF LanHears, ProbeHears, AliveHears, CommandInv, conn
<1>2. CASE LanTimesOut \/ AskServer \/ ProbeFails \/ AliveTimesOut
  BY <1>2, CommandKept DEF LanTimesOut, AskServer, ProbeFails, AliveTimesOut, CommandInv, conn
<1>3. CASE AuthRequest
  BY <1>3, AuthFrame DEF AuthRequest, cmd
<1>4. CASE AuthRefused \/ AuthTimesOut \/ LoseSession \/ Retry
  BY <1>4, CommandKept DEF AuthRefused, AuthTimesOut, LoseSession, Retry, CommandInv, conn
<1>5. CASE FinishReconnect
  BY <1>5, CommandKept DEF FinishReconnect, CommandInv, conn
<1>6. CASE Reset
  <2>1. pc["main"] = "idle"
    BY <1>6 DEF Reset, CommandInv
  <2>2. /\ UNCHANGED <<todo, lock, pc, key, num>> /\ used' = {} /\ ~repeated' /\ ~wrongKey'
        /\ local_seq' = 0 /\ raced' = CommandUnderWay
    BY <1>6 DEF Reset, cmd
  <2>3. ~raced' => \A t \in Threads : pc[t] \notin CommandSteps
    BY <2>1, <2>2 DEF CommandUnderWay, Threads, CommandSteps
  <2>4. raced' \in BOOLEAN
    BY <2>2 DEF CommandUnderWay
  <2>5. QED BY <2>1, <2>2, <2>3, <2>4 DEF CommandInv, CommandSteps
<1>7. CASE SendFails
  <2>1. /\ UNCHANGED <<local_seq, lock, session_key, history>> /\ todo' = 0
        /\ pc' = [pc EXCEPT !["main"] = "idle"]
        /\ key' = [key EXCEPT !["main"] = NoKey] /\ num' = [num EXCEPT !["main"] = 0]
    BY <1>7 DEF SendFails, conn
  <2>2. QED BY <2>1 DEF CommandInv, CommandSteps, Threads, history
<1>8. CASE Restart
  <2>1. \A t \in Threads : pc'[t] = "idle"
    BY <1>8 DEF Restart
  <2>2. ~repeated' /\ ~wrongKey' /\ raced' = FALSE /\ used' = {} /\ local_seq' = 0 /\ todo' = 0
    BY <1>8 DEF Restart
  <2>3. /\ pc' \in [Threads -> CommandSteps \cup HealthSteps \cup {"idle"}]
        /\ DOMAIN key' = Threads /\ DOMAIN num' = Threads
    BY <1>8 DEF Restart
  <2>4. QED BY <2>1, <2>2, <2>3 DEF CommandInv, CommandSteps, Threads
<1>9. CASE Health
  <2>1. UNCHANGED <<main, local_seq, todo, lock, key, num, session_key, history>>
    BY <1>9 DEF Health, HealthBegin, HealthReadKey, HealthReadOutage, HealthReply, HealthReads,
                conn
  <2>2. PICK p \in HealthSteps \cup {"idle"} : pc' = [pc EXCEPT !["rest"] = p]
    BY <1>9 DEF Health, HealthBegin, HealthReadKey, HealthReadOutage, HealthReply, HealthSteps
  <2>3. pc'["rest"] \notin CommandSteps /\ pc'["main"] = pc["main"]
    BY <2>2 DEF CommandInv, CommandSteps, HealthSteps, Threads
  <2>4. pc' \in [Threads -> CommandSteps \cup HealthSteps \cup {"idle"}]
    BY <2>2 DEF CommandInv
  <2>5. QED BY <2>1, <2>3, <2>4 DEF CommandInv, CommandSteps, Threads, history
<1>10. CASE OutageDrags
  BY <1>10, CommandKept DEF OutageDrags, CommandInv, conn
<1>11. CASE Camera
  BY <1>11, CommandKept DEF Camera, CameraOpens, CameraHears, CameraChallenges, CameraAccepts,
                            CameraActs, CommandInv, conn
<1>12. CASE UNCHANGED vars
  BY <1>12, CommandKept DEF vars, CommandInv, conn
<1>13. QED
  BY <1>1, <1>2, <1>3, <1>4, <1>5, <1>6, <1>7, <1>8, <1>9, <1>10, <1>11, <1>12,
     CommandAuth, CommandStep
  DEF Next, Discovering, Authenticating, Recovering

\* Commands and authentication frames keep their numbers and their key, whatever the two
\* threads do, unless one of them raced the reset.
THEOREM CommandsCorrect == Spec => []CommandsIntact
<1>1. Init => ConnInv /\ CommandInv
  BY ConnInit, CommandInit
<1>2. ConnInv /\ CommandInv /\ [Next]_vars => (ConnInv /\ CommandInv)'
  BY ConnNext, CommandNext
<1>3. CommandInv => CommandsIntact
  BY DEF CommandInv, CommandsIntact
<1>4. QED BY <1>1, <1>2, <1>3, PTL DEF Spec

-----------------------------------------------------------------------------
(* What alive_handshake() keeps. *)

\* Induction over the numbers, for a set instead of a predicate: the smallest number that
\* is not in it would follow one that is.
LEMMA Induction ==
  ASSUME NEW S, 0 \in S, \A n \in Nat : n \in S => n + 1 \in S
  PROVE  \A n \in Nat : n \in S
<1> SUFFICES ASSUME Nat \ S # {} PROVE FALSE
  OBVIOUS
<1> DEFINE R == {p \in Nat \X Nat : p[1] < p[2]}
<1>1. IsWellFoundedOn(R, Nat)
  BY NatLessThanWellFounded DEF OpToRel
<1>2. PICK m \in Nat \ S : \A k \in Nat \ S : <<k, m>> \notin R
  BY <1>1, WFMin
<1>3. m - 1 \in Nat /\ m - 1 \in Nat \ S
  <2>1. m # 0
    OBVIOUS
  <2>2. m - 1 \in Nat /\ (m - 1) + 1 = m
    BY <2>1
  <2>3. QED BY <2>2
<1>4. <<m - 1, m>> \in Nat \X Nat /\ <<m - 1, m>>[1] < <<m - 1, m>>[2]
  BY <1>3
<1>5. QED BY <1>2, <1>3, <1>4

\* One datagram more, or not.
Grown(datagrams, d, e) == IF d.from = e THEN Append(datagrams, d) ELSE datagrams

\* What the recursive definition of kept says of its value at n.
Filtered(g, e, s, n) == IF n = 0 THEN <<>> ELSE Grown(g[n - 1], s[n], e)

LEMMA GrownType ==
  ASSUME NEW s \in Seq(Datagrams), NEW d \in Datagrams, NEW e
  PROVE  Grown(s, d, e) \in Seq(Datagrams)
  BY AppendProperties DEF Grown

\* The recursive definition in KeptFrom defines what it is meant to, datagrams.
LEMMA KeptFromType ==
  ASSUME NEW s \in Seq(Datagrams), NEW e
  PROVE  KeptFrom(e, s) \in Seq(Datagrams)
<1> DEFINE N == Len(s)
           D == Seq(Datagrams)
           S == {k \in Nat : k <= N => \E g \in [0..k -> D] :
                               \A n \in 0..k : g[n] = Filtered(g, e, s, n)}
<1>1. /\ N \in Nat /\ <<>> \in D
      /\ \A n \in 1..N, x \in D : Grown(x, s[n], e) \in D
  BY LenProperties, ElementOfSeq, EmptySeq, GrownType
<1> HIDE DEF N, D
<1>2. 0 \in S
  <2> DEFINE h == [n \in 0..0 |-> <<>>]
  <2>1. h \in [0..0 -> D]
    BY <1>1
  <2>2. \A n \in 0..0 : h[n] = Filtered(h, e, s, n)
    BY DEF Filtered
  <2>3. QED BY <2>1, <2>2
<1>3. ASSUME NEW k \in Nat, k \in S PROVE k + 1 \in S
  <2>1. SUFFICES ASSUME k + 1 <= N
                 PROVE  \E g \in [0..(k + 1) -> D] :
                          \A n \in 0..(k + 1) : g[n] = Filtered(g, e, s, n)
    OBVIOUS
  <2>2. PICK g \in [0..k -> D] : \A n \in 0..k : g[n] = Filtered(g, e, s, n)
    BY <1>1, <1>3, <2>1
  <2> DEFINE h == [n \in 0..(k + 1) |-> IF n <= k THEN g[n] ELSE Filtered(g, e, s, n)]
  <2>3. Filtered(g, e, s, k + 1) \in D
    BY <1>1, <2>1, <2>2 DEF Filtered
  <2>4. h \in [0..(k + 1) -> D]
    BY <2>2, <2>3
  <2>5. \A n \in 0..(k + 1) : h[n] = Filtered(h, e, s, n)
    BY <2>2 DEF Filtered
  <2>6. QED BY <2>4, <2>5
<1>4. N \in S
  <2> HIDE DEF S
  <2>1. QED BY <1>1, <1>2, <1>3, Induction
<1>5. PICK g \in [0..N -> D] : \A n \in 0..N : g[n] = Filtered(g, e, s, n)
  <2>1. N <= N => \E g \in [0..N -> D] : \A n \in 0..N : g[n] = Filtered(g, e, s, n)
    BY <1>4, Zenon
  <2>2. N <= N
    BY <1>1
  <2>3. QED BY <2>1, <2>2, Zenon
<1> DEFINE d == CHOOSE d : d = [n \in 0..N |->
                                  IF n = 0 THEN <<>>
                                  ELSE IF s[n].from = e THEN Append(d[n - 1], s[n])
                                  ELSE d[n - 1]]
<1>6. g = [n \in 0..N |-> IF n = 0 THEN <<>>
                          ELSE IF s[n].from = e THEN Append(g[n - 1], s[n])
                          ELSE g[n - 1]]
  <2>1. g = [n \in 0..N |-> Filtered(g, e, s, n)]
    BY <1>5
  <2>2. QED BY <2>1, Zenon DEF Filtered, Grown
<1>7. d = [n \in 0..N |-> IF n = 0 THEN <<>>
                          ELSE IF s[n].from = e THEN Append(d[n - 1], s[n])
                          ELSE d[n - 1]]
  BY <1>6
<1>8. KeptFrom(e, s) = d[N]
  BY DEF KeptFrom, N
<1> HIDE DEF d
<1>9. \A n \in 0..N : d[n] = Filtered(d, e, s, n)
  BY <1>7, Zenon DEF Filtered, Grown
<1> DEFINE T == {k \in Nat : k <= N => d[k] \in D}
<1>10. 0 \in T
  BY <1>1, <1>9 DEF Filtered
<1>11. ASSUME NEW k \in Nat, k \in T PROVE k + 1 \in T
  <2>1. SUFFICES ASSUME k + 1 <= N PROVE d[k + 1] \in D
    OBVIOUS
  <2>2. k <= N /\ k + 1 \in 0..N /\ k + 1 \in 1..N /\ (k + 1) - 1 = k /\ k + 1 # 0
    BY <1>1, <2>1
  <2>3. d[k + 1] = Grown(d[k], s[k + 1], e)
    BY <1>9, <2>2 DEF Filtered
  <2>4. k <= N => d[k] \in D
    BY <1>11, Zenon
  <2>5. QED BY <1>1, <2>2, <2>3, <2>4
<1>12. N \in T
  <2> HIDE DEF T
  <2>1. QED BY <1>1, <1>10, <1>11, Induction
<1>13. QED BY <1>1, <1>8, <1>12 DEF D

-----------------------------------------------------------------------------
(* Types. *)

LEMMA TypeInit == Init => TypeOK
<1> SUFFICES ASSUME Init PROVE TypeOK
  OBVIOUS
<1> USE SessionAssumption DEF Init, NoKey, NoAddress
<1>1. main \in MainSteps /\ server \in 1..Servers /\ routes \subseteq Sessions
  BY DEF MainSteps
<1>2. early \in Seq(Datagrams) /\ pending \in Seq(Datagrams)
  BY EmptySeq
<1>3. /\ camera \in Sessions \cup {NoAddress} /\ session_key \in Sessions \cup {NoKey}
      /\ reconnecting \in {"no", "recent", "long"}
  OBVIOUS
<1>4. local_seq \in Nat /\ todo \in 0..Preflight /\ lock \in Threads \cup {"free"}
  OBVIOUS
<1>5. /\ pc \in [Threads -> CommandSteps \cup HealthSteps \cup {"idle"}]
      /\ key \in [Threads -> Sessions \cup {NoKey}] /\ num \in [Threads -> Nat]
  OBVIOUS
<1>6. sess \in Sessions /\ net \subseteq Datagrams /\ faults \in 0..MaxFaults /\ used \subseteq Nat
  BY DEF Sessions
<1>7. /\ did \in BOOLEAN /\ got_challenge \in BOOLEAN /\ saw \in BOOLEAN
      /\ repeated \in BOOLEAN /\ wrongKey \in BOOLEAN /\ raced \in BOOLEAN
  OBVIOUS
<1>8. QED BY <1>1, <1>2, <1>3, <1>4, <1>5, <1>6, <1>7 DEF TypeOK

\* What the search, the authentication and a reconnect change keeps its types.
TypeMain ==
  /\ main \in MainSteps /\ server \in 1..Servers /\ routes \subseteq Sessions
  /\ early \in Seq(Datagrams) /\ pending \in Seq(Datagrams)
  /\ did \in BOOLEAN /\ got_challenge \in BOOLEAN
  /\ camera \in Sessions \cup {NoAddress}
  /\ session_key \in Sessions \cup {NoKey}
  /\ reconnecting \in {"no", "recent", "long"}

TypeCommand ==
  /\ local_seq \in Nat /\ todo \in 0..Preflight /\ lock \in Threads \cup {"free"}
  /\ pc \in [Threads -> CommandSteps \cup HealthSteps \cup {"idle"}]
  /\ key \in [Threads -> Sessions \cup {NoKey}] /\ num \in [Threads -> Nat]
  /\ saw \in BOOLEAN /\ sess \in Sessions
  /\ net \subseteq Datagrams /\ faults \in 0..MaxFaults
  /\ used \subseteq Nat
  /\ repeated \in BOOLEAN /\ wrongKey \in BOOLEAN /\ raced \in BOOLEAN

LEMMA KeepMain ==
  ASSUME TypeMain, UNCHANGED <<main, search, did, conn, pending, got_challenge, reconnecting>>
  PROVE  TypeMain'
  BY DEF TypeMain, search, conn

LEMMA KeepCommand ==
  ASSUME TypeCommand, UNCHANGED <<local_seq, cmd, saw, link, faults, history>>
  PROVE  TypeCommand'
  BY DEF TypeCommand, cmd, link, history

\* discover() keeps the types.
LEMMA DiscoveringType ==
  ASSUME TypeMain, TypeCommand, Discovering
  PROVE  TypeMain' /\ TypeCommand'
<1> USE DEF MainSteps, conn, search
<1>1. TypeCommand'
  BY KeepCommand DEF Discovering, LanHears, ProbeHears, LanTimesOut, AskServer, ProbeFails
<1>2. ASSUME NEW d \in Datagrams, NEW kept \in Seq(Datagrams), Locate(d.from, kept),
             did' \in BOOLEAN, UNCHANGED <<session_key, got_challenge, reconnecting>>
      PROVE  TypeMain'
  <2>1. pending' \in Seq(Datagrams)
    BY <1>2, KeptFromType DEF Locate
  <2>2. early' \in Seq(Datagrams)
    BY <1>2, EmptySeq DEF Locate
  <2>3. /\ camera' \in Sessions /\ main' = "alive" /\ server' = 1 /\ routes' = {}
    BY <1>2 DEF Locate, Datagrams
  <2>4. QED BY <1>2, <2>1, <2>2, <2>3, SessionAssumption DEF TypeMain
<1>3. ASSUME NEW d \in Datagrams, LanHears(d) PROVE TypeMain'
  <2>1. pending \in Seq(Datagrams) /\ Locate(d.from, pending) /\ did' \in BOOLEAN
        /\ UNCHANGED <<session_key, got_challenge, reconnecting>>
    BY <1>3 DEF LanHears, TypeMain
  <2>2. QED BY <1>2, <2>1
<1>4. ASSUME NEW d \in Datagrams, ProbeHears(d) PROVE TypeMain'
  <2>1. UNCHANGED <<did, session_key, got_challenge, reconnecting>> /\ did' \in BOOLEAN
    BY <1>4 DEF ProbeHears, TypeMain
  <2>2. CASE Locate(d.from, pending \o early)
    <3>1. pending \o early \in Seq(Datagrams)
      BY ConcatProperties DEF TypeMain
    <3>2. QED BY <1>2, <2>1, <2>2, <3>1
  <2>3. CASE early' = Append(early, d) /\ UNCHANGED <<main, server, routes, camera, pending>>
    <3>1. early' \in Seq(Datagrams)
      BY <2>3, AppendProperties DEF TypeMain
    <3>2. QED BY <2>1, <2>3, <3>1 DEF TypeMain
  <2>4. QED BY <1>4, <2>2, <2>3 DEF ProbeHears
<1>5. CASE LanTimesOut
  BY <1>1, <1>5 DEF LanTimesOut, TypeMain, GiveUp
<1>6. CASE AskServer
  <2>1. routes' \subseteq Sessions
    <3>1. PICK a \in 0..sess, b \in 0..sess : routes' \in {{}, {a}, {a, b}}
      BY <1>6 DEF AskServer
    <3>2. a \in Sessions /\ b \in Sessions
      BY SessionAssumption DEF TypeCommand, Sessions
    <3>3. QED BY <3>1, <3>2
  <2>2. main' \in MainSteps /\ server' \in 1..Servers
    BY <1>6, SessionAssumption DEF AskServer, NextServer, GiveUp, TypeMain
  <2>3. UNCHANGED <<early, did, conn, pending, got_challenge, reconnecting>>
    BY <1>6 DEF AskServer
  <2>4. QED BY <1>1, <2>1, <2>2, <2>3 DEF TypeMain
<1>7. CASE ProbeFails
  <2>1. routes' \subseteq Sessions /\ early' = <<>>
    BY <1>7 DEF ProbeFails, TypeMain
  <2>2. main' \in MainSteps /\ server' \in 1..Servers
    BY <1>7, SessionAssumption DEF ProbeFails, NextServer, GiveUp, TypeMain
  <2>3. UNCHANGED <<did, conn, pending, got_challenge, reconnecting>>
    BY <1>7 DEF ProbeFails
  <2>4. QED BY <1>1, <2>1, <2>2, <2>3, EmptySeq DEF TypeMain
<1>8. QED BY <1>1, <1>3, <1>4, <1>5, <1>6, <1>7 DEF Discovering

LEMMA SendAuthType ==
  ASSUME TypeCommand, SendAuth, UNCHANGED <<cmd, saw, link, faults>>
  PROVE  TypeCommand'
<1>1. local_seq' \in Nat /\ used' \subseteq Nat
  <2>1. local_seq \in Nat /\ used \subseteq Nat
    BY DEF TypeCommand
  <2>2. used' \in {used, used \cup {local_seq}} /\ local_seq' = local_seq + 1
    BY DEF SendAuth, Transmit
  <2>3. QED BY <2>1, <2>2
<1>2. repeated' \in BOOLEAN /\ UNCHANGED <<wrongKey, raced>>
  BY DEF TypeCommand, SendAuth, Transmit
<1>3. QED BY <1>1, <1>2 DEF TypeCommand, cmd, link

\* alive_handshake() and auth() keep the types.
LEMMA AuthenticatingType ==
  ASSUME TypeMain, TypeCommand, Authenticating
  PROVE  TypeMain' /\ TypeCommand'
<1> USE DEF MainSteps, conn, search
<1>1. ASSUME NEW d \in Datagrams, AliveHears(d) PROVE TypeMain' /\ TypeCommand'
  <2>1. TypeCommand'
    BY <1>1, KeepCommand DEF AliveHears
  <2>2. main' \in MainSteps /\ got_challenge' \in BOOLEAN
    BY <1>1 DEF AliveHears, TypeMain
  <2>3. pending' \in Seq(Datagrams)
    BY <1>1, AppendProperties DEF AliveHears, TypeMain
  <2>4. UNCHANGED <<search, did, conn, reconnecting>>
    BY <1>1 DEF AliveHears
  <2>5. QED BY <2>1, <2>2, <2>3, <2>4 DEF TypeMain
<1>2. ASSUME NEW d \in Datagrams, AuthHears(d) PROVE TypeMain' /\ TypeCommand'
  <2>1. pending' \in Seq(Datagrams)
    BY <1>2, HeadTailProperties DEF AuthHears, Take, TypeMain
  <2>2. UNCHANGED <<search, did, camera, reconnecting, lock, pc, key, num, saw, link, faults>>
    BY <1>2 DEF AuthHears
  <2>3. CASE AuthChallenge(d)
    <3>1. UNCHANGED cmd /\ SendAuth
      BY <2>2, <2>3 DEF AuthChallenge, cmd
    <3>2. TypeCommand'
      BY <2>2, <3>1, SendAuthType
    <3>3. QED BY <2>1, <2>2, <2>3, <3>2 DEF AuthChallenge, TypeMain
  <2>4. CASE AuthOk(d)
    <3>1. main' \in MainSteps /\ session_key' \in Sessions /\ todo' \in 0..Preflight
      BY <2>4, SessionAssumption DEF AuthOk, Datagrams, TypeCommand
    <3>2. UNCHANGED <<got_challenge, local_seq, history>>
      BY <2>4 DEF AuthOk
    <3>3. TypeMain'
      BY <2>1, <2>2, <3>1, <3>2 DEF TypeMain
    <3>4. TypeCommand'
      BY <2>2, <3>1, <3>2 DEF TypeCommand, history, link
    <3>5. QED BY <3>3, <3>4
  <2>5. CASE AuthIgnores(d)
    <3>1. TypeCommand'
      BY <2>2, <2>5, KeepCommand DEF AuthIgnores, cmd
    <3>2. QED BY <2>1, <2>2, <2>5, <3>1 DEF AuthIgnores, TypeMain
  <2>6. QED BY <1>2, <2>3, <2>4, <2>5 DEF AuthHears
<1>3. CASE AliveTimesOut
  <2>1. TypeCommand'
    BY <1>3, KeepCommand DEF AliveTimesOut
  <2>2. QED BY <1>3, <2>1 DEF AliveTimesOut, TypeMain
<1>4. CASE AuthRequest
  <2>1. TypeMain'
    BY <1>4, KeepMain DEF AuthRequest
  <2>2. QED BY <1>4, <2>1, SendAuthType DEF AuthRequest
<1>5. CASE AuthRefused
  <2>1. TypeMain'
    BY <1>5 DEF AuthRefused, GiveUp, TypeMain
  <2>2. faults' \in 0..MaxFaults /\ UNCHANGED <<local_seq, cmd, saw, link, history>>
    BY <1>5, SessionAssumption DEF AuthRefused, TypeCommand
  <2>3. QED BY <2>1, <2>2 DEF TypeCommand, cmd, link, history
<1>6. CASE AuthTimesOut
  <2>1. TypeCommand'
    BY <1>6, KeepCommand DEF AuthTimesOut
  <2>2. QED BY <1>6, <2>1 DEF AuthTimesOut, GiveUp, TypeMain
<1>7. QED BY <1>1, <1>2, <1>3, <1>4, <1>5, <1>6 DEF Authenticating

\* A reconnect and a restart keep the types.
LEMMA RecoveringType ==
  ASSUME TypeMain, TypeCommand, Recovering
  PROVE  TypeMain' /\ TypeCommand'
<1> USE DEF MainSteps, conn, search
<1>1. CASE LoseSession \/ Retry \/ FinishReconnect
  <2>1. TypeCommand'
    BY <1>1, KeepCommand DEF LoseSession, Retry, FinishReconnect
  <2>2. QED BY <1>1, <2>1 DEF LoseSession, Retry, FinishReconnect, TypeMain
<1>2. CASE Reset
  <2>1. TypeMain'
    BY <1>2, EmptySeq DEF Reset, TypeMain
  <2>2. /\ local_seq' = 0 /\ used' = {} /\ repeated' = FALSE /\ wrongKey' = FALSE
        /\ raced' \in BOOLEAN /\ UNCHANGED <<cmd, saw, link, faults>>
    BY <1>2 DEF Reset, CommandUnderWay
  <2>3. QED BY <2>1, <2>2 DEF TypeCommand, cmd, link
<1>3. CASE SendFails
  <2>1. TypeMain'
    BY <1>3, SessionAssumption, EmptySeq DEF SendFails, GiveUp, TypeMain
  <2>2. /\ faults' \in 0..MaxFaults /\ todo' \in 0..Preflight
        /\ UNCHANGED <<local_seq, lock, saw, link, history>>
    BY <1>3, SessionAssumption DEF SendFails, TypeCommand
  <2>3. /\ pc' \in [Threads -> CommandSteps \cup HealthSteps \cup {"idle"}]
        /\ key' \in [Threads -> Sessions \cup {NoKey}] /\ num' \in [Threads -> Nat]
    BY <1>3 DEF SendFails, TypeCommand
  <2>4. QED BY <2>1, <2>2, <2>3 DEF TypeCommand, link, history
<1>4. CASE Restart
  <2>1. TypeMain'
    <3>1. main' = "lan" /\ server' = 1 /\ routes' = {} /\ early' = <<>> /\ pending' = <<>>
      BY <1>4 DEF Restart
    <3>2. /\ camera' = NoAddress /\ session_key' = NoKey /\ did' \in BOOLEAN
          /\ got_challenge' = FALSE /\ UNCHANGED reconnecting
      BY <1>4 DEF Restart
    <3>3. early' \in Seq(Datagrams) /\ pending' \in Seq(Datagrams)
      BY <3>1, EmptySeq
    <3>4. server' \in 1..Servers /\ routes' \subseteq Sessions /\ main' \in MainSteps
      BY <3>1, SessionAssumption
    <3>5. reconnecting' \in {"no", "recent", "long"} /\ did' \in BOOLEAN
      BY <3>2 DEF TypeMain
    <3>6. QED BY <3>2, <3>3, <3>4, <3>5 DEF TypeMain
  <2>2. /\ local_seq' = 0 /\ todo' \in 0..Preflight /\ lock' = "free" /\ saw' = FALSE
        /\ net' = {} /\ used' = {} /\ repeated' = FALSE /\ wrongKey' = FALSE /\ raced' = FALSE
        /\ UNCHANGED <<sess, faults>>
    BY <1>4, SessionAssumption DEF Restart
  <2>3. /\ pc' \in [Threads -> CommandSteps \cup HealthSteps \cup {"idle"}]
        /\ key' \in [Threads -> Sessions \cup {NoKey}] /\ num' \in [Threads -> Nat]
    BY <1>4 DEF Restart
  <2>4. QED BY <2>1, <2>2, <2>3 DEF TypeCommand
<1>5. QED BY <1>1, <1>2, <1>3, <1>4 DEF Recovering

\* send_ioctl() keeps the types: a command of a reconnect is one of those left to send.
LEMMA CommandType ==
  ASSUME TypeMain, TypeCommand, CommandInv, NEW t \in Threads, Command(t)
  PROVE  TypeMain' /\ TypeCommand'
<1>1. TypeMain'
  BY KeepMain DEF Command, CommandBegin, CommandBuild, CommandBump, CommandSend
<1>2. UNCHANGED <<saw, link, faults>>
  BY DEF Command, CommandBegin, CommandBuild, CommandBump, CommandSend
<1>3. CASE CommandBegin(t) \/ CommandBuild(t) \/ CommandBump(t)
  <2>1. UNCHANGED <<todo, history>>
    BY <1>3 DEF CommandBegin, CommandBuild, CommandBump
  <2>2. local_seq' \in Nat /\ lock' \in Threads \cup {"free"}
    BY <1>3 DEF CommandBegin, CommandBuild, CommandBump, TypeCommand
  <2>3. /\ pc' \in [Threads -> CommandSteps \cup HealthSteps \cup {"idle"}]
        /\ key' \in [Threads -> Sessions \cup {NoKey}] /\ num' \in [Threads -> Nat]
    BY <1>3 DEF CommandBegin, CommandBuild, CommandBump, CommandSteps, TypeMain, TypeCommand
  <2>4. QED BY <1>1, <1>2, <2>1, <2>2, <2>3 DEF TypeCommand, link, history
<1>4. CASE CommandSend(t)
  <2>1. UNCHANGED <<local_seq, lock, raced>>
    BY <1>4 DEF CommandSend
  <2>2. /\ pc' \in [Threads -> CommandSteps \cup HealthSteps \cup {"idle"}]
        /\ key' \in [Threads -> Sessions \cup {NoKey}] /\ num' \in [Threads -> Nat]
    BY <1>4 DEF CommandSend, TypeCommand
  <2>3. todo' \in 0..Preflight
    <3>1. CASE t = "main"
      <4>1. pc["main"] # "idle" /\ todo' = todo - 1
        BY <1>4, <3>1 DEF CommandSend
      <4>2. todo > 0
        BY <4>1 DEF CommandInv
      <4>3. QED BY <4>1, <4>2, SessionAssumption DEF TypeCommand
    <3>2. CASE t # "main"
      BY <1>4, <3>2 DEF CommandSend, TypeCommand
    <3>3. QED BY <3>1, <3>2
  <2>4. used' \subseteq Nat
    <3>1. num[t] \in Nat /\ used \subseteq Nat
      BY DEF TypeCommand
    <3>2. used' \in {used, used \cup {num[t]}}
      BY <1>4 DEF CommandSend, Transmit
    <3>3. QED BY <3>1, <3>2
  <2>5. repeated' \in BOOLEAN /\ wrongKey' \in BOOLEAN
    BY <1>4 DEF CommandSend, Transmit, TypeCommand
  <2>6. QED BY <1>1, <1>2, <2>1, <2>2, <2>3, <2>4, <2>5 DEF TypeCommand, link
<1>5. QED BY <1>3, <1>4 DEF Command

LEMMA TypeNext == TypeOK /\ CommandInv /\ [Next]_vars => TypeOK'
<1> SUFFICES ASSUME TypeMain, TypeCommand, CommandInv, [Next]_vars
             PROVE  TypeMain' /\ TypeCommand'
  BY DEF TypeOK, TypeMain, TypeCommand
<1>1. ASSUME NEW t \in Threads, Command(t) PROVE TypeMain' /\ TypeCommand'
  BY <1>1, CommandType
<1>2. CASE Health
  <2>1. TypeMain'
    BY <1>2, KeepMain DEF Health, HealthBegin, HealthReadKey, HealthReadOutage, HealthReply,
                          HealthReads
  <2>2. UNCHANGED <<local_seq, todo, lock, key, num, link, faults, history>>
    BY <1>2 DEF Health, HealthBegin, HealthReadKey, HealthReadOutage, HealthReply, HealthReads
  <2>3. saw' \in BOOLEAN
    BY <1>2 DEF Health, HealthBegin, HealthReadKey, HealthReadOutage, HealthReply, TypeCommand
  <2>4. pc' \in [Threads -> CommandSteps \cup HealthSteps \cup {"idle"}]
    BY <1>2 DEF Health, HealthBegin, HealthReadKey, HealthReadOutage, HealthReply,
                HealthSteps, TypeCommand
  <2>5. QED BY <2>1, <2>2, <2>3, <2>4 DEF TypeCommand, link, history
<1>3. CASE OutageDrags
  <2>1. TypeCommand'
    BY <1>3, KeepCommand DEF OutageDrags
  <2>2. QED BY <1>3, <2>1 DEF OutageDrags, TypeMain, search, conn
<1>4. CASE Camera
  <2>1. TypeMain'
    BY <1>4, KeepMain DEF Camera, CameraOpens, CameraHears, CameraChallenges, CameraAccepts,
                          CameraActs
  <2>2. UNCHANGED <<local_seq, cmd, saw, faults, history>>
    BY <1>4 DEF Camera, CameraOpens, CameraHears, CameraChallenges, CameraAccepts, CameraActs
  <2>3. sess' \in Sessions
    BY <1>4, SessionAssumption
    DEF Camera, CameraOpens, CameraHears, CameraChallenges, CameraAccepts, TypeCommand, Sessions
  <2>4. ASSUME NEW k \in Kinds, Says(sess, k) PROVE net' \subseteq Datagrams
    BY <2>4 DEF Says, Datagrams, TypeCommand
  <2>5. net' \subseteq Datagrams
    BY <1>4, <2>4 DEF Camera, CameraOpens, CameraHears, CameraChallenges, CameraAccepts,
                      Kinds, TypeCommand
  <2>6. QED BY <2>1, <2>2, <2>3, <2>5 DEF TypeCommand, cmd, history
<1>5. CASE UNCHANGED vars
  BY <1>5, KeepMain, KeepCommand DEF vars
<1>6. QED
  BY <1>1, <1>2, <1>3, <1>4, <1>5, DiscoveringType, AuthenticatingType, RecoveringType DEF Next

\* The variables keep their types: what is kept in pending and early are datagrams, no
\* rendezvous server but the known ones is asked, and a reconnect never has fewer than no
\* commands left to send.
THEOREM SessionTypeCorrect == Spec => []TypeOK
<1>1. Init => ConnInv /\ CommandInv /\ TypeOK
  BY ConnInit, CommandInit, TypeInit
<1>2. ConnInv /\ CommandInv /\ TypeOK /\ [Next]_vars => (ConnInv /\ CommandInv /\ TypeOK)'
  BY ConnNext, CommandNext, TypeNext
<1>3. QED BY <1>1, <1>2, PTL DEF Spec
================================================================================
