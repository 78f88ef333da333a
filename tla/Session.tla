-------------------------------- MODULE Session --------------------------------
(***************************************************************************)
(* How the bridge finds its camera, authenticates, loses it and comes back *)
(* (camera_session.py, and main() of abus_rtsp_bridge.py), the commands it *)
(* sends meanwhile, and what /health says of it (ptz_rest_api.py).         *)
(*                                                                         *)
(* Two threads share the CameraSession object.  The main thread runs       *)
(* discover(), alive_handshake() and auth(), reads the stream until the    *)
(* session is lost, and reconnects: main is its program counter.  One REST *)
(* thread serves a request at a time: it sends a command or answers        *)
(* /health.  Both send commands with send_ioctl(); pc is where a thread    *)
(* stands in it.                                                           *)
(*                                                                         *)
(* The camera gives each of its sessions an address and a key of its own:  *)
(* both are named by the session.  Datagrams are not removed from net when *)
(* they arrive, so they may be lost, repeated, overtaken, or come from a   *)
(* session that is long gone.                                              *)
(***************************************************************************)
EXTENDS Integers, Sequences

CONSTANTS
  MaxSession,  \* bound: the camera's sessions are 0..MaxSession
  Servers,     \* RENDEZVOUS_SERVERS: how many there are (3 in the code)
  Preflight,   \* the commands of preflight(), start_video() and start_audio(): 13
  MaxPending,  \* bound: datagrams kept for auth()
  MaxSeq,      \* bound: the REST thread begins no command, and auth() asks for no
               \* challenge and answers no repeated one, once local_seq is there
  MaxFaults    \* bound: sends that fail and refusals of the camera

ASSUME SessionAssumption ==
  /\ MaxSession \in Nat /\ Servers \in Nat \ {0} /\ Preflight \in Nat
  /\ MaxPending \in Nat /\ MaxSeq \in Nat /\ MaxFaults \in Nat

Sessions == 0..MaxSession

NoKey == -1

\* camera_ip is None.
NoAddress == -1

\* A MSG_ALIVE_ACK, and in MSG_DATA an AUTH_TYPE_CHALLENGE or an AUTH_TYPE_OK.
Kinds == {"alive", "challenge", "ok"}

Datagrams == [from : Sessions, kind : Kinds]

Data == {"challenge", "ok"}

Threads == {"main", "rest"}

VARIABLES
  main,           \* what the main thread is about to do
  server, routes, \* the rendezvous server asked, and its candidates not yet probed
  early,          \* data received while a candidate is probed
  did,            \* the camera's DID is known
  camera,         \* (camera_ip, camera_port)
  pending,        \* _pending_datagrams
  got_challenge,
  session_key,    \* the session whose key it is
  reconnecting,   \* reconnecting_since: not set, set, or set for more than 120 s
  local_seq,
  todo,           \* commands of the reconnect that are left to send
  lock,           \* who holds _ioctl_lock
  pc,             \* thread -> where it stands in send_ioctl() or _reply_health()
  key, num,       \* thread -> the key and the number of the frame it builds
  saw,            \* discovered and authed, as the /health request read them
  sess,           \* the camera's current session
  net,            \* the datagrams sent to the bridge
  faults,
  raced,          \* history: a command was under way at the last reset
  used,           \* history: the numbers of the frames sent since then, unless raced
  repeated,       \* history: one of them was used twice
  wrongKey        \* history: a command among them was encrypted with another key

search    == <<server, routes, early>>
conn      == <<camera, session_key>>
cmd       == <<todo, lock, pc, key, num>>
history   == <<used, repeated, wrongKey, raced>>
link      == <<sess, net>>
vars      == <<main, search, did, conn, pending, got_challenge, reconnecting, local_seq,
               cmd, saw, link, faults, history>>

MainSteps == {"lan", "ask", "probe", "alive", "auth", "command", "stream", "reset",
              "backoff", "exited"}
CommandSteps == {"build", "bump", "send"}
HealthSteps == {"read key", "read outage", "read outage again"}

TypeOK ==
  /\ main \in MainSteps /\ server \in 1..Servers /\ routes \subseteq Sessions
  /\ early \in Seq(Datagrams) /\ pending \in Seq(Datagrams)
  /\ did \in BOOLEAN /\ got_challenge \in BOOLEAN
  /\ camera \in Sessions \cup {NoAddress}
  /\ session_key \in Sessions \cup {NoKey}
  /\ reconnecting \in {"no", "recent", "long"}
  /\ local_seq \in Nat /\ todo \in 0..Preflight /\ lock \in Threads \cup {"free"}
  /\ pc \in [Threads -> CommandSteps \cup HealthSteps \cup {"idle"}]
  /\ key \in [Threads -> Sessions \cup {NoKey}] /\ num \in [Threads -> Nat]
  /\ saw \in BOOLEAN /\ sess \in Sessions
  /\ net \subseteq Datagrams /\ faults \in 0..MaxFaults
  /\ used \subseteq Nat
  /\ repeated \in BOOLEAN /\ wrongKey \in BOOLEAN /\ raced \in BOOLEAN

Reconnecting == reconnecting # "no"

\* Mutant: a reconnect that fails is logged, and the stream read on.
GiveUpAndReadOn == main' = IF Reconnecting THEN "stream" ELSE "exited"

\* Discovery or authentication has failed, or a send has raised an OSError: main() ends,
\* and reconnect_until_success() waits and tries again.
GiveUp == main' = IF Reconnecting THEN "backoff" ELSE "exited"

\* A frame reaches the network.  (The history stops where a command raced a reset.)
Transmit(n) ==
  IF raced THEN UNCHANGED <<used, repeated>>
           ELSE used' = used \cup {n} /\ repeated' = (repeated \/ n \in used)

-----------------------------------------------------------------------------
(* discover() on the local network. *)

\* The datagrams from e, in their order.
KeptFrom(e, datagrams) ==
  LET kept[n \in 0..Len(datagrams)] ==
        IF n = 0 THEN <<>>
        ELSE IF datagrams[n].from = e THEN Append(kept[n - 1], datagrams[n])
        ELSE kept[n - 1]
  IN  kept[Len(datagrams)]

\* An address is adopted.  alive_handshake() begins by keeping what came from it only.
Locate(e, kept) ==
  /\ camera' = e
  /\ pending' = KeptFrom(e, kept)
  /\ main' = "alive"
  /\ server' = 1 /\ routes' = {} /\ early' = <<>>

LanHears(d) ==
  /\ main = "lan" /\ d \in net /\ d.kind = "alive"
  /\ Locate(d.from, pending)
  /\ did' = TRUE
  /\ UNCHANGED <<session_key, got_challenge, reconnecting, local_seq, cmd, saw, link,
                 faults, history>>

LanTimesOut ==
  /\ main = "lan"
  /\ IF did THEN main' = "ask" ELSE GiveUp
  /\ UNCHANGED <<search, did, conn, pending, got_challenge, reconnecting, local_seq, cmd,
                 saw, link, faults, history>>

-----------------------------------------------------------------------------
(* discover() through the rendezvous servers. *)

\* Mutant: one server too many.
NextServerPastLast ==
  \/ server <= Servers /\ server' = server + 1 /\ main' = "ask"
  \/ server > Servers /\ server' = 1 /\ GiveUp

NextServer ==
  \/ server < Servers /\ server' = server + 1 /\ main' = "ask"
  \/ server = Servers /\ server' = 1 /\ GiveUp

\* The server reports at most one private and one external route, perhaps outdated ones.
AskServer ==
  /\ main = "ask"
  /\ \E a, b \in 0..sess : routes' \in {{}, {a}, {a, b}}
  /\ IF routes' = {} THEN NextServer ELSE main' = "probe" /\ UNCHANGED server
  /\ UNCHANGED <<early, did, conn, pending, got_challenge, reconnecting, local_seq, cmd,
                 saw, link, faults, history>>

\* Which of the two is the private route, tried first, is up to the camera's network.
Candidate == CHOOSE a \in routes : TRUE

ProbeHears(d) ==
  /\ main = "probe" /\ d \in net /\ d.from = Candidate
  /\ \/ d.kind = "alive" /\ Locate(d.from, pending \o early)
     \/ /\ d.kind \in Data /\ Len(pending) + Len(early) < MaxPending
        /\ early' = Append(early, d)
        /\ UNCHANGED <<main, server, routes, camera, pending>>
  /\ UNCHANGED <<did, session_key, got_challenge, reconnecting, local_seq, cmd, saw,
                 link, faults, history>>

ProbeFails ==
  /\ main = "probe"
  /\ routes' = routes \ {Candidate} /\ early' = <<>>
  /\ IF routes' = {} THEN NextServer ELSE UNCHANGED <<main, server>>
  /\ UNCHANGED <<did, conn, pending, got_challenge, reconnecting, local_seq, cmd, saw,
                 link, faults, history>>

-----------------------------------------------------------------------------
(* alive_handshake(). *)

\* Data that belongs to the auth exchange is kept for auth().
AliveHears(d) ==
  /\ main = "alive" /\ d \in net /\ d.from = camera
  /\ \/ /\ d.kind = "alive"
        /\ main' = "auth" /\ got_challenge' = FALSE /\ UNCHANGED pending
     \/ /\ d.kind \in Data /\ Len(pending) < MaxPending
        /\ pending' = Append(pending, d)
        /\ UNCHANGED <<main, got_challenge>>
  /\ UNCHANGED <<search, did, conn, reconnecting, local_seq, cmd, saw, link, faults,
                 history>>

\* "no alive ack from the camera - continuing anyway"
AliveTimesOut ==
  /\ main = "alive"
  /\ main' = "auth" /\ got_challenge' = FALSE
  /\ UNCHANGED <<search, did, conn, pending, reconnecting, local_seq, cmd, saw, link,
                 faults, history>>

-----------------------------------------------------------------------------
(* auth(). *)

SendAuth ==
  /\ Transmit(local_seq)
  /\ local_seq' = local_seq + 1
  /\ UNCHANGED <<wrongKey, raced>>

\* A camera that stays silent is asked for its challenge.
AuthRequest ==
  /\ main = "auth" /\ ~got_challenge /\ local_seq < MaxSeq
  /\ SendAuth
  /\ UNCHANGED <<main, search, did, conn, pending, got_challenge, reconnecting, cmd,
                 saw, link, faults>>

\* Datagrams kept from before come first.
Take(d) ==
  \/ pending # <<>> /\ d = Head(pending) /\ pending' = Tail(pending)
  \/ pending = <<>> /\ d \in net /\ UNCHANGED pending

\* Every challenge is answered, a repeated one too.
AuthChallenge(d) ==
  /\ d.from = camera /\ d.kind = "challenge"
  /\ got_challenge => local_seq < MaxSeq
  /\ got_challenge' = TRUE
  /\ SendAuth
  /\ UNCHANGED <<main, session_key, todo>>

\* Mutant: the address of an AUTH_OK is not looked at.
AuthOkFromAnyone(d) ==
  /\ d.kind = "ok"
  /\ session_key' = d.from
  /\ IF Reconnecting THEN main' = "command" /\ todo' = Preflight
                     ELSE main' = "stream" /\ UNCHANGED todo
  /\ UNCHANGED <<got_challenge, local_seq, history>>

\* main() goes on to read_stream(); a reconnect first restarts the video.
AuthOk(d) ==
  /\ d.from = camera /\ d.kind = "ok"
  /\ session_key' = d.from
  /\ IF Reconnecting THEN main' = "command" /\ todo' = Preflight
                     ELSE main' = "stream" /\ UNCHANGED todo
  /\ UNCHANGED <<got_challenge, local_seq, history>>

\* From another address, or one more MSG_ALIVE_ACK.
AuthIgnores(d) ==
  /\ d.from # camera \/ d.kind = "alive"
  /\ UNCHANGED <<main, session_key, todo, got_challenge, local_seq, history>>

AuthHears(d) ==
  /\ main = "auth" /\ Take(d)
  /\ AuthChallenge(d) \/ AuthOk(d) \/ AuthIgnores(d)
  /\ UNCHANGED <<search, did, camera, reconnecting, lock, pc, key, num, saw, link,
                 faults>>

\* An AUTH_TYPE_FAILED or a MSG_STREAM_END from the camera.  (Wherever it was before, it
\* counts when auth() reads it.)
AuthRefused ==
  /\ main = "auth" /\ pending = <<>>
  /\ faults < MaxFaults /\ faults' = faults + 1
  /\ GiveUp
  /\ UNCHANGED <<search, did, conn, pending, got_challenge, reconnecting, local_seq, cmd,
                 saw, link, history>>

AuthTimesOut ==
  /\ main = "auth" /\ pending = <<>>
  /\ GiveUp
  /\ UNCHANGED <<search, did, conn, pending, got_challenge, reconnecting, local_seq, cmd,
                 saw, link, faults, history>>

-----------------------------------------------------------------------------
(* Losing the session and reconnecting. *)

\* Mutant: reconnecting_since is not set.
LoseSessionUnmarked ==
  /\ main = "stream"
  /\ main' = "reset"
  /\ UNCHANGED <<search, did, conn, pending, got_challenge, reconnecting, local_seq, cmd,
                 saw, link, faults, history>>

\* Any of the reasons for which read_stream() calls reconnect_until_success().
LoseSession ==
  /\ main = "stream"
  /\ reconnecting' = "recent"
  /\ main' = "reset"
  /\ UNCHANGED <<search, did, conn, pending, got_challenge, local_seq, cmd, saw, link,
                 faults, history>>

CommandUnderWay == pc["rest"] \in CommandSteps

\* reconnect() begins from nothing.
Reset ==
  /\ main = "reset"
  /\ camera' = NoAddress /\ session_key' = NoKey
  /\ pending' = <<>> /\ local_seq' = 0
  /\ main' = "lan"
  /\ used' = {} /\ repeated' = FALSE /\ wrongKey' = FALSE
  /\ raced' = CommandUnderWay
  /\ UNCHANGED <<search, did, got_challenge, reconnecting, cmd, saw, link, faults>>

Retry ==
  /\ main = "backoff"
  /\ main' = "reset"
  /\ UNCHANGED <<search, did, conn, pending, got_challenge, reconnecting, local_seq, cmd,
                 saw, link, faults, history>>

\* preflight(), start_video() and start_audio() are through.
FinishReconnect ==
  /\ main = "command" /\ todo = 0
  /\ main' = "stream" /\ reconnecting' = "no"
  /\ UNCHANGED <<search, did, conn, pending, got_challenge, local_seq, cmd, saw, link,
                 faults, history>>

\* An OSError from one of the sends that nothing but reconnect_until_success() catches.
SendFails ==
  /\ \/ main \in {"ask", "probe", "alive", "auth"}
     \/ main = "command" /\ pc["main"] = "send"
  /\ faults < MaxFaults /\ faults' = faults + 1
  /\ GiveUp
  /\ server' = 1 /\ routes' = {} /\ early' = <<>>
  /\ pc' = [pc EXCEPT !["main"] = "idle"] /\ todo' = 0
  /\ key' = [key EXCEPT !["main"] = NoKey] /\ num' = [num EXCEPT !["main"] = 0]
  /\ UNCHANGED <<did, conn, pending, got_challenge, reconnecting, local_seq, lock,
                 saw, link, history>>

\* The supervisor starts the worker again, on a new socket.
Restart ==
  /\ main = "exited"
  /\ main' = "lan" /\ did' \in BOOLEAN
  /\ server' = 1 /\ routes' = {} /\ early' = <<>>
  /\ camera' = NoAddress /\ session_key' = NoKey /\ pending' = <<>>
  /\ got_challenge' = FALSE /\ local_seq' = 0
  /\ pc' = [t \in Threads |-> "idle"] /\ lock' = "free" /\ todo' = 0
  /\ key' = [t \in Threads |-> NoKey] /\ num' = [t \in Threads |-> 0]
  /\ saw' = FALSE /\ net' = {}
  /\ used' = {} /\ repeated' = FALSE /\ wrongKey' = FALSE /\ raced' = FALSE
  /\ UNCHANGED <<reconnecting, sess, faults>>

-----------------------------------------------------------------------------
(* send_ioctl(). *)

\* The REST thread gets a request, or the main thread is in a reconnect.  The header is
\* encrypted before the lock is taken.
CommandBegin(t) ==
  /\ pc[t] = "idle" /\ session_key # NoKey
  /\ \/ t = "main" /\ main = "command" /\ todo > 0
     \/ t = "rest" /\ main # "exited" /\ local_seq < MaxSeq
  /\ pc' = [pc EXCEPT ![t] = "build"]
  /\ key' = [key EXCEPT ![t] = session_key]
  /\ UNCHANGED <<main, search, did, conn, pending, got_challenge, reconnecting, local_seq,
                 todo, lock, num, saw, link, faults, history>>

\* Mutant: the number is read before the lock is taken.
CommandBuildUnlocked(t) ==
  /\ pc[t] = "build"
  /\ num' = [num EXCEPT ![t] = local_seq]
  /\ pc' = [pc EXCEPT ![t] = "bump"]
  /\ UNCHANGED <<main, search, did, conn, pending, got_challenge, reconnecting, local_seq,
                 todo, lock, key, saw, link, faults, history>>

\* With the lock taken: a frame with the next number.
CommandBuild(t) ==
  /\ pc[t] = "build" /\ lock = "free"
  /\ lock' = t
  /\ num' = [num EXCEPT ![t] = local_seq]
  /\ pc' = [pc EXCEPT ![t] = "bump"]
  /\ UNCHANGED <<main, search, did, conn, pending, got_challenge, reconnecting, local_seq,
                 todo, key, saw, link, faults, history>>

CommandBump(t) ==
  /\ pc[t] = "bump"
  /\ local_seq' = local_seq + 1
  /\ lock' = "free"
  /\ pc' = [pc EXCEPT ![t] = "send"]
  /\ UNCHANGED <<main, search, did, conn, pending, got_challenge, reconnecting, todo, key,
                 num, saw, link, faults, history>>

\* _send(): without an address the frame is dropped.
CommandSend(t) ==
  /\ pc[t] = "send"
  /\ IF camera = NoAddress
       THEN UNCHANGED <<used, repeated, wrongKey>>
       ELSE Transmit(num[t]) /\ wrongKey' = (wrongKey \/ (~raced /\ key[t] # session_key))
  /\ pc' = [pc EXCEPT ![t] = "idle"]
  /\ key' = [key EXCEPT ![t] = NoKey] /\ num' = [num EXCEPT ![t] = 0]
  /\ todo' = IF t = "main" THEN todo - 1 ELSE todo
  /\ UNCHANGED <<main, search, did, conn, pending, got_challenge, reconnecting, local_seq,
                 lock, saw, link, faults, raced>>

-----------------------------------------------------------------------------
(* _reply_health(): the fields are read one after the other. *)

\* Nothing else changes while the REST thread reads.
HealthReads ==
  UNCHANGED <<main, search, did, conn, pending, got_challenge, reconnecting, local_seq,
              todo, lock, key, num, link, faults, history>>

HealthBegin ==
  /\ pc["rest"] = "idle" /\ main # "exited"
  /\ pc' = [pc EXCEPT !["rest"] = "read key"]
  /\ saw' = (camera # NoAddress)
  /\ HealthReads

HealthReadKey ==
  /\ pc["rest"] = "read key"
  /\ pc' = [pc EXCEPT !["rest"] = "read outage"]
  /\ saw' = (saw /\ session_key # NoKey)
  /\ HealthReads

\* reconnecting_since is set: it is read again.
HealthReadOutage ==
  /\ pc["rest"] = "read outage" /\ Reconnecting
  /\ pc' = [pc EXCEPT !["rest"] = "read outage again"]
  /\ UNCHANGED saw
  /\ HealthReads

Status(found, outage) ==
  CASE ~found -> "starting"
    [] found /\ outage = "long" -> "unhealthy"
    [] found /\ outage = "recent" -> "reconnecting"
    [] found /\ outage = "no" -> "serving"

\* What the request answers if its last read is the next step.  If the outage ends
\* between the two reads, the subtraction raises and there is no answer at all.
Answer ==
  CASE pc["rest"] = "read outage" /\ ~Reconnecting -> Status(saw, "no")
    [] pc["rest"] = "read outage again" /\ Reconnecting -> Status(saw, reconnecting)
    [] pc["rest"] = "read outage again" /\ ~Reconnecting -> "raised"
    [] OTHER -> "none"

HealthReply ==
  /\ Answer # "none"
  /\ pc' = [pc EXCEPT !["rest"] = "idle"]
  /\ saw' = FALSE
  /\ HealthReads

\* More than 120 seconds of reconnecting.
OutageDrags ==
  /\ reconnecting = "recent"
  /\ reconnecting' = "long"
  /\ UNCHANGED <<main, search, did, conn, pending, got_challenge, local_seq, cmd, saw,
                 link, faults, history>>

-----------------------------------------------------------------------------
(* The camera. *)

\* Nothing but the camera and the network changes.
CameraActs ==
  UNCHANGED <<main, search, did, conn, pending, got_challenge, reconnecting, local_seq,
              cmd, saw, faults, history>>

\* The address the bridge is talking to.
Contacted ==
  CASE main = "probe" -> Candidate
    [] main \in {"alive", "auth"} -> camera
    [] OTHER -> NoAddress

CameraOpens ==
  /\ main \in {"lan", "ask"} /\ sess < MaxSession
  /\ sess' = sess + 1
  /\ UNCHANGED net
  /\ CameraActs

Says(s, k) == net' = net \cup {[from |-> s, kind |-> k]}

CameraHears ==
  /\ \/ main = "lan" /\ Says(sess, "alive")
     \/ Contacted = sess /\ Says(sess, "alive")
  /\ UNCHANGED sess
  /\ CameraActs

CameraChallenges ==
  /\ Contacted = sess /\ Says(sess, "challenge")
  /\ UNCHANGED sess
  /\ CameraActs

\* The camera has got the answer to its challenge.
CameraAccepts ==
  /\ main = "auth" /\ got_challenge /\ camera = sess
  /\ Says(sess, "ok")
  /\ UNCHANGED sess
  /\ CameraActs

-----------------------------------------------------------------------------
Init ==
  /\ main = "lan" /\ did \in BOOLEAN
  /\ server = 1 /\ routes = {} /\ early = <<>>
  /\ camera = NoAddress /\ session_key = NoKey /\ pending = <<>>
  /\ got_challenge = FALSE /\ reconnecting = "no" /\ local_seq = 0
  /\ pc = [t \in Threads |-> "idle"] /\ lock = "free" /\ todo = 0
  /\ key = [t \in Threads |-> NoKey] /\ num = [t \in Threads |-> 0]
  /\ saw = FALSE /\ sess = 0 /\ net = {} /\ faults = 0
  /\ used = {} /\ repeated = FALSE /\ wrongKey = FALSE /\ raced = FALSE

Discovering ==
  \/ \E d \in Datagrams : LanHears(d) \/ ProbeHears(d)
  \/ LanTimesOut \/ AskServer \/ ProbeFails

Authenticating ==
  \/ \E d \in Datagrams : AliveHears(d) \/ AuthHears(d)
  \/ AliveTimesOut \/ AuthRequest \/ AuthRefused \/ AuthTimesOut

Recovering == LoseSession \/ Reset \/ Retry \/ FinishReconnect \/ SendFails \/ Restart

Command(t) == CommandBegin(t) \/ CommandBuild(t) \/ CommandBump(t) \/ CommandSend(t)

Health == HealthBegin \/ HealthReadKey \/ HealthReadOutage \/ HealthReply

Camera ==
  CameraOpens \/ CameraHears \/ CameraChallenges \/ CameraAccepts

Next ==
  \/ Discovering \/ Authenticating \/ Recovering
  \/ \E t \in Threads : Command(t)
  \/ Health \/ OutageDrags \/ Camera

Spec == Init /\ [][Next]_vars

-----------------------------------------------------------------------------
(* Fairness.  The threads run and their timeouts expire.  The camera is on its network: *)
(* what is asked again and again is answered some day, and an answer given again and    *)
(* again arrives some day.  Nothing makes the session be lost, a request come in, a     *)
(* fault happen or a server report a route.                                             *)

MainRuns ==
  \/ LanTimesOut \/ AskServer \/ ProbeFails \/ AliveTimesOut \/ AuthTimesOut
  \/ pending # <<>> /\ \E d \in Datagrams : AuthHears(d)
  \/ Reset \/ Retry \/ Command("main") \/ FinishReconnect \/ Restart

FromCamera(k) == [from |-> sess, kind |-> k]

Fairness ==
  /\ WF_vars(MainRuns)
  /\ WF_vars(CommandBuild("rest") \/ CommandBump("rest") \/ CommandSend("rest"))
  /\ SF_vars(main = "lan" /\ CameraHears) /\ SF_vars(LanHears(FromCamera("alive")))
  /\ SF_vars(main = "auth" /\ CameraChallenges)
  /\ SF_vars(AuthHears(FromCamera("challenge")))
  /\ SF_vars(CameraAccepts) /\ SF_vars(AuthHears(FromCamera("ok")))

FairSpec == Spec /\ Fairness

-----------------------------------------------------------------------------
(* Properties. *)

C == INSTANCE Connection WITH at <- camera, key <- session_key, None <- NoKey

\* Whatever arrives late, twice or from an old session, the bridge uses a key with the
\* address of the session that negotiated it only, and it gives up both or neither
\* (discover(), auth(), reconnect()).
ImplementsConnection == C!Spec

\* Commands of the REST thread and of a reconnect, and the frames of auth(), get numbers
\* of their own, and a command is encrypted with the key of the connection it goes out on,
\* whatever the two threads do (send_ioctl(), _send_auth(), which takes no lock).  The
\* exception is a command the REST thread is in the middle of while reconnect() resets the
\* connection under it: it and what is sent together with it may be lost, and the history
\* stops until the next reset.
CommandsIntact == ~repeated /\ ~wrongKey

\* Although /health reads its fields one by one while the main thread writes them, a
\* camera is never reported as served that is not (_reply_health()).
ServingIsServing == Answer = "serving" => main = "stream" /\ session_key # NoKey

\* A camera that can be reached gets its session back: neither a failed attempt, nor an
\* answer from an old session, nor a route that leads nowhere stops the bridge from
\* trying again (reconnect_until_success(), and the supervisor before the first session).
Reconnects == []<>(main = "stream" /\ session_key # NoKey)

\* README.md of the source, on /health: "unhealthy (reconnecting for >2 minutes straight -
\* something is genuinely stuck, e.g. the camera is unreachable)".  A request that comes
\* then is answered at a moment when nothing changes.
OutageIsUnhealthy ==
  reconnecting = "long" =>
    Status(camera # NoAddress /\ session_key # NoKey, reconnecting) = "unhealthy"
=============================================================================
