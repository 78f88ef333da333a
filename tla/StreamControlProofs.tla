-------------------------- MODULE StreamControlProofs --------------------------
(***************************************************************************)
(* Theorems about StreamControl, for any set of media pipelines and any    *)
(* number of grace windows.                                                *)
(*                                                                         *)
(* The inductive invariant IInv says what the generation counter is for:   *)
(* the current timer, if there is one, carries the current generation, and *)
(* a callback that has fired carries it only while its timer is current.   *)
(*                                                                         *)
(* ReleaseInv, which is inductive together with it, accounts for a camera  *)
(* that was told to start: its stream counts as running, with a client or  *)
(* a timer to come, or somebody is on the way to stop it.                  *)
(***************************************************************************)
EXTENDS StreamControl, TLAPS

\* What the generations of the timers say.
TimerInv ==
  /\ timer # NoTimer => timer = generation
  /\ \A g \in scheduled : g = timer
  /\ \A g \in fired : g <= generation /\ (g = generation => timer = g)
  /\ NoTimer \notin scheduled \cup fired /\ scheduled \cap fired = {}

\* What a client that is attached, or about to be, may rely on.
ServeInv ==
  /\ rtsp \in {"connecting", "locking", "deciding", "starting", "resetting"} => medias # {}
  /\ rtsp \in {"deciding", "starting", "resetting"} => timer = NoTimer
  /\ rtsp \in {"leaving", "arming"} => medias = {}
  /\ rtsp = "idle" /\ medias # {} /\ ~refused => is_streaming /\ timer = NoTimer

IInv == TypeOK /\ TimerInv /\ ServeInv

\* Facts of arithmetic that the steps below need.
LEMMA Numbers == 0 \in Nat /\ 0 \in 0..2
  OBVIOUS

\* The types of the variables hold initially.
LEMMA InitType == Init => TypeOK
  BY Numbers, Zenon DEF Init, TypeOK, NoTimer, RtspSteps, MainSteps

\* A command changes what the camera does, and nothing else of it.
LEMMA SendType ==
  ASSUME TypeOK, SendStart \/ SendStop
  PROVE  /\ told' \in {"nothing", "start", "stop"} /\ alive' \in BOOLEAN
         /\ video' \in BOOLEAN /\ streamEnd' \in BOOLEAN
<1>1. CASE SendStart
  BY <1>1, Zenon DEF TypeOK, SendStart
<1>2. CASE SendStop
  BY <1>2, Zenon DEF TypeOK, SendStop
<1>3. QED BY <1>1, <1>2

\* Every step keeps the types of the variables.
LEMMA NextType == TypeOK /\ [Next]_vars => TypeOK'
<1> SUFFICES ASSUME TypeOK, [Next]_vars PROVE TypeOK'
  OBVIOUS
<1> USE DEF TypeOK, clients, timers, stalls, loop, camera, history
<1>1. ASSUME NEW m \in Medias, Configure(m) PROVE TypeOK'
  BY <1>1 DEF Configure, RtspSteps
<1>2. ASSUME NEW m \in Medias, Unprepare(m) PROVE TypeOK'
  BY <1>2 DEF Unprepare, RtspSteps
<1>3. CASE Callback
  <2>1. CASE ConnectRefused
    BY <2>1 DEF ConnectRefused, RtspSteps
  <2>2. CASE ConnectResumes
    <3>1. generation' \in Nat
      BY <2>2 DEF ConnectResumes
    <3>2. QED BY <2>2, <3>1, Numbers, Zenon DEF ConnectResumes, RtspSteps, NoTimer
  <2>3. CASE ConnectJoins
    BY <2>3 DEF ConnectJoins, RtspSteps
  <2>4. CASE ConnectGoesOn
    BY <2>4 DEF ConnectGoesOn, RtspSteps
  <2>5. CASE ConnectStarts
    BY <2>5, SendType DEF ConnectStarts, RtspSteps
  <2>6. CASE ConnectRaises
    BY <2>6 DEF ConnectRaises, RtspSteps
  <2>7. CASE ConnectDone
    BY <2>7, Numbers, Zenon DEF ConnectDone, RtspSteps
  <2>8. CASE Disconnect
    <3>1. rtsp' \in RtspSteps /\ leftOn' \in BOOLEAN
      BY <2>8 DEF Disconnect, RtspSteps
    <3>2. QED BY <2>8, <3>1, ZenonT(30) DEF Disconnect
  <2>9. CASE ArmTimer
    BY <2>9 DEF ArmTimer, RtspSteps
  <2>10. QED BY <1>3, <2>1, <2>2, <2>3, <2>4, <2>5, <2>6, <2>7, <2>8, <2>9 DEF Callback
<1>4. ASSUME NEW g \in scheduled, TimerFires(g) PROVE TypeOK'
  BY <1>4 DEF TimerFires
<1>5. ASSUME NEW g \in fired, DeferredStop(g) PROVE TypeOK'
  <2>1. CASE g = generation
    BY <1>5, <2>1, Numbers, ZenonT(30) DEF DeferredStop, NoTimer
  <2>2. CASE g # generation
    BY <1>5, <2>2, ZenonT(60) DEF DeferredStop
  <2>3. QED BY <2>1, <2>2
<1>6. ASSUME NEW g \in stopping, StopVideo(g) PROVE TypeOK'
  <2>1. CASE SendStop
    BY <1>6, <2>1, SendType DEF StopVideo
  <2>2. CASE UNCHANGED camera
    BY <1>6, <2>2 DEF StopVideo
  <2>3. QED BY <1>6, <2>1, <2>2 DEF StopVideo
<1>7. CASE MainLoop
  <2>1. CASE StallCheck
    <3>1. stall_retries' \in 0..2
      BY <2>1 DEF StallCheck
    <3>2. main' \in MainSteps /\ session_key' \in BOOLEAN
      BY <2>1 DEF StallCheck, BeginReconnect, AskAgain, MainSteps
    <3>3. jammed' \in BOOLEAN /\ shown' \in BOOLEAN
      BY <2>1 DEF StallCheck, BeginReconnect, AskAgain
    <3>4. QED BY <2>1, <3>1, <3>2, <3>3, Zenon DEF StallCheck
  <2>2. CASE StallRetry
    BY <2>2, SendType DEF StallRetry, MainSteps
  <2>3. CASE ReconnectAuth
    BY <2>3 DEF ReconnectAuth, MainSteps
  <2>4. CASE ReconnectStart
    BY <2>4, SendType DEF ReconnectStart, MainSteps
  <2>5. CASE ReconnectDone
    BY <2>5, Numbers, ZenonT(30) DEF ReconnectDone, MainSteps
  <2>6. QED BY <1>7, <2>1, <2>2, <2>3, <2>4, <2>5 DEF MainLoop
<1>8. CASE RecvStreamEnd
  <2>1. CASE BeginReconnect /\ jammed' = FALSE
    BY <1>8, <2>1 DEF RecvStreamEnd, BeginReconnect, MainSteps
  <2>2. CASE UNCHANGED <<main, session_key, jammed, shown>>
    BY <1>8, <2>2, ZenonT(30) DEF RecvStreamEnd
  <2>3. QED BY <1>8, <2>1, <2>2 DEF RecvStreamEnd
<1>9. CASE EncoderStuck
  BY <1>9 DEF EncoderStuck, BeginReconnect, MainSteps
<1>10. CASE ReconnectRetry
  BY <1>10 DEF ReconnectRetry, BeginReconnect, MainSteps
<1>11. CASE ReorderJams \/ FrameArrives \/ TimePasses \/ CameraFails
  <2>1. CASE ReorderJams
    BY <2>1 DEF ReorderJams
  <2>2. CASE FrameArrives
    BY <2>2, Numbers, Zenon DEF FrameArrives
  <2>3. CASE TimePasses
    BY <2>3 DEF TimePasses
  <2>4. CASE CameraFails
    BY <2>4, ZenonT(60) DEF CameraFails
  <2>5. QED BY <1>11, <2>1, <2>2, <2>3, <2>4
<1>12. CASE UNCHANGED vars
  BY <1>12 DEF vars
<1>13. QED BY <1>1, <1>2, <1>3, <1>4, <1>5, <1>6, <1>7, <1>8, <1>9, <1>10, <1>11, <1>12
            DEF Next

\* The types of the variables: generations stay numbers however many windows open, and
\* the count of stall retries never exceeds 2.
THEOREM StreamTypeCorrect == Spec => []TypeOK
  BY InitType, NextType, PTL DEF Spec

\* Initially no timer exists.
LEMMA InitInv == Init => IInv
<1>1. Init => TimerInv
  BY DEF Init, TimerInv, NoTimer
<1>2. Init => ServeInv
  BY DEF Init, ServeInv
<1>3. QED BY <1>1, <1>2, InitType DEF IInv

\* The steps that leave the timers, the callbacks and the stream's state alone.
Elsewhere == UNCHANGED <<clients, rtsp, timers, is_streaming, refused>>

LEMMA ElsewhereInv == TimerInv /\ ServeInv /\ Elsewhere => TimerInv' /\ ServeInv'
  BY DEF Elsewhere, clients, timers, TimerInv, ServeInv

\* The main loop and the camera never touch the grace window.
LEMMA MainElsewhere ==
  MainLoop \/ RecvStreamEnd \/ EncoderStuck \/ ReconnectRetry \/ ReorderJams \/ FrameArrives
    \/ TimePasses \/ CameraFails \/ UNCHANGED vars => Elsewhere
<1> USE DEF Elsewhere, history
<1>1. MainLoop => Elsewhere
  BY DEF MainLoop, StallCheck, StallRetry, ReconnectAuth, ReconnectStart, ReconnectDone
<1>2. RecvStreamEnd \/ EncoderStuck \/ ReconnectRetry => Elsewhere
  BY DEF RecvStreamEnd, EncoderStuck, ReconnectRetry
<1>3. ReorderJams \/ FrameArrives \/ TimePasses \/ CameraFails => Elsewhere
  BY DEF ReorderJams, FrameArrives, TimePasses, CameraFails
<1>4. UNCHANGED vars => Elsewhere
  BY DEF vars
<1>5. QED BY <1>1, <1>2, <1>3, <1>4

\* Every step keeps what the generations of the timers say.
LEMMA NextTimerInv == TypeOK /\ TimerInv /\ [Next]_vars => TimerInv'
<1> SUFFICES ASSUME TypeOK, TimerInv, [Next]_vars PROVE TimerInv'
  OBVIOUS
<1> USE DEF TimerInv, timers
<1>1. ASSUME NEW m \in Medias, Configure(m) \/ Unprepare(m) PROVE TimerInv'
  BY <1>1 DEF Configure, Unprepare
<1>2. CASE Callback
  <2>1. CASE ConnectResumes
    BY <2>1 DEF ConnectResumes, TypeOK, NoTimer
  <2>2. CASE ArmTimer
    BY <2>2 DEF ArmTimer, TypeOK, NoTimer
  <2>3. CASE ConnectRefused \/ ConnectJoins \/ ConnectGoesOn \/ ConnectStarts
             \/ ConnectRaises \/ ConnectDone \/ Disconnect
    BY <2>3 DEF ConnectRefused, ConnectJoins, ConnectGoesOn, ConnectStarts, ConnectRaises,
                ConnectDone, Disconnect
  <2>4. QED BY <1>2, <2>1, <2>2, <2>3 DEF Callback
<1>3. ASSUME NEW g \in scheduled, TimerFires(g) PROVE TimerInv'
  BY <1>3 DEF TimerFires, TypeOK
<1>4. ASSUME NEW g \in fired, DeferredStop(g) PROVE TimerInv'
  BY <1>4 DEF DeferredStop, TypeOK, NoTimer
<1>5. ASSUME NEW g \in stopping, StopVideo(g) PROVE TimerInv'
  BY <1>5 DEF StopVideo
<1>6. CASE Elsewhere
  BY <1>6 DEF Elsewhere
<1>7. QED BY <1>1, <1>2, <1>3, <1>4, <1>5, <1>6, MainElsewhere DEF Next

\* Every step keeps what an attached client relies on.
LEMMA NextServeInv == TypeOK /\ TimerInv /\ ServeInv /\ [Next]_vars => ServeInv'
<1> SUFFICES ASSUME TypeOK, TimerInv, ServeInv, [Next]_vars PROVE ServeInv'
  OBVIOUS
<1> USE DEF ServeInv, timers, clients, history
<1>1. ASSUME NEW m \in Medias, Configure(m) PROVE ServeInv'
  BY <1>1 DEF Configure
<1>2. ASSUME NEW m \in Medias, Unprepare(m) PROVE ServeInv'
  BY <1>2 DEF Unprepare
<1>3. CASE Callback
  <2>1. CASE ConnectRefused \/ ConnectRaises
    BY <2>1 DEF ConnectRefused, ConnectRaises
  <2>2. CASE ConnectResumes \/ ConnectJoins \/ ConnectDone
    BY <2>2 DEF ConnectResumes, ConnectJoins, ConnectDone
  <2>3. CASE ConnectGoesOn \/ ConnectStarts
    BY <2>3 DEF ConnectGoesOn, ConnectStarts
  <2>4. CASE Disconnect
    BY <2>4 DEF Disconnect
  <2>5. CASE ArmTimer
    BY <2>5 DEF ArmTimer
  <2>6. QED BY <1>3, <2>1, <2>2, <2>3, <2>4, <2>5 DEF Callback
<1>4. ASSUME NEW g \in scheduled, TimerFires(g) PROVE ServeInv'
  BY <1>4 DEF TimerFires
<1>5. ASSUME NEW g \in fired, DeferredStop(g) PROVE ServeInv'
  \* A client that is being served has no current timer, so g is out of date.
  <2>1. CASE g # generation
    BY <1>5, <2>1 DEF DeferredStop
  <2>2. CASE g = generation
    <3>1. timer # NoTimer
      BY <2>2 DEF TimerInv
    <3>2. ~(rtsp = "idle" /\ medias # {} /\ ~refused)
      BY <3>1
    <3>3. QED BY <1>5, <2>2, <3>2 DEF DeferredStop
  <2>3. QED BY <2>1, <2>2
<1>6. ASSUME NEW g \in stopping, StopVideo(g) PROVE ServeInv'
  BY <1>6 DEF StopVideo
<1>7. CASE Elsewhere
  BY <1>7, ElsewhereInv
<1>8. QED BY <1>1, <1>2, <1>3, <1>4, <1>5, <1>6, <1>7, MainElsewhere DEF Next

LEMMA InvHolds == Spec => []IInv
<1>1. IInv /\ [Next]_vars => IInv'
  BY NextType, NextTimerInv, NextServeInv DEF IInv
<1>2. QED BY InitInv, <1>1, PTL DEF Spec

\* A client whose connect callback ran to its end is watched over and safe from every
\* timer, however many grace windows came before.
THEOREM AttachedServed == Spec => []AttachedIsServed
<1>1. IInv => AttachedIsServed
  BY DEF IInv, ServeInv, AttachedIsServed
<1>2. QED BY <1>1, InvHolds, PTL

\* A stream ends only by the timer of the grace window that is open.
THEOREM OnlyOpenWindow == Spec => OnlyOpenWindowStops
<1>1. ASSUME IInv, [Next]_vars, is_streaming, ~is_streaming'
      PROVE  timer \in fired /\ fired' = fired \ {timer}
  <2>1. ASSUME NEW g \in fired, DeferredStop(g)
        PROVE  timer \in fired /\ fired' = fired \ {timer}
    BY <1>1, <2>1 DEF IInv, TimerInv, DeferredStop
  <2>2. ASSUME NEW m \in Medias, Configure(m) \/ Unprepare(m) PROVE FALSE
    BY <1>1, <2>2 DEF Configure, Unprepare
  <2>3. ~Callback
    BY <1>1 DEF Callback, ConnectRefused, ConnectResumes, ConnectJoins, ConnectGoesOn,
                ConnectStarts, ConnectRaises, ConnectDone, Disconnect, ArmTimer
  <2>4. ASSUME NEW g, TimerFires(g) \/ StopVideo(g) PROVE FALSE
    BY <1>1, <2>4 DEF TimerFires, StopVideo
  <2>5. ~Elsewhere
    BY <1>1 DEF Elsewhere
  <2>6. QED BY <1>1, <2>1, <2>2, <2>3, <2>4, <2>5, MainElsewhere DEF Next
<1>2. IInv /\ [Next]_vars =>
        [is_streaming /\ ~is_streaming' => timer \in fired /\ fired' = fired \ {timer}]_vars
  BY <1>1
<1>3. QED BY <1>2, InvHolds, PTL DEF Spec, OnlyOpenWindowStops
-----------------------------------------------------------------------------
(* The camera is told to stop. *)

\* There is no session key exactly while a reconnect searches for the camera.
KeyInv == session_key <=> main # "search"

\* A stream that runs without a client and was not left on has a timer to come, or is about
\* to get one.
WatchedInv ==
  is_streaming /\ ~keep_stream_open /\ ~leftOn =>
    medias # {} \/ rtsp \in {"leaving", "arming"} \/ timer \in scheduled \cup fired

\* A camera that was told to start, and not to stop, is accounted for: the stream counts as
\* running, or is about to, or a callback is on its way to the stop.
ToldInv ==
  told = "start" /\ ~leftOn /\ session_key =>
    is_streaming \/ stopping # {} \/ rtsp = "resetting"

ReleaseInv == KeyInv /\ WatchedInv /\ ToldInv

LEMMA InitRelease == Init => ReleaseInv
  BY DEF Init, ReleaseInv, KeyInv, WatchedInv, ToldInv

\* The RTSP thread keeps the camera accounted for.
LEMMA CallbackRelease ==
  ASSUME IInv, ReleaseInv, Callback
  PROVE  ReleaseInv'
<1> USE DEF ReleaseInv, KeyInv, WatchedInv, ToldInv, clients, timers, stalls, loop, camera,
            history
<1>0. rtsp \in {"connecting", "locking", "deciding", "starting", "resetting"} => medias # {}
  BY DEF IInv, ServeInv
<1>1. CASE ConnectRefused
  BY <1>0, <1>1 DEF ConnectRefused
<1>2. CASE ConnectResumes
  BY <1>0, <1>2 DEF ConnectResumes
<1>3. CASE ConnectJoins
  BY <1>0, <1>3 DEF ConnectJoins
<1>4. CASE ConnectGoesOn
  BY <1>0, <1>4 DEF ConnectGoesOn
<1>5. CASE ConnectStarts
  BY <1>0, <1>5 DEF ConnectStarts
<1>6. CASE ConnectRaises
  BY <1>0, <1>6 DEF ConnectRaises
<1>7. CASE ConnectDone
  BY <1>0, <1>7 DEF ConnectDone
<1>8. CASE Disconnect
  BY <1>8 DEF Disconnect
<1>9. CASE ArmTimer
  BY <1>9 DEF ArmTimer
<1>10. QED BY <1>1, <1>2, <1>3, <1>4, <1>5, <1>6, <1>7, <1>8, <1>9 DEF Callback

\* The timers and their callbacks keep the camera accounted for.
LEMMA TimersRelease ==
  ASSUME IInv, ReleaseInv,
         \/ \E g \in scheduled : TimerFires(g)
         \/ \E g \in fired : DeferredStop(g)
         \/ \E g \in stopping : StopVideo(g)
  PROVE  ReleaseInv'
<1> USE DEF ReleaseInv, KeyInv, WatchedInv, ToldInv, clients, timers, stalls, loop, camera,
            history
<1>1. ASSUME NEW g \in scheduled, TimerFires(g) PROVE ReleaseInv'
  BY <1>1 DEF TimerFires
<1>2. ASSUME NEW g \in fired, DeferredStop(g) PROVE ReleaseInv'
  \* A callback that is out of date is not the current timer's.
  <2>1. CASE g # generation
    <3>1. timer \in scheduled \cup fired => timer # g
      BY <2>1 DEF IInv, TimerInv
    <3>2. QED BY <1>2, <2>1, <3>1 DEF DeferredStop
  <2>2. CASE g = generation
    BY <1>2, <2>2 DEF DeferredStop
  <2>3. QED BY <2>1, <2>2
<1>3. ASSUME NEW g \in stopping, StopVideo(g) PROVE ReleaseInv'
  <2>1. UNCHANGED <<medias, keep_stream_open, rtsp, timer, scheduled, fired, is_streaming,
                    session_key, main>>
    BY <1>3 DEF StopVideo
  <2>2. CASE SendStop /\ leftOn' = (leftOn /\ (is_streaming \/ Reconnecting))
    BY <2>1, <2>2 DEF SendStop
  <2>3. CASE UNCHANGED camera /\ leftOn' = (leftOn \/ (told = "start" /\ ~is_streaming))
    BY <2>1, <2>3
  <2>4. CASE ~session_key /\ UNCHANGED <<camera, leftOn>>
    BY <2>1, <2>4
  <2>5. QED BY <1>3, <2>2, <2>3, <2>4 DEF StopVideo
<1>4. QED BY <1>1, <1>2, <1>3

\* So do the clients that come and go, the main loop and the camera.
LEMMA OthersRelease ==
  ASSUME IInv, ReleaseInv,
         \/ \E m \in Medias : Configure(m) \/ Unprepare(m)
         \/ MainLoop \/ RecvStreamEnd \/ EncoderStuck \/ ReconnectRetry
         \/ ReorderJams \/ FrameArrives \/ TimePasses \/ CameraFails \/ UNCHANGED vars
  PROVE  ReleaseInv'
<1> USE DEF ReleaseInv, KeyInv, WatchedInv, ToldInv, clients, timers, stalls, loop, camera,
            history, BeginReconnect, AskAgain, SendStart
<1>1. ASSUME NEW m \in Medias, Configure(m) \/ Unprepare(m) PROVE ReleaseInv'
  BY <1>1 DEF Configure, Unprepare
<1>2. CASE StallCheck
  <2>1. UNCHANGED <<clients, rtsp, timers, is_streaming, camera, refused, leftOn>>
    BY <1>2, Zenon DEF StallCheck
  <2>2. session_key' => session_key /\ main' # "search"
    BY <1>2 DEF StallCheck
  <2>3. \/ main' = "search" /\ ~session_key'
        \/ session_key' = session_key /\ main # "search" /\ main' # "search"
    BY <1>2 DEF StallCheck
  <2>4. KeyInv'
    BY <2>3, Zenon
  <2>5. QED BY <2>1, <2>2, <2>4
<1>3. CASE StallRetry
  BY <1>3 DEF StallRetry
<1>4. CASE ReconnectAuth
  BY <1>4 DEF ReconnectAuth
<1>5. CASE ReconnectStart
  BY <1>5 DEF ReconnectStart
<1>6. CASE ReconnectDone
  BY <1>6 DEF ReconnectDone
<1>7. CASE RecvStreamEnd
  <2>1. UNCHANGED <<clients, rtsp, timers, is_streaming, told, refused, leftOn>>
    BY <1>7, Zenon DEF RecvStreamEnd
  <2>2. session_key' => session_key
    BY <1>7 DEF RecvStreamEnd
  <2>3. \/ main' = "search" /\ ~session_key'
        \/ session_key' = session_key /\ main # "search" /\ main' # "search"
    BY <1>7 DEF RecvStreamEnd
  <2>4. KeyInv'
    BY <2>3, Zenon
  <2>5. QED BY <2>1, <2>2, <2>4
<1>8. CASE EncoderStuck
  BY <1>8 DEF EncoderStuck
<1>9. CASE ReconnectRetry
  BY <1>9 DEF ReconnectRetry
<1>10. CASE ReorderJams \/ FrameArrives \/ TimePasses \/ CameraFails
  <2>1. UNCHANGED <<clients, rtsp, timers, is_streaming, session_key, main, told, refused,
                    leftOn>>
    BY <1>10, Zenon DEF ReorderJams, FrameArrives, TimePasses, CameraFails
  <2>2. QED BY <2>1
<1>11. CASE UNCHANGED vars
  BY <1>11 DEF vars
<1>12. QED BY <1>1, <1>2, <1>3, <1>4, <1>5, <1>6, <1>7, <1>8, <1>9, <1>10, <1>11 DEF MainLoop

\* With nobody connected and no timer to come, the camera has been told to stop, however the
\* grace windows, the stall recovery and the reconnects were interleaved and whichever send
\* failed, except in the ways that leftOn marks.
THEOREM CameraIsReleased == Spec => []CameraReleased
<1>1. IInv /\ ReleaseInv /\ [Next]_vars => ReleaseInv'
  BY CallbackRelease, TimersRelease, OthersRelease DEF Next
<1>2. ReleaseInv => CameraReleased
  BY DEF ReleaseInv, KeyInv, WatchedInv, ToldInv, CameraReleased
<1>3. QED BY InitRelease, InvHolds, <1>1, <1>2, PTL DEF Spec
=============================================================================
