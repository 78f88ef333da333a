----------------------------- MODULE StreamControl -----------------------------
(***************************************************************************)
(* When the camera streams.  read_stream() in camera_session.py asks it to *)
(* start when the first RTSP client comes, keeps the stream for a grace    *)
(* window after the last one has left, and reconnects from scratch when    *)
(* the camera has dropped the session.  Three kinds of threads share this  *)
(* state:                                                                  *)
(*                                                                         *)
(*   - the RTSP thread runs the callbacks of the media registry of         *)
(*     gst_rtsp_server.py, one at a time: rtsp is its program counter;     *)
(*   - each grace timer runs _deferred_stop_video in a thread of its own;  *)
(*   - the main loop receives packets, notices stalls and reconnects: main *)
(*     is its program counter.                                             *)
(*                                                                         *)
(* A timer is named by its generation.  The camera may lose its session or *)
(* stop sending at any time, a command sent to it may be lost, and sending *)
(* may fail.  That the camera sends video does not mean that a frame comes *)
(* of it: _reorder_deliver(), which module ReorderBuffer models, can wait  *)
(* for a packet that does not come, or take every packet for an old one.   *)
(* The stream is jammed while it does.                                     *)
(***************************************************************************)
EXTENDS Integers

CONSTANTS
  Medias,        \* the media pipelines of the RTSP server
  MaxGeneration  \* bound: no media is configured once generation has reached it

ASSUME StreamAssumption == MaxGeneration \in Nat

NoTimer == 0

VARIABLES
  medias,           \* GstAbusRtspServer._medias
  keep_stream_open, \* the argument of read_stream, fixed
  rtsp,             \* what the RTSP thread is about to do
  timer,            \* disconnect_timer: the generation of the timer, or NoTimer
  generation,       \* disconnect_generation
  scheduled,        \* timers that run down
  fired,            \* timers whose callback does not hold disconnect_lock yet
  stopping,         \* timers whose callback is about to call stop_video
  is_streaming,
  session_key,      \* a session key is set
  main,             \* what the main loop is about to do
  stall_retries,
  quiet,            \* time.time() - last_video_data > 5.0
  jammed,           \* _reorder_deliver() hands nothing to the reassembler
  told,             \* the last video command sent to the camera in its session
  alive,            \* the camera honours the session
  video,            \* the camera is sending video
  streamEnd,        \* a STREAM_END (0xF0) of the session is on its way
  refused,          \* history: the attached client's callback did not start anything
  leftOn,           \* history: a start was sent, or a stop not sent, by mistake
  shown             \* history: a frame has reached the RTSP server within 5 seconds

clients == <<medias, keep_stream_open>>
timers  == <<timer, generation, scheduled, fired, stopping>>
stalls  == <<stall_retries, quiet>>
loop    == <<session_key, main, stalls, jammed>>
camera  == <<told, alive, video, streamEnd>>
history == <<refused, leftOn, shown>>
vars    == <<clients, rtsp, timers, is_streaming, loop, camera, history>>

RtspSteps == {"idle", "connecting", "locking", "deciding", "starting", "resetting",
              "leaving", "arming"}
MainSteps == {"loop", "retry", "search", "start", "finish"}

TypeOK ==
  /\ medias \subseteq Medias /\ rtsp \in RtspSteps
  /\ timer \in Nat /\ generation \in Nat
  /\ scheduled \subseteq Nat /\ fired \subseteq Nat /\ stopping \subseteq Nat
  /\ main \in MainSteps
  /\ stall_retries \in 0..2
  /\ told \in {"nothing", "start", "stop"}
  /\ keep_stream_open \in BOOLEAN /\ is_streaming \in BOOLEAN /\ session_key \in BOOLEAN
  /\ quiet \in BOOLEAN /\ alive \in BOOLEAN /\ video \in BOOLEAN /\ streamEnd \in BOOLEAN
  /\ jammed \in BOOLEAN /\ refused \in BOOLEAN /\ leftOn \in BOOLEAN /\ shown \in BOOLEAN

\* reconnecting_since is not None.
Reconnecting == main \in {"search", "start", "finish"}

-----------------------------------------------------------------------------
(* The commands.  Whether the camera hears one is up to the network. *)

SendStart ==
  /\ told' = "start"
  /\ \E heard \in BOOLEAN : video' = (video \/ (heard /\ alive))
  /\ UNCHANGED <<alive, streamEnd>>

\* The camera acknowledges a stop with a STREAM_END.
SendStop ==
  /\ told' = "stop"
  /\ \E heard \in BOOLEAN : /\ video' = (video /\ ~heard)
                            /\ streamEnd' = (streamEnd \/ (heard /\ alive))
  /\ UNCHANGED alive

-----------------------------------------------------------------------------
(* The RTSP thread: _on_media_configure and _on_client_connect. *)

Configure(m) ==
  /\ rtsp = "idle" /\ m \notin medias /\ generation < MaxGeneration
  /\ medias' = medias \cup {m}
  /\ rtsp' = IF medias = {} THEN "connecting" ELSE "idle"
  /\ UNCHANGED <<keep_stream_open, timers, is_streaming, loop, camera, history>>

\* "camera session is reconnecting - client should retry"
ConnectRefused ==
  /\ \/ rtsp = "connecting" /\ (~session_key \/ Reconnecting)
     \/ rtsp = "deciding" /\ ~session_key /\ ~(keep_stream_open /\ is_streaming)
  /\ rtsp' = "idle" /\ refused' = TRUE
  /\ UNCHANGED <<clients, timers, is_streaming, loop, camera, leftOn, shown>>

\* Mutant: the generation is not advanced, so a timer that has fired still counts.
ResumeSameGeneration ==
  /\ rtsp = "locking" /\ timer # NoTimer
  /\ scheduled' = scheduled \ {timer}
  /\ timer' = NoTimer
  /\ is_streaming' = TRUE
  /\ rtsp' = "idle" /\ refused' = FALSE
  /\ UNCHANGED <<clients, generation, fired, stopping, loop, camera, leftOn, shown>>

\* Holding disconnect_lock: a client is back within the grace window.
ConnectResumes ==
  /\ rtsp = "locking" /\ timer # NoTimer
  /\ scheduled' = scheduled \ {timer}
  /\ timer' = NoTimer
  /\ generation' = generation + 1
  /\ is_streaming' = TRUE
  /\ rtsp' = "idle" /\ refused' = FALSE
  /\ UNCHANGED <<clients, fired, stopping, loop, camera, leftOn, shown>>

\* keep_stream_open: the camera stream is already running.
ConnectJoins ==
  /\ rtsp = "deciding" /\ keep_stream_open /\ is_streaming
  /\ rtsp' = "idle" /\ refused' = FALSE
  /\ UNCHANGED <<clients, timers, is_streaming, loop, camera, leftOn, shown>>

\* The checks between which the RTSP thread may be overtaken.
ConnectGoesOn ==
  /\ \/ rtsp = "connecting" /\ session_key /\ ~Reconnecting /\ rtsp' = "locking"
     \/ rtsp = "locking" /\ timer = NoTimer /\ rtsp' = "deciding"
     \/ rtsp = "deciding" /\ session_key /\ ~(keep_stream_open /\ is_streaming)
          /\ rtsp' = "starting"
  /\ UNCHANGED <<clients, timers, is_streaming, loop, camera, history>>

\* preflight() and start_video().
ConnectStarts ==
  /\ rtsp = "starting" /\ session_key
  /\ SendStart
  /\ rtsp' = "resetting"
  /\ UNCHANGED <<clients, timers, is_streaming, loop, history>>

\* Sending fails with an OSError, or a reconnect has cleared the session key, so that
\* send_ioctl() or FrameReassembler() raises: the callback ends there.  If start_video()
\* has been sent by then, the camera streams and is_streaming does not say so.
ConnectRaises ==
  /\ rtsp \in {"starting", "resetting"}
  /\ rtsp' = "idle" /\ refused' = TRUE
  /\ leftOn' = (leftOn \/ (rtsp = "resetting" /\ told = "start" /\ ~is_streaming))
  /\ UNCHANGED <<clients, timers, is_streaming, loop, camera, shown>>

\* Mutant: the stream is started and nobody watches over it.
ConnectUnmonitored ==
  /\ rtsp = "resetting" /\ session_key
  /\ quiet' = FALSE /\ stall_retries' = 0 /\ jammed' = FALSE
  /\ rtsp' = "idle" /\ refused' = FALSE /\ shown' = FALSE
  /\ UNCHANGED <<clients, timers, is_streaming, session_key, main, camera, leftOn>>

\* start_audio(), a new FrameReassembler, and the counters and the reordering start over.
ConnectDone ==
  /\ rtsp = "resetting" /\ session_key
  /\ is_streaming' = TRUE
  /\ quiet' = FALSE /\ stall_retries' = 0 /\ jammed' = FALSE
  /\ rtsp' = "idle" /\ refused' = FALSE /\ shown' = FALSE
  /\ UNCHANGED <<clients, timers, session_key, main, camera, leftOn>>

-----------------------------------------------------------------------------
(* The RTSP thread: _on_media_unprepared and _on_client_disconnect. *)

Unprepare(m) ==
  /\ rtsp = "idle" /\ m \in medias
  /\ medias' = medias \ {m}
  /\ rtsp' = IF medias = {m} THEN "leaving" ELSE "idle"
  /\ UNCHANGED <<keep_stream_open, timers, is_streaming, loop, camera, history>>

Disconnect ==
  /\ rtsp = "leaving"
  /\ \/ /\ ~session_key \/ Reconnecting
        /\ rtsp' = "idle" /\ leftOn' = TRUE
     \/ /\ session_key /\ ~Reconnecting /\ (~is_streaming \/ keep_stream_open)
        /\ rtsp' = "idle" /\ UNCHANGED leftOn
     \/ /\ session_key /\ ~Reconnecting /\ is_streaming /\ ~keep_stream_open
        /\ rtsp' = "arming" /\ UNCHANGED leftOn
  /\ UNCHANGED <<clients, timers, is_streaming, loop, camera, refused, shown>>

\* Holding disconnect_lock: a grace window of 30 seconds opens.
ArmTimer ==
  /\ rtsp = "arming"
  /\ generation' = generation + 1
  /\ timer' = generation'
  /\ scheduled' = (scheduled \ {timer}) \cup {generation'}
  /\ rtsp' = "idle"
  /\ UNCHANGED <<clients, fired, stopping, is_streaming, loop, camera, history>>

-----------------------------------------------------------------------------
(* The timer threads: _deferred_stop_video. *)

\* From here on cancel() cannot stop the callback.
TimerFires(g) ==
  /\ g \in scheduled
  /\ scheduled' = scheduled \ {g}
  /\ fired' = fired \cup {g}
  /\ UNCHANGED <<clients, rtsp, timer, generation, stopping, is_streaming, loop, camera,
                 history>>

\* Mutant: the callback does not compare its generation.
StopAnyGeneration(g) ==
  /\ g \in fired
  /\ fired' = fired \ {g}
  /\ is_streaming' = FALSE /\ timer' = NoTimer /\ stopping' = stopping \cup {g}
  /\ UNCHANGED <<clients, rtsp, generation, scheduled, loop, camera, history>>

\* Mutant: the comparison is the wrong way round.
StopOldGenerations(g) ==
  /\ g \in fired
  /\ fired' = fired \ {g}
  /\ \/ /\ g = generation
        /\ UNCHANGED <<is_streaming, timer, stopping>>
     \/ /\ g # generation
        /\ is_streaming' = FALSE /\ timer' = NoTimer /\ stopping' = stopping \cup {g}
  /\ UNCHANGED <<clients, rtsp, generation, scheduled, loop, camera, history>>

\* Holding disconnect_lock.
DeferredStop(g) ==
  /\ g \in fired
  /\ fired' = fired \ {g}
  /\ \/ /\ g # generation
        /\ UNCHANGED <<is_streaming, timer, stopping>>
     \/ /\ g = generation
        /\ is_streaming' = FALSE /\ timer' = NoTimer /\ stopping' = stopping \cup {g}
  /\ UNCHANGED <<clients, rtsp, generation, scheduled, loop, camera, history>>

\* stop_video(), after the lock is released.  Without a session key it sends nothing; an
\* OSError is logged and ignored, and the camera streams on.
StopVideo(g) ==
  /\ g \in stopping
  /\ stopping' = stopping \ {g}
  /\ \/ session_key /\ SendStop /\ leftOn' = (leftOn /\ (is_streaming \/ Reconnecting))
     \/ /\ session_key /\ leftOn' = (leftOn \/ (told = "start" /\ ~is_streaming))
        /\ UNCHANGED camera
     \/ ~session_key /\ UNCHANGED <<camera, leftOn>>
  /\ UNCHANGED <<clients, rtsp, timer, generation, scheduled, fired, is_streaming, loop,
                 refused, shown>>

-----------------------------------------------------------------------------
(* The main loop. *)

BeginReconnect == main' = "search" /\ session_key' = FALSE /\ shown' = FALSE

AskAgain == main' = "retry" /\ UNCHANGED <<session_key, jammed, shown>>

\* Mutant: the start is asked for again and again, however often it fails.
StallNeverReconnects ==
  /\ main = "loop" /\ is_streaming /\ quiet
  /\ AskAgain
  /\ UNCHANGED <<clients, rtsp, timers, is_streaming, stalls, camera, refused, leftOn>>

\* Mutant: one retry too many.
StallRetriesOnceMore ==
  /\ main = "loop" /\ is_streaming /\ quiet
  /\ stall_retries' = stall_retries + 1
  /\ IF stall_retries' > 3 THEN BeginReconnect /\ UNCHANGED jammed ELSE AskAgain
  /\ UNCHANGED <<clients, rtsp, timers, is_streaming, quiet, camera, refused, leftOn>>

\* No video for 5 seconds; the third time in a row, reconnect.  This reconnect keeps
\* reorder_buffer and expected_data_seq of the session that it leaves behind: whether the
\* packets of the next one pass is chance.
StallCheck ==
  /\ main = "loop" /\ is_streaming /\ quiet
  /\ \/ /\ stall_retries = 2 /\ BeginReconnect /\ UNCHANGED stall_retries
        /\ jammed' \in BOOLEAN
     \/ /\ stall_retries < 2 /\ stall_retries' = stall_retries + 1
        /\ AskAgain
  /\ UNCHANGED <<clients, rtsp, timers, is_streaming, quiet, camera, refused, leftOn>>

\* start_video() again.  The stream may have been stopped since the check.
StallRetry ==
  /\ main = "retry"
  /\ SendStart
  /\ quiet' = FALSE /\ main' = "loop"
  /\ leftOn' = (leftOn \/ ~is_streaming)
  /\ UNCHANGED <<clients, rtsp, timers, is_streaming, session_key, stall_retries, jammed,
                 refused, shown>>

\* A STREAM_END arrives: it answers a stop, or the camera has dropped the session.  After
\* the reconnect the reordering starts over; until then nothing comes that it could keep.
RecvStreamEnd ==
  /\ main = "loop" /\ streamEnd
  /\ streamEnd' = FALSE
  /\ \/ ~is_streaming /\ UNCHANGED <<main, session_key, jammed, shown>>
     \/ is_streaming /\ BeginReconnect /\ jammed' = FALSE
  /\ UNCHANGED <<clients, rtsp, timers, is_streaming, stalls, told, alive, video, refused,
                 leftOn>>

\* 15 identical frames in a row, whether or not anyone is watching.  The reordering starts
\* over here too.
EncoderStuck ==
  /\ main = "loop" /\ video /\ ~jammed
  /\ BeginReconnect /\ jammed' = FALSE
  /\ UNCHANGED <<clients, rtsp, timers, is_streaming, stalls, camera, refused, leftOn>>

\* discover(), alive_handshake() and auth() have succeeded: a new session.
ReconnectAuth ==
  /\ main = "search"
  /\ main' = "start" /\ session_key' = TRUE
  /\ told' = "nothing" /\ alive' = TRUE /\ video' = FALSE /\ streamEnd' = FALSE
  /\ UNCHANGED <<clients, rtsp, timers, is_streaming, stalls, jammed, history>>

\* Sending fails with an OSError: reconnect_until_success tries again.
ReconnectRetry ==
  /\ main \in {"start", "finish"}
  /\ BeginReconnect
  /\ UNCHANGED <<clients, rtsp, timers, is_streaming, stalls, jammed, camera, refused, leftOn>>

\* preflight() and start_video(), whoever is watching.
ReconnectStart ==
  /\ main = "start"
  /\ SendStart
  /\ main' = "finish"
  /\ leftOn' = (leftOn \/ ~is_streaming)
  /\ UNCHANGED <<clients, rtsp, timers, is_streaming, session_key, stalls, jammed, refused,
                 shown>>

ReconnectDone ==
  /\ main = "finish"
  /\ main' = "loop" /\ quiet' = FALSE /\ stall_retries' = 0
  /\ UNCHANGED <<clients, rtsp, timers, is_streaming, session_key, jammed, camera, history>>

-----------------------------------------------------------------------------
(* Video, time and the camera. *)

\* What _reorder_deliver() does with the packets that come changes: it gets stuck behind a
\* packet that it left in its buffer, or a repetition frees it.
ReorderJams ==
  /\ main = "loop" /\ video
  /\ jammed' = ~jammed
  /\ UNCHANGED <<clients, rtsp, timers, is_streaming, session_key, main, stalls, camera,
                 history>>

\* The reassembler yields a whole H.264 frame, and it is pushed to the RTSP server.
FrameArrives ==
  /\ main = "loop" /\ video /\ ~jammed
  /\ quiet' = FALSE /\ stall_retries' = 0 /\ shown' = TRUE
  /\ UNCHANGED <<clients, rtsp, timers, is_streaming, session_key, main, jammed, camera,
                 refused, leftOn>>

\* Five seconds without a frame, whether the camera sends or not.
TimePasses ==
  /\ quiet' = TRUE /\ shown' = FALSE
  /\ UNCHANGED <<clients, rtsp, timers, is_streaming, session_key, main, stall_retries, jammed,
                 camera, refused, leftOn>>

\* The camera pauses, or drops the session, with or without a word.
CameraFails ==
  /\ \/ video /\ video' = FALSE /\ UNCHANGED <<alive, streamEnd>>
     \/ alive /\ alive' = FALSE /\ video' = FALSE /\ streamEnd' \in {streamEnd, TRUE}
  /\ UNCHANGED <<clients, rtsp, timers, is_streaming, loop, told, history>>

-----------------------------------------------------------------------------
Init ==
  /\ medias = {} /\ rtsp = "idle" /\ keep_stream_open \in BOOLEAN
  /\ timer = NoTimer /\ generation = 0
  /\ scheduled = {} /\ fired = {} /\ stopping = {}
  /\ is_streaming = FALSE /\ session_key = TRUE /\ main = "loop"
  /\ stall_retries = 0 /\ quiet = FALSE /\ jammed = FALSE
  /\ told = "nothing" /\ alive = TRUE /\ video = FALSE /\ streamEnd = FALSE
  /\ refused = FALSE /\ leftOn = FALSE /\ shown = FALSE

Callback ==
  \/ ConnectRefused \/ ConnectResumes \/ ConnectJoins \/ ConnectGoesOn
  \/ ConnectStarts \/ ConnectRaises \/ ConnectDone
  \/ Disconnect \/ ArmTimer

MainLoop ==
  \/ StallCheck \/ StallRetry
  \/ ReconnectAuth \/ ReconnectStart \/ ReconnectDone

Next ==
  \/ \E m \in Medias : Configure(m) \/ Unprepare(m)
  \/ Callback
  \/ \E g \in scheduled : TimerFires(g)
  \/ \E g \in fired : DeferredStop(g)
  \/ \E g \in stopping : StopVideo(g)
  \/ MainLoop
  \/ RecvStreamEnd \/ EncoderStuck \/ ReconnectRetry
  \/ ReorderJams \/ FrameArrives \/ TimePasses \/ CameraFails

Spec == Init /\ [][Next]_vars

\* The threads keep running, and time passes while no frame can come.  A reconnect that is
\* tried over and over finds the camera and is heard in the end, and of a video that is sent
\* over and over and passes the reordering a frame arrives.
Fairness ==
  /\ WF_vars(Callback) /\ WF_vars(MainLoop) /\ WF_vars(TimePasses /\ (~video \/ jammed))
  /\ SF_vars(ReconnectStart /\ video') /\ SF_vars(ReconnectDone /\ video)
  /\ SF_vars(FrameArrives)

FairSpec == Spec /\ Fairness

-----------------------------------------------------------------------------
(* Properties. *)

\* Only the timer of the grace window that is open now ends the stream: a timer of an
\* earlier window, even one whose callback was already running when a client came back or
\* left again, changes nothing.
OnlyOpenWindowStops ==
  [][is_streaming /\ ~is_streaming' =>
       timer \in fired /\ fired' = fired \ {timer}]_vars

\* A client whose connect callback was neither refused nor cut short is watched over: the
\* stream counts as running, and no grace timer can take it away.
AttachedIsServed ==
  medias # {} /\ rtsp = "idle" /\ ~refused =>
    is_streaming /\ timer = NoTimer

\* With nobody connected and no timer to come, the camera has been told to stop.  leftOn
\* marks the ways to leave it on: a stall retry or a reconnect that sends a start while
\* is_streaming is false, a disconnect that falls in a reconnect, a connect callback that
\* raises after start_video(), and a stop_video() that raises.  There is no other.
CameraReleased ==
  /\ medias = {} /\ rtsp = "idle" /\ main = "loop" /\ ~keep_stream_open
  /\ scheduled \cup fired \cup stopping = {}
  /\ ~leftOn
  => told # "start"

\* A stream in which no frame has come for 5 seconds shows a frame again, whatever was lost,
\* unless it is stopped or the reordering lets nothing through.
StallRecovered == is_streaming /\ quiet ~> shown \/ ~is_streaming \/ jammed

\* Every client that is not refused gets to see frames, and again and again, or leaves, or
\* the reordering lets nothing through.
ClientGetsVideo == medias # {} /\ ~refused ~> shown \/ medias = {} \/ refused \/ jammed

\* The log line of _deferred_stop_video: the grace window expires "with zero active
\* clients".  A client whose callback has yet to run is not counted.
GraceExpiresIdle == [][is_streaming /\ ~is_streaming' => medias = {} \/ rtsp # "idle"]_vars

\* The docstring of read_stream: the camera is told to stop when the last client has
\* disconnected.  Nothing is under way, and still it is not.
IdleCameraReleased ==
  /\ medias = {} /\ rtsp = "idle" /\ main = "loop" /\ ~keep_stream_open
  /\ scheduled \cup fired \cup stopping = {}
  => told # "start"
=============================================================================
