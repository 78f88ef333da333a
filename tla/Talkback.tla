------------------------------- MODULE Talkback -------------------------------
(***************************************************************************)
(* Two-way audio: TalkbackController (talkback.py) opens the camera's      *)
(* speaker before the first audio, cuts the audio into frames, and closes  *)
(* the speaker after a silence.  AudioPlayer (audio_playback.py) plays one *)
(* file at a time through it.                                              *)
(*                                                                         *)
(* Four kinds of threads take the controller's lock: the player, the       *)
(* streaming threads of the RTSP backchannel, the watchdog of the          *)
(* controller, and whoever calls stop() when the last client has left.     *)
(* holder is the one inside, step what it is about to do.  The main loop   *)
(* replaces the camera session underneath, without the lock, in the order  *)
(* of reconnect() in camera_session.py.  A command may be lost.            *)
(*                                                                         *)
(* Audio is counted in units of 128 bytes.                                 *)
(***************************************************************************)
EXTENDS Integers

CONSTANTS
  Files,      \* lengths of the files that are played
  TalkChunks, \* lengths of the pieces the backchannel hands over
  MaxEpoch    \* bound: sessions are replaced while session_epoch is below it

ASSUME TalkAssumption ==
  /\ Files \subseteq Nat \ {0} /\ TalkChunks \subseteq Nat \ {0} /\ MaxEpoch \in Nat

PCM_FRAME_BYTES == 5
OV_READ_BYTES == 8
OV_SEND_BYTES == 6

NoEpoch == -1

VARIABLES
  ov_serial,     \* the camera takes ADPCM, fixed
  camera_ip, session_key, \* each one is set
  session_epoch,
  phase,         \* where the main loop is in reconnect()
  speaker,       \* the session in which the camera's speaker is open, or NoEpoch
  holder,        \* who holds _lock
  step,          \* what the holder is about to do
  sealed,        \* the session whose key the holder's command was encrypted with
  started, epoch, \* _started and _epoch
  buffer, encoded, \* how much is in _buffer and in _encoded
  quiet,         \* IDLE_STOP_S have passed since _last_audio
  watchdog,      \* what the latest watchdog thread does
  player,        \* what AudioPlayer does: anything but "free" holds its _busy lock
  pos, len,      \* of the file: the offset of the next chunk, and the length
  alone,         \* history: nothing but the file was in the buffers since its first chunk
  stopLost,      \* history: the session's last SPEAKER_STOP did not get through
  unwatched      \* history: the speaker was opened while the old watchdog was ending

session == <<camera_ip, session_key, session_epoch, phase>>
lock    == <<holder, step, sealed>>
talk    == <<started, epoch, buffer, encoded, quiet>>
play    == <<ov_serial, player, pos, len>>
history == <<alone, stopLost, unwatched>>
vars    == <<session, speaker, lock, talk, watchdog, play, history>>

ReadBytes == IF ov_serial THEN OV_READ_BYTES ELSE PCM_FRAME_BYTES

\* self.active
Active == started /\ epoch = session_epoch

Callers == {"player", "rtsp"}

TypeOK ==
  /\ ov_serial \in BOOLEAN /\ camera_ip \in BOOLEAN /\ session_key \in BOOLEAN
  /\ session_epoch \in Nat /\ phase \in {"up", "dropping", "bumping", "searching", "found"}
  /\ speaker \in Nat \cup {NoEpoch} /\ sealed \in Nat \cup {NoEpoch}
  /\ holder \in Callers \cup {"free", "watchdog", "stopper"}
  /\ step \in {"none", "key", "start", "sendStart", "mark", "settle", "feed",
               "watch", "stop", "stopKey", "sendStop"}
  /\ started \in BOOLEAN /\ epoch \in Nat \cup {NoEpoch} /\ quiet \in BOOLEAN
  /\ buffer \in Nat /\ encoded \in Nat
  /\ watchdog \in {"none", "asleep", "awake", "ending"}
  /\ player \in {"free", "fetching", "playing"}
  /\ len \in Nat /\ pos \in 0..len
  /\ alone \in BOOLEAN /\ stopLost \in BOOLEAN /\ unwatched \in BOOLEAN

-----------------------------------------------------------------------------
(* The main loop replaces the session: reconnect(). *)

LoseAddress ==
  /\ phase = "up" /\ session_epoch < MaxEpoch
  /\ camera_ip' = FALSE /\ phase' = "dropping"
  /\ UNCHANGED <<session_key, session_epoch, speaker, lock, talk, watchdog, play, history>>

LoseKey ==
  /\ phase = "dropping"
  /\ session_key' = FALSE /\ phase' = "bumping"
  /\ UNCHANGED <<camera_ip, session_epoch, speaker, lock, talk, watchdog, play, history>>

NextEpoch ==
  /\ phase = "bumping"
  /\ session_epoch' = session_epoch + 1 /\ phase' = "searching"
  /\ stopLost' = FALSE
  /\ UNCHANGED <<camera_ip, session_key, speaker, lock, talk, watchdog, play, alone, unwatched>>

FindCamera ==
  /\ phase = "searching"
  /\ camera_ip' = TRUE /\ phase' = "found"
  /\ UNCHANGED <<session_key, session_epoch, speaker, lock, talk, watchdog, play, history>>

Authenticate ==
  /\ phase = "found"
  /\ session_key' = TRUE /\ phase' = "up"
  /\ UNCHANGED <<camera_ip, session_epoch, speaker, lock, talk, watchdog, play, history>>

\* reconnect() has failed and is called again.
TryAgain ==
  /\ phase \in {"searching", "found"} /\ session_epoch < MaxEpoch
  /\ camera_ip' = FALSE /\ phase' = "bumping"
  /\ UNCHANGED <<session_key, session_epoch, speaker, lock, talk, watchdog, play, history>>

-----------------------------------------------------------------------------
(* The lock and the commands. *)

\* Leaving the lock, by the end of the call or by an exception.  For the watchdog that is
\* the end of its thread, but for the case in Watch.
Release ==
  /\ holder' = "free" /\ step' = "none" /\ sealed' = NoEpoch
  /\ watchdog' = IF holder = "watchdog" THEN "ending" ELSE watchdog

\* An exception other than OSError ends the playback.
Raise ==
  /\ Release
  /\ IF holder = "player" THEN player' = "free" /\ pos' = 0 /\ len' = 0
                          ELSE UNCHANGED <<player, pos, len>>
  /\ UNCHANGED ov_serial

\* send_ioctl() up to the encryption with the session key, which may be gone.
Seal(next) ==
  \/ /\ session_key
     /\ step' = next /\ sealed' = session_epoch
     /\ UNCHANGED <<holder, watchdog, play>>
  \/ ~session_key /\ Raise

\* The camera can make sense of the command that is being sent.
Arrives == camera_ip /\ sealed = session_epoch

\* Mutant: the slice is not cut at the end of the file.
WholeChunk == IF ov_serial THEN 10 ELSE 5

\* The slice pcm[offset:offset + chunk].
NextChunk ==
  LET chunk == IF ov_serial THEN 10 ELSE 5
  IN  IF pos + chunk < len THEN chunk ELSE len - pos

\* The player goes on to its next chunk, whatever became of this one.
Advance == /\ pos' = IF holder = "player" THEN pos + NextChunk ELSE pos
           /\ UNCHANGED <<ov_serial, player, len>>

-----------------------------------------------------------------------------
(* push_pcm(), called by the player or the backchannel. *)

Acquire(h) ==
  /\ holder = "free"
  /\ \/ h = "player" /\ player = "playing" /\ pos < len /\ step' = "key"
     \/ h = "rtsp" /\ step' = "key"
     \/ h = "watchdog" /\ watchdog = "awake" /\ step' = "watch"
     \/ h = "stopper" /\ step' = "stop"
  /\ holder' = h
  /\ UNCHANGED <<session, speaker, sealed, talk, watchdog, play, history>>

\* Mutant: the player tries the same chunk again until there is a session.
CheckKeyRetries ==
  /\ step = "key"
  /\ \/ /\ ~session_key
        /\ Release /\ UNCHANGED play /\ alone' = (alone /\ holder # "player")
     \/ /\ session_key
        /\ step' = IF Active THEN "feed" ELSE "start"
        /\ UNCHANGED <<holder, sealed, watchdog, play, alone>>
  /\ UNCHANGED <<session, speaker, talk, stopLost, unwatched>>

CheckKey ==
  /\ step = "key"
  /\ \/ /\ ~session_key
        /\ Release /\ Advance /\ alone' = (alone /\ holder # "player")
     \/ /\ session_key
        /\ step' = IF Active THEN "feed" ELSE "start"
        /\ UNCHANGED <<holder, sealed, watchdog, play, alone>>
  /\ UNCHANGED <<session, speaker, talk, stopLost, unwatched>>

StartIntercom ==
  /\ step = "start" /\ Seal("sendStart")
  /\ UNCHANGED <<session, speaker, talk, history>>

\* An OSError here means that this chunk is dropped.
SendStart ==
  /\ step = "sendStart"
  /\ \/ /\ step' = "mark"
        /\ \E heard \in BOOLEAN :
             IF heard /\ Arrives THEN speaker' = sealed /\ stopLost' = FALSE
                                 ELSE UNCHANGED <<speaker, stopLost>>
        /\ UNCHANGED <<holder, sealed, watchdog, play, alone>>
     \/ /\ camera_ip
        /\ Release /\ Advance /\ alone' = (alone /\ holder # "player")
        /\ UNCHANGED <<speaker, stopLost>>
  /\ UNCHANGED <<session, talk, unwatched>>

\* _epoch is read only now.
MarkStarted ==
  /\ step = "mark"
  /\ started' = TRUE /\ epoch' = session_epoch
  /\ buffer' = 0 /\ encoded' = 0 /\ alone' = FALSE
  /\ step' = "settle"
  /\ UNCHANGED <<session, speaker, holder, sealed, quiet, watchdog, play, stopLost, unwatched>>

\* Mutant: only the first session gets a watchdog.
EnsureOnce ==
  /\ step = "settle" /\ step' = "feed"
  /\ watchdog' = IF watchdog = "none" /\ epoch = 0 THEN "asleep" ELSE watchdog
  /\ unwatched' = (watchdog = "ending")
  /\ UNCHANGED <<session, speaker, holder, sealed, talk, play, alone, stopLost>>

\* START_SETTLE_S have passed.  A thread that is about to end is still alive.
EnsureWatchdog ==
  /\ step = "settle" /\ step' = "feed"
  /\ watchdog' = IF watchdog = "none" THEN "asleep" ELSE watchdog
  /\ unwatched' = (watchdog = "ending")
  /\ UNCHANGED <<session, speaker, holder, sealed, talk, play, alone, stopLost>>

\* ADPCM is a quarter of the PCM.
Encoded(frames) == IF ov_serial THEN frames * (OV_READ_BYTES \div 4) ELSE 0

\* The frames are cut, encoded and sent; without a session key they are silently dropped.
Feed ==
  /\ step = "feed"
  /\ \E n \in IF holder = "player" THEN {NextChunk} ELSE TalkChunks :
       /\ buffer' = (buffer + n) % ReadBytes
       /\ encoded' = IF buffer + n < ReadBytes THEN encoded
                     ELSE (encoded + Encoded((buffer + n) \div ReadBytes)) % OV_SEND_BYTES
  /\ alone' = /\ holder = "player"
              /\ IF pos = 0 THEN buffer = 0 /\ encoded = 0 ELSE alone
  /\ quiet' = FALSE
  /\ Release /\ Advance
  /\ UNCHANGED <<session, speaker, started, epoch, stopLost, unwatched>>

\* The key disappears inside send_talk_audio(), after some frames: the current frame is
\* out of _buffer and, if it was encoded, still in _encoded.
FeedRaises ==
  /\ step = "feed" /\ ~session_key
  /\ \E n \in IF holder = "player" THEN {NextChunk} ELSE TalkChunks :
       \E k \in 1..((buffer + n) \div ReadBytes) :
         /\ (encoded + Encoded(k)) % OV_SEND_BYTES = 0
         /\ buffer' = buffer + n - k * ReadBytes
         /\ encoded' = IF ov_serial THEN OV_SEND_BYTES ELSE 0
  /\ quiet' = FALSE /\ alone' = FALSE
  /\ Raise
  /\ UNCHANGED <<session, speaker, started, epoch, stopLost, unwatched>>

-----------------------------------------------------------------------------
(* stop() and the watchdog. *)

\* Mutant: active is looked at when _started has been reset.
StopForgets ==
  /\ step = "stop"
  /\ started' = FALSE
  /\ IF started THEN buffer' = 0 /\ encoded' = 0 /\ alone' = FALSE
                ELSE UNCHANGED <<buffer, encoded, alone>>
  /\ Release
  /\ UNCHANGED <<session, speaker, epoch, quiet, play, stopLost, unwatched>>

StopLocked ==
  /\ step = "stop"
  /\ started' = FALSE
  /\ IF started THEN buffer' = 0 /\ encoded' = 0 /\ alone' = FALSE
                ELSE UNCHANGED <<buffer, encoded, alone>>
  /\ \/ Active /\ step' = "stopKey" /\ UNCHANGED <<holder, sealed, watchdog>>
     \/ ~Active /\ Release
  /\ UNCHANGED <<session, speaker, epoch, quiet, play, stopLost, unwatched>>

StopIntercom ==
  /\ step = "stopKey" /\ Seal("sendStop")
  /\ UNCHANGED <<session, speaker, talk, history>>

\* An OSError is ignored.  There is no second attempt.
SendStop ==
  /\ step = "sendStop"
  /\ \E heard \in BOOLEAN :
       /\ stopLost' = ~(heard /\ Arrives)
       /\ speaker' = IF heard /\ Arrives THEN NoEpoch ELSE speaker
  /\ Release
  /\ UNCHANGED <<session, talk, play, alone, unwatched>>

WatchdogWakes ==
  /\ watchdog = "asleep" /\ watchdog' = "awake"
  /\ UNCHANGED <<session, speaker, lock, talk, play, history>>

\* _watch_idle, holding the lock.
Watch ==
  /\ step = "watch"
  /\ \/ ~started /\ Release
     \/ /\ started /\ ~quiet
        /\ holder' = "free" /\ step' = "none" /\ watchdog' = "asleep" /\ UNCHANGED sealed
     \/ started /\ quiet /\ step' = "stop" /\ UNCHANGED <<holder, sealed, watchdog>>
  /\ UNCHANGED <<session, speaker, talk, play, history>>

WatchdogEnds ==
  /\ watchdog = "ending" /\ watchdog' = "none"
  /\ UNCHANGED <<session, speaker, lock, talk, play, history>>

TimePasses ==
  /\ quiet' = TRUE
  /\ UNCHANGED <<session, speaker, lock, started, epoch, buffer, encoded, watchdog, play,
                 history>>

-----------------------------------------------------------------------------
(* AudioPlayer. *)

\* Mutant: the encoder's frame is forgotten.
ShortFlushUnit == ReadBytes

\* pcm_flush_unit()
FlushUnit ==
  IF ov_serial THEN OV_READ_BYTES * (OV_SEND_BYTES \div (OV_READ_BYTES \div 4))
               ELSE PCM_FRAME_BYTES

\* The file's length with silence up to a multiple of FlushUnit.
Padded(n) == n + ((-n) % FlushUnit)

\* play_url(): refused without a session key or while _busy is held.
PlayUrl ==
  /\ player = "free" /\ session_key
  /\ player' = "fetching"
  /\ UNCHANGED <<session, speaker, lock, talk, watchdog, ov_serial, pos, len, history>>

\* The download and the decoding, each within its timeout, succeed or raise.
FetchEnds ==
  /\ player = "fetching"
  /\ \/ \E n \in Files : player' = "playing" /\ pos' = 0 /\ len' = Padded(n)
     \/ player' = "free" /\ UNCHANGED <<pos, len>>
  /\ alone' = FALSE
  /\ UNCHANGED <<session, speaker, lock, talk, watchdog, ov_serial, stopLost, unwatched>>

PlayEnds ==
  /\ player = "playing" /\ pos >= len /\ holder # "player"
  /\ player' = "free" /\ pos' = 0 /\ len' = 0 /\ alone' = FALSE
  /\ UNCHANGED <<session, speaker, lock, talk, watchdog, ov_serial, stopLost, unwatched>>

-----------------------------------------------------------------------------
Init ==
  /\ ov_serial \in BOOLEAN
  /\ camera_ip = TRUE /\ session_key = TRUE /\ session_epoch = 0 /\ phase = "up"
  /\ speaker = NoEpoch /\ holder = "free" /\ step = "none" /\ sealed = NoEpoch
  /\ started = FALSE /\ epoch = NoEpoch /\ buffer = 0 /\ encoded = 0 /\ quiet = TRUE
  /\ watchdog = "none" /\ player = "free" /\ pos = 0 /\ len = 0
  /\ alone = FALSE /\ stopLost = FALSE /\ unwatched = FALSE

MainLoop ==
  LoseAddress \/ LoseKey \/ NextEpoch \/ FindCamera \/ Authenticate \/ TryAgain

Holder ==
  \/ CheckKey \/ StartIntercom \/ SendStart \/ MarkStarted \/ EnsureWatchdog \/ Feed
  \/ StopLocked \/ StopIntercom \/ SendStop \/ Watch

Next ==
  \/ MainLoop
  \/ \E h \in Callers \cup {"watchdog", "stopper"} : Acquire(h)
  \/ Holder \/ FeedRaises
  \/ WatchdogWakes \/ WatchdogEnds \/ TimePasses
  \/ PlayUrl \/ FetchEnds \/ PlayEnds

Spec == Init /\ [][Next]_vars

\* The threads run, and the player and the watchdog get a lock that is free most of the
\* time.  Nobody has to talk, to play or to stop, and no session has to come back.
Fairness ==
  /\ WF_vars(Holder) /\ WF_vars(FetchEnds) /\ WF_vars(PlayEnds)
  /\ WF_vars(WatchdogWakes) /\ WF_vars(WatchdogEnds)
  /\ SF_vars(Acquire("player")) /\ SF_vars(Acquire("watchdog"))

FairSpec == Spec /\ Fairness

-----------------------------------------------------------------------------
(* Properties. *)

\* An open speaker is never forgotten: between two calls, in a session that is up, the
\* controller knows of it, unless the command that was to close it got lost.
OpenIsKnown ==
  holder = "free" /\ session_key /\ speaker = session_epoch /\ ~stopLost => Active

\* The silence that is appended to a file is enough: when the file is through and nobody
\* talked in between, no part of it is left in the controller.
FileSent ==
  player = "playing" /\ pos = len /\ holder = "free" /\ alone => buffer = 0 /\ encoded = 0

\* A speaker that is believed open is closed after a silence, unless the watchdog of the
\* last time was still ending when it was opened.
IdleCloses == Active /\ quiet ~> ~Active \/ ~quiet \/ unwatched

\* The player's lock is released in the end, whatever fails.
BusyReleased == player # "free" ~> player = "free"

\* The docstring of active: "the camera's speaker is open on the current camera session".
\* When push_pcm() has opened it, the SPEAKER_START was at least made for that session.
ActiveIsOpen == step = "settle" /\ Active => sealed = session_epoch
=============================================================================
