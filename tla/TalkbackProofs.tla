---------------------------- MODULE TalkbackProofs ----------------------------
(***************************************************************************)
(* Theorems about Talkback, for any files, any pieces of talk and any      *)
(* number of sessions.                                                     *)
(*                                                                         *)
(* KnownInv carries OpenKnown: it follows the camera's speaker against     *)
(* the phases of reconnect().  While there is no key, nothing is encrypted *)
(* for the coming session, so a command that arrives was made in the       *)
(* session it arrives in.                                                  *)
(*                                                                         *)
(* FileInv carries FileIsSent: as long as nothing but the file has come    *)
(* in, what is in the two buffers is what its offset leaves over, and the  *)
(* whole file leaves nothing over.                                         *)
(***************************************************************************)
EXTENDS Talkback, TLAPS

-----------------------------------------------------------------------------
(* Types. *)

\* A chunk is not empty and ends within the file.
LEMMA ChunkType ==
  ASSUME len \in Nat, pos \in 0..len
  PROVE  NextChunk \in Nat /\ pos + NextChunk \in 0..len
  BY DEF NextChunk

\* The silence makes the file a multiple of what is sent at once.
LEMMA PaddedType ==
  ASSUME NEW n \in Nat
  PROVE  Padded(n) \in Nat /\ Padded(n) % FlushUnit = 0
<1>1. CASE ov_serial
  <2>1. FlushUnit = 24
    BY <1>1 DEF FlushUnit, OV_READ_BYTES, OV_SEND_BYTES
  <2>2. (-n) % 24 \in 0..23 /\ (n + ((-n) % 24)) % 24 = 0
    OBVIOUS
  <2>3. QED BY <2>1, <2>2 DEF Padded
<1>2. CASE ~ov_serial
  <2>1. FlushUnit = 5
    BY <1>2 DEF FlushUnit, PCM_FRAME_BYTES
  <2>2. (-n) % 5 \in 0..4 /\ (n + ((-n) % 5)) % 5 = 0
    OBVIOUS
  <2>3. QED BY <2>1, <2>2 DEF Padded
<1>3. QED BY <1>1, <1>2

\* Leaving the lock, and going on with the file, keep the types.
LEMMA LeaveType ==
  ASSUME TypeOK
  PROVE  /\ Release => /\ holder' = "free" /\ step' = "none" /\ sealed' = NoEpoch
                       /\ watchdog' \in {"none", "asleep", "awake", "ending"}
         /\ Advance => /\ ov_serial' \in BOOLEAN /\ player' \in {"free", "fetching", "playing"}
                       /\ len' \in Nat /\ pos' \in 0..len'
         /\ Raise => /\ ov_serial' \in BOOLEAN /\ player' \in {"free", "fetching", "playing"}
                     /\ len' \in Nat /\ pos' \in 0..len'
  BY ChunkType DEF TypeOK, Release, Advance, Raise

LEMMA ReadType == ReadBytes \in {5, 8}
  BY DEF ReadBytes, OV_READ_BYTES, PCM_FRAME_BYTES

\* The frames that are cut are there.
LEMMA CutFits ==
  /\ \A m \in Nat, k \in Int : k \in 1..(m \div 5) => m - k * 5 \in Nat
  /\ \A m \in Nat, k \in Int : k \in 1..(m \div 8) => m - k * 8 \in Nat
<1>1. ASSUME NEW m \in Nat, NEW k \in Int, k \in 1..(m \div 5)
      PROVE  m - k * 5 \in Nat
  <2>1. m \div 5 \in Nat /\ 5 * (m \div 5) <= m
    OBVIOUS
  <2>2. k <= m \div 5
    BY <1>1, <2>1
  <2>3. QED BY <2>1, <2>2
<1>2. ASSUME NEW m \in Nat, NEW k \in Int, k \in 1..(m \div 8)
      PROVE  m - k * 8 \in Nat
  <2>1. m \div 8 \in Nat /\ 8 * (m \div 8) <= m
    OBVIOUS
  <2>2. k <= m \div 8
    BY <1>2, <2>1
  <2>3. QED BY <2>1, <2>2
<1>3. QED BY <1>1, <1>2

\* What the two feeding steps leave in the buffers.
LEMMA FeedType ==
  ASSUME TypeOK, Feed \/ FeedRaises
  PROVE  buffer' \in Nat /\ encoded' \in Nat
<1>1. \A n \in TalkChunks : n \in Nat
  BY TalkAssumption
<1>2. NextChunk \in Nat
  BY ChunkType DEF TypeOK
<1>3. \A m \in Nat : m % 5 \in Nat /\ m % 8 \in Nat /\ m \div 5 \in Nat /\ m \div 8 \in Nat
                     /\ m % 6 \in Nat
  OBVIOUS
<1>4. \A m \in Nat : Encoded(m) \in Nat
  BY DEF Encoded, OV_READ_BYTES
<1>5. CASE Feed
  <2>1. PICK n \in IF holder = "player" THEN {NextChunk} ELSE TalkChunks :
          /\ buffer' = (buffer + n) % ReadBytes
          /\ encoded' = IF buffer + n < ReadBytes THEN encoded
                        ELSE (encoded + Encoded((buffer + n) \div ReadBytes)) % OV_SEND_BYTES
    BY <1>5 DEF Feed
  <2>2. n \in Nat /\ buffer + n \in Nat
    BY <1>1, <1>2 DEF TypeOK
  <2>3. buffer' \in Nat /\ (buffer + n) \div ReadBytes \in Nat
    BY <1>3, <2>1, <2>2, ReadType
  <2>4. encoded + Encoded((buffer + n) \div ReadBytes) \in Nat
    BY <1>4, <2>3 DEF TypeOK
  <2>5. encoded' \in Nat
    BY <1>3, <2>1, <2>4 DEF OV_SEND_BYTES, TypeOK
  <2>6. QED BY <2>3, <2>5
<1>6. CASE FeedRaises
  <2>1. PICK n \in IF holder = "player" THEN {NextChunk} ELSE TalkChunks :
          \E k \in 1..((buffer + n) \div ReadBytes) :
            /\ buffer' = buffer + n - k * ReadBytes
            /\ encoded' = IF ov_serial THEN OV_SEND_BYTES ELSE 0
    BY <1>6 DEF FeedRaises
  <2>2. PICK k \in 1..((buffer + n) \div ReadBytes) :
          /\ buffer' = buffer + n - k * ReadBytes
          /\ encoded' = IF ov_serial THEN OV_SEND_BYTES ELSE 0
    BY <2>1
  <2>3. n \in Nat /\ buffer + n \in Nat
    BY <1>1, <1>2 DEF TypeOK
  <2> DEFINE m == buffer + n
  <2>5. buffer' \in Nat
    <3>1. CASE ReadBytes = 5
      <4>1. k \in 1..(m \div 5) /\ k \in Int /\ m \in Nat
        BY <2>3, <3>1
      <4>2. m - k * 5 \in Nat
        BY <4>1, CutFits
      <4>3. buffer' = m - k * 5
        BY <2>2, <2>3, <3>1, <4>1 DEF m, TypeOK
      <4>4. QED BY <4>2, <4>3
    <3>2. CASE ReadBytes = 8
      <4>1. k \in 1..(m \div 8) /\ k \in Int /\ m \in Nat
        BY <2>3, <3>2
      <4>2. m - k * 8 \in Nat
        BY <4>1, CutFits
      <4>3. buffer' = m - k * 8
        BY <2>2, <2>3, <3>2, <4>1 DEF m, TypeOK
      <4>4. QED BY <4>2, <4>3
    <3>3. QED BY <3>1, <3>2, ReadType
  <2>6. QED BY <2>2, <2>5 DEF OV_SEND_BYTES
<1>7. QED BY <1>5, <1>6

\* Facts of arithmetic that the steps below need.
LEMMA Numbers ==
  /\ 0 \in Nat /\ 0 \in 0..0
  /\ TypeOK => session_epoch + 1 \in Nat
  BY DEF TypeOK

LEMMA Truth == TRUE \in BOOLEAN /\ FALSE \in BOOLEAN
  OBVIOUS

\* The types of the variables hold initially.
LEMMA InitType == Init => TypeOK
  BY Numbers DEF Init, TypeOK, Callers, NoEpoch

\* Every step keeps the types of the variables.
LEMMA NextType == TypeOK /\ [Next]_vars => TypeOK'
<1> SUFFICES ASSUME TypeOK, [Next]_vars PROVE TypeOK'
  OBVIOUS
<1> USE DEF session, lock, talk, play, history, Callers, TypeOK, NoEpoch
<1>1. CASE LoseAddress
  <2>1. camera_ip' \in BOOLEAN
    BY <1>1, Zenon DEF LoseAddress
  <2>2. QED BY <1>1, <2>1, Numbers DEF LoseAddress
<1>2. CASE LoseKey
  <2>1. session_key' \in BOOLEAN
    BY <1>2, Zenon DEF LoseKey
  <2>2. QED BY <1>2, <2>1, Numbers DEF LoseKey
<1>3. CASE NextEpoch
  <2>1. stopLost' \in BOOLEAN
    BY <1>3, Zenon DEF NextEpoch
  <2>2. QED BY <1>3, <2>1, Numbers DEF NextEpoch
<1>4. CASE FindCamera
  BY <1>4, Truth DEF FindCamera
<1>5. CASE Authenticate
  BY <1>5, Truth DEF Authenticate
<1>6. CASE TryAgain
  <2>1. camera_ip' \in BOOLEAN
    BY <1>6, Zenon DEF TryAgain
  <2>2. QED BY <1>6, <2>1, Numbers DEF TryAgain
<1>7. CASE \E h \in Callers \cup {"watchdog", "stopper"} : Acquire(h)
  BY <1>7 DEF Acquire
<1>8. CASE CheckKey
  BY <1>8, LeaveType DEF CheckKey
<1>9. CASE StartIntercom
  BY <1>9, LeaveType DEF StartIntercom, Seal, Raise
<1>10. CASE SendStart
  <2>1. stopLost' \in BOOLEAN /\ alone' \in BOOLEAN /\ speaker' \in Nat \cup {NoEpoch}
    BY <1>10, Zenon DEF SendStart
  <2>2. QED BY <1>10, <2>1, LeaveType DEF SendStart
<1>11. CASE MarkStarted
  <2>1. alone' \in BOOLEAN /\ started' \in BOOLEAN
    BY <1>11, Zenon DEF MarkStarted
  <2>2. QED BY <1>11, <2>1 DEF MarkStarted
<1>12. CASE EnsureWatchdog
  BY <1>12 DEF EnsureWatchdog
<1>13. CASE Feed
  BY <1>13, LeaveType, FeedType, ZenonT(30) DEF Feed
<1>14. CASE FeedRaises
  <2>1. Raise /\ Release
    BY <1>14, Zenon DEF FeedRaises, Raise
  <2>2. QED BY <1>14, <2>1, LeaveType, FeedType, ZenonT(30) DEF FeedRaises
<1>15. CASE StopLocked
  <2>1. alone' \in BOOLEAN /\ started' \in BOOLEAN
    BY <1>15, Zenon DEF StopLocked
  <2>2. QED BY <1>15, <2>1, LeaveType DEF StopLocked
<1>16. CASE StopIntercom
  BY <1>16, LeaveType DEF StopIntercom, Seal, Raise
<1>17. CASE SendStop
  BY <1>17, LeaveType DEF SendStop
<1>18. CASE Watch
  BY <1>18, LeaveType DEF Watch
<1>19. CASE WatchdogWakes
  BY <1>19 DEF WatchdogWakes
<1>20. CASE WatchdogEnds
  BY <1>20 DEF WatchdogEnds
<1>21. CASE TimePasses
  BY <1>21, Truth DEF TimePasses
<1>22. CASE PlayUrl
  BY <1>22 DEF PlayUrl
<1>23. CASE PlayEnds
  <2>1. alone' \in BOOLEAN
    BY <1>23, Zenon DEF PlayEnds
  <2>2. QED BY <1>23, <2>1, Numbers DEF PlayEnds
<1>24. CASE FetchEnds
  <2>1. \A n \in Files : Padded(n) \in Nat /\ 0 \in 0..Padded(n)
    BY PaddedType, TalkAssumption
  <2>2. alone' \in BOOLEAN
    BY <1>24, Zenon DEF FetchEnds
  <2>3. len' \in Nat /\ pos' \in 0..len'
    BY <1>24, <2>1 DEF FetchEnds
  <2>4. QED BY <1>24, <2>2, <2>3 DEF FetchEnds
<1>25. CASE UNCHANGED vars
  BY <1>25 DEF vars
<1>26. QED BY <1>1, <1>2, <1>3, <1>4, <1>5, <1>6, <1>7, <1>8, <1>9, <1>10, <1>11, <1>12, <1>13,
              <1>14, <1>15, <1>16, <1>17, <1>18, <1>19, <1>20, <1>21, <1>22, <1>23, <1>24, <1>25
           DEF Next, MainLoop, Holder

\* Type correctness: among others, the player's offset never leaves its file.
THEOREM TalkTypeCorrect == Spec => []TypeOK
  BY InitType, NextType, PTL DEF Spec

-----------------------------------------------------------------------------
(* The speaker. *)

\* There is a key exactly while no session is being set up.
KeyInv == session_key <=> phase \in {"up", "dropping"}

\* No speaker is open and no command is made for a session before it has a key.
EarlierInv ==
  /\ speaker <= session_epoch /\ sealed <= session_epoch
  /\ phase \in {"searching", "found"} => speaker < session_epoch /\ sealed < session_epoch

\* Who is inside the lock is about to do something.
HolderInv == holder = "free" => step = "none"

\* The speaker of the session is open: that is known, or the holder of the lock is between
\* the command and the note of it, on either way.
NotedInv ==
  session_key /\ speaker = session_epoch /\ ~stopLost
    => Active \/ step \in {"mark", "stopKey", "sendStop"}

KnownInv == KeyInv /\ EarlierInv /\ HolderInv /\ NotedInv

LEMMA InitKnown == Init => KnownInv
  BY DEF Init, KnownInv, KeyInv, EarlierInv, HolderInv, NotedInv, NoEpoch

\* The steps of reconnect() keep the invariant.
LEMMA MainLoopKnown ==
  ASSUME TypeOK, KnownInv, MainLoop
  PROVE  KnownInv'
<1> USE DEF KnownInv, KeyInv, EarlierInv, HolderInv, NotedInv, Active, TypeOK, NoEpoch, lock, talk
<1>1. CASE LoseAddress
  BY <1>1 DEF LoseAddress, history
<1>2. CASE LoseKey
  BY <1>2 DEF LoseKey, history
<1>3. CASE NextEpoch
  BY <1>3 DEF NextEpoch
<1>4. CASE FindCamera
  BY <1>4 DEF FindCamera, history
<1>5. CASE Authenticate
  BY <1>5 DEF Authenticate, history
<1>6. CASE TryAgain
  BY <1>6 DEF TryAgain, history
<1>7. QED BY <1>1, <1>2, <1>3, <1>4, <1>5, <1>6 DEF MainLoop

\* The steps of the one who holds the lock keep the invariant.
LEMMA HolderKnown ==
  ASSUME TypeOK, KnownInv, Holder \/ FeedRaises
  PROVE  KnownInv'
<1> USE DEF KnownInv, KeyInv, EarlierInv, HolderInv, NotedInv, Active, TypeOK, NoEpoch, Release,
            session, talk
<1>1. CASE CheckKey
  BY <1>1 DEF CheckKey
<1>2. CASE StartIntercom
  BY <1>2 DEF StartIntercom, Seal, Raise, history
<1>3. CASE SendStart
  BY <1>3 DEF SendStart, Arrives
<1>4. CASE MarkStarted
  BY <1>4 DEF MarkStarted
<1>5. CASE EnsureWatchdog
  BY <1>5 DEF EnsureWatchdog
<1>6. CASE Feed
  BY <1>6 DEF Feed
<1>7. CASE FeedRaises
  BY <1>7 DEF FeedRaises, Raise
<1>8. CASE StopLocked
  BY <1>8 DEF StopLocked
<1>9. CASE StopIntercom
  BY <1>9 DEF StopIntercom, Seal, Raise, history
<1>10. CASE SendStop
  BY <1>10 DEF SendStop, Arrives
<1>11. CASE Watch
  BY <1>11 DEF Watch, history
<1>12. QED BY <1>1, <1>2, <1>3, <1>4, <1>5, <1>6, <1>7, <1>8, <1>9, <1>10, <1>11 DEF Holder

\* Taking the lock, the watchdog's sleep, time and the player keep the invariant.
LEMMA OthersKnown ==
  ASSUME TypeOK, KnownInv,
         \/ \E h \in Callers \cup {"watchdog", "stopper"} : Acquire(h)
         \/ WatchdogWakes \/ WatchdogEnds \/ TimePasses \/ PlayUrl \/ FetchEnds \/ PlayEnds
         \/ UNCHANGED vars
  PROVE  KnownInv'
<1> USE DEF KnownInv, KeyInv, EarlierInv, HolderInv, NotedInv, Active, TypeOK, NoEpoch, session,
            lock, talk, history
<1>1. CASE \E h \in Callers \cup {"watchdog", "stopper"} : Acquire(h)
  BY <1>1 DEF Acquire, Callers
<1>2. CASE WatchdogWakes
  BY <1>2 DEF WatchdogWakes
<1>3. CASE WatchdogEnds
  BY <1>3 DEF WatchdogEnds
<1>4. CASE TimePasses
  BY <1>4 DEF TimePasses
<1>5. CASE PlayUrl
  BY <1>5 DEF PlayUrl
<1>6. CASE FetchEnds
  BY <1>6 DEF FetchEnds
<1>7. CASE PlayEnds
  BY <1>7 DEF PlayEnds
<1>8. CASE UNCHANGED vars
  BY <1>8 DEF vars
<1>9. QED BY <1>1, <1>2, <1>3, <1>4, <1>5, <1>6, <1>7, <1>8

\* An open speaker is never forgotten: whatever session replaces whichever, in the middle of
\* whatever command, the controller knows of the speaker that is open in the present one,
\* unless the command that was to close it got lost.
THEOREM OpenKnown == Spec => []OpenIsKnown
<1>1. TypeOK /\ KnownInv /\ [Next]_vars => KnownInv'
  BY MainLoopKnown, HolderKnown, OthersKnown DEF Next
<1>2. KnownInv => OpenIsKnown
  BY DEF KnownInv, HolderInv, NotedInv, OpenIsKnown
<1>3. QED BY InitKnown, TalkTypeCorrect, <1>1, <1>2, PTL DEF Spec
-----------------------------------------------------------------------------
(* The file. *)

\* While the player is inside the lock there is something left to play; the file fills what
\* is sent at once; and as long as nothing but the file has come in, what is in the buffers
\* is what its offset leaves over.
FileInv ==
  /\ holder = "player" => player = "playing" /\ pos < len
  /\ player = "playing" => len % FlushUnit = 0
  /\ player = "playing" /\ alone =>
       /\ buffer = pos % ReadBytes
       /\ encoded = Encoded(pos \div ReadBytes) % OV_SEND_BYTES

\* Cutting what is left over together with what comes next is cutting the whole.
LEMMA CutOn ==
  ASSUME NEW p \in Nat, NEW n \in Nat
  PROVE  /\ ((p % 8) + n) % 8 = (p + n) % 8
         /\ ((p % 5) + n) % 5 = (p + n) % 5
         /\ (p % 8) + n < 8 => (p + n) \div 8 = p \div 8
         /\ (((p \div 8) * 2 % 6) + (((p % 8) + n) \div 8) * 2) % 6 = ((p + n) \div 8) * 2 % 6
<1>1. PICK q \in Nat, r \in 0..7 : p = 8 * q + r /\ p \div 8 = q /\ p % 8 = r
  OBVIOUS
<1>2. PICK s \in Nat, t \in 0..7 : r + n = 8 * s + t /\ (r + n) \div 8 = s /\ (r + n) % 8 = t
  OBVIOUS
<1>3. (p + n) \div 8 = q + s /\ (p + n) % 8 = t
  BY <1>1, <1>2
<1>4. ((q * 2 % 6) + s * 2) % 6 = (q + s) * 2 % 6
  OBVIOUS
<1>5. ((p % 5) + n) % 5 = (p + n) % 5
  OBVIOUS
<1>6. QED BY <1>1, <1>2, <1>3, <1>4, <1>5

\* Nothing of a file that fills what is sent at once is left over at its end.
LEMMA NothingLeft ==
  ASSUME NEW n \in Nat, n % FlushUnit = 0
  PROVE  n % ReadBytes = 0 /\ Encoded(n \div ReadBytes) % OV_SEND_BYTES = 0
<1>1. CASE ov_serial
  <2>1. FlushUnit = 24 /\ ReadBytes = 8 /\ OV_SEND_BYTES = 6
    BY <1>1 DEF FlushUnit, ReadBytes, OV_READ_BYTES, OV_SEND_BYTES
  <2>2. n % 24 = 0 => n % 8 = 0 /\ (n \div 8) * 2 % 6 = 0
    OBVIOUS
  <2>3. Encoded(n \div 8) = (n \div 8) * 2
    BY <1>1 DEF Encoded, OV_READ_BYTES
  <2>4. QED BY <2>1, <2>2, <2>3
<1>2. CASE ~ov_serial
  <2>1. FlushUnit = 5 /\ ReadBytes = 5 /\ OV_SEND_BYTES = 6
    BY <1>2 DEF FlushUnit, ReadBytes, PCM_FRAME_BYTES, OV_SEND_BYTES
  <2>2. Encoded(n \div 5) = 0
    BY <1>2 DEF Encoded
  <2>3. QED BY <2>1, <2>2
<1>3. QED BY <1>1, <1>2

LEMMA InitFile == Init => FileInv
  BY DEF Init, FileInv

\* A chunk of the file is fed: the buffers go on as the offset does.
LEMMA FeedFile ==
  ASSUME TypeOK, FileInv, Feed
  PROVE  FileInv'
<1> USE DEF TypeOK, FileInv, session
<1>1. holder' = "free" /\ player' = player /\ len' = len /\ ov_serial' = ov_serial
  BY DEF Feed, Release, Advance
<1>2. FlushUnit' = FlushUnit /\ ReadBytes' = ReadBytes
  BY <1>1 DEF FlushUnit, ReadBytes
<1>3. ASSUME player' = "playing", alone'
      PROVE  buffer' = pos' % ReadBytes
             /\ encoded' = Encoded(pos' \div ReadBytes) % OV_SEND_BYTES
  <2>1. holder = "player" /\ (IF pos = 0 THEN buffer = 0 /\ encoded = 0 ELSE alone)
    BY <1>3 DEF Feed
  <2> DEFINE n == NextChunk
  <2>2. n \in Nat /\ pos \in Nat /\ pos' = pos + n
    BY <2>1, ChunkType DEF Feed, Advance
  <2>3. /\ buffer' = (buffer + n) % ReadBytes
        /\ encoded' = IF buffer + n < ReadBytes THEN encoded
                      ELSE (encoded + Encoded((buffer + n) \div ReadBytes)) % OV_SEND_BYTES
    BY <2>1 DEF Feed
  <2>4. /\ buffer = pos % ReadBytes
        /\ encoded = Encoded(pos \div ReadBytes) % OV_SEND_BYTES
    <3>1. CASE pos = 0
      <4>1. 0 % FlushUnit = 0
        BY DEF FlushUnit, OV_READ_BYTES, OV_SEND_BYTES, PCM_FRAME_BYTES
      <4>2. 0 % ReadBytes = 0 /\ Encoded(0 \div ReadBytes) % OV_SEND_BYTES = 0
        BY <4>1, NothingLeft
      <4>3. QED BY <2>1, <3>1, <4>2
    <3>2. CASE pos # 0
      BY <1>1, <1>3, <2>1, <3>2
    <3>3. QED BY <3>1, <3>2
  <2> HIDE DEF n
  <2>5. CASE ov_serial
    <3>1. ReadBytes = 8 /\ OV_SEND_BYTES = 6 /\ \A k \in Nat : Encoded(k) = k * 2
      BY <2>5 DEF ReadBytes, OV_READ_BYTES, OV_SEND_BYTES, Encoded
    <3>2. pos \div 8 \in Nat /\ ((pos % 8) + n) \div 8 \in Nat /\ (pos + n) \div 8 \in Nat
      BY <2>2
    <3>3. buffer' = (pos + n) % 8
      BY <2>2, <2>3, <2>4, <3>1, CutOn
    <3>4. encoded = (pos \div 8) * 2 % 6
      BY <2>4, <3>1, <3>2
    <3>5. encoded' = ((pos + n) \div 8) * 2 % 6
      <4>1. CASE (pos % 8) + n < 8
        BY <2>2, <2>3, <2>4, <3>1, <3>4, <4>1, CutOn
      <4>2. CASE ~((pos % 8) + n < 8)
        <5>1. encoded' = (((pos \div 8) * 2 % 6) + (((pos % 8) + n) \div 8) * 2) % 6
          BY <2>3, <2>4, <3>1, <3>2, <3>4, <4>2
        <5>2. QED BY <2>2, <5>1, CutOn
      <4>3. QED BY <4>1, <4>2
    <3>6. QED BY <2>2, <3>1, <3>2, <3>3, <3>5
  <2>6. CASE ~ov_serial
    <3>1. ReadBytes = 5 /\ OV_SEND_BYTES = 6 /\ \A k \in Int : Encoded(k) = 0
      BY <2>6 DEF ReadBytes, PCM_FRAME_BYTES, OV_SEND_BYTES, Encoded
    <3>2. buffer' = (pos + n) % 5
      BY <2>2, <2>3, <2>4, <3>1, CutOn
    <3>3. encoded = 0 /\ encoded' = 0
      BY <2>2, <2>3, <2>4, <3>1
    <3>4. QED BY <2>2, <3>1, <3>2, <3>3
  <2>7. QED BY <2>5, <2>6
<1>4. Encoded(pos \div ReadBytes)' = Encoded(pos' \div ReadBytes)
  BY <1>1, <1>2 DEF Encoded
<1>5. QED BY <1>1, <1>2, <1>3, <1>4

\* A step that leaves the file and the buffers alone, or makes alone false, and lets nobody
\* into the lock.
LEMMA KeepFile ==
  ASSUME FileInv, ov_serial' = ov_serial, holder' \in {holder, "free"},
         player' # "playing" => holder' # "player",
         player' = "playing" => player = "playing" /\ len' = len,
         holder' = "player" => pos' = pos,
         player' = "playing" /\ alone' => alone /\ UNCHANGED <<pos, buffer, encoded>>
  PROVE  FileInv'
<1>1. FlushUnit' = FlushUnit /\ ReadBytes' = ReadBytes
  BY DEF FlushUnit, ReadBytes
<1>2. pos' = pos => Encoded(pos \div ReadBytes)' = Encoded(pos \div ReadBytes)
  BY <1>1 DEF Encoded
<1>3. QED BY <1>1, <1>2 DEF FileInv

\* The steps of the one who holds the lock keep the invariant.
LEMMA HolderFile ==
  ASSUME TypeOK, FileInv, Holder \/ FeedRaises
  PROVE  FileInv'
<1> USE DEF Release, Advance, Raise, session, talk, play, lock
<1>0. holder = "player" => player = "playing" /\ pos < len
  BY DEF FileInv
<1>1. CASE CheckKey
  <2>1. alone' => alone /\ (alone' = alone \/ holder # "player")
    BY <1>1, Zenon DEF CheckKey, TypeOK
  <2>2. \/ UNCHANGED <<holder, ov_serial, player, pos, len, buffer, encoded>>
        \/ /\ Release /\ Advance /\ UNCHANGED <<buffer, encoded>>
           /\ holder = "player" => ~alone'
    BY <1>1 DEF CheckKey
  <2>3. QED BY <1>0, <2>1, <2>2, KeepFile
<1>2. CASE StartIntercom
  BY <1>0, <1>2, KeepFile DEF StartIntercom, Seal, history
<1>3. CASE SendStart
  <2>1. alone' => alone /\ (alone' = alone \/ holder # "player")
    BY <1>3, Zenon DEF SendStart, TypeOK
  <2>2. \/ UNCHANGED <<holder, ov_serial, player, pos, len, buffer, encoded>>
        \/ /\ Release /\ Advance /\ UNCHANGED <<buffer, encoded>>
           /\ holder = "player" => ~alone'
    BY <1>3 DEF SendStart
  <2>3. QED BY <1>0, <2>1, <2>2, KeepFile
<1>4. CASE MarkStarted
  BY <1>0, <1>4, KeepFile DEF MarkStarted
<1>5. CASE EnsureWatchdog
  BY <1>0, <1>5, KeepFile DEF EnsureWatchdog
<1>6. CASE Feed
  BY <1>6, FeedFile
<1>7. CASE FeedRaises
  BY <1>0, <1>7, KeepFile DEF FeedRaises
<1>8. CASE StopLocked
  BY <1>0, <1>8, KeepFile DEF StopLocked
<1>9. CASE StopIntercom
  BY <1>0, <1>9, KeepFile DEF StopIntercom, Seal, history
<1>10. CASE SendStop
  BY <1>0, <1>10, KeepFile DEF SendStop
<1>11. CASE Watch
  BY <1>0, <1>11, KeepFile DEF Watch, history
<1>12. QED BY <1>1, <1>2, <1>3, <1>4, <1>5, <1>6, <1>7, <1>8, <1>9, <1>10, <1>11 DEF Holder

\* So do all the others.
LEMMA OthersFile ==
  ASSUME TypeOK, FileInv,
         \/ MainLoop
         \/ \E h \in Callers \cup {"watchdog", "stopper"} : Acquire(h)
         \/ WatchdogWakes \/ WatchdogEnds \/ TimePasses \/ PlayUrl \/ FetchEnds \/ PlayEnds
         \/ UNCHANGED vars
  PROVE  FileInv'
<1> USE DEF session, lock, talk, play, history
<1>0. holder = "player" => player = "playing" /\ pos < len
  BY DEF FileInv
<1>1. CASE MainLoop
  BY <1>0, <1>1, KeepFile
     DEF MainLoop, LoseAddress, LoseKey, NextEpoch, FindCamera, Authenticate, TryAgain
<1>2. CASE \E h \in Callers \cup {"watchdog", "stopper"} : Acquire(h)
  <2>1. holder' = "player" => player = "playing" /\ pos < len
    BY <1>2 DEF Acquire
  <2>2. UNCHANGED <<ov_serial, player, pos, len, buffer, encoded, alone>>
    BY <1>2 DEF Acquire
  <2>3. FlushUnit' = FlushUnit /\ ReadBytes' = ReadBytes
    BY <2>2 DEF FlushUnit, ReadBytes
  <2>4. Encoded(pos \div ReadBytes)' = Encoded(pos \div ReadBytes)
    BY <2>2, <2>3 DEF Encoded
  <2>5. QED BY <2>1, <2>2, <2>3, <2>4 DEF FileInv
<1>3. CASE WatchdogWakes \/ WatchdogEnds \/ TimePasses
  BY <1>0, <1>3, KeepFile DEF WatchdogWakes, WatchdogEnds, TimePasses
<1>4. CASE PlayUrl
  BY <1>0, <1>4, KeepFile DEF PlayUrl
<1>5. CASE FetchEnds
  <2>1. ov_serial' = ov_serial /\ holder' = holder /\ ~alone' /\ holder # "player"
    BY <1>0, <1>5 DEF FetchEnds
  <2>2. FlushUnit' = FlushUnit
    BY <2>1 DEF FlushUnit
  <2>3. player' = "playing" => len' % FlushUnit = 0
    BY <1>5, PaddedType, TalkAssumption DEF FetchEnds
  <2>4. QED BY <2>1, <2>2, <2>3 DEF FileInv
<1>6. CASE PlayEnds
  BY <1>0, <1>6, KeepFile DEF PlayEnds
<1>7. CASE UNCHANGED vars
  BY <1>0, <1>7, KeepFile DEF vars
<1>8. QED BY <1>1, <1>2, <1>3, <1>4, <1>5, <1>6, <1>7

\* The silence that is appended to a file is enough, for any file and either codec: when it
\* is through and nobody talked in between, no part of it is left in the controller.
THEOREM FileIsSent == Spec => []FileSent
<1>1. TypeOK /\ FileInv /\ [Next]_vars => FileInv'
  BY HolderFile, OthersFile DEF Next
<1>2. TypeOK /\ FileInv => FileSent
  <2> SUFFICES ASSUME TypeOK, FileInv, player = "playing", pos = len, alone
               PROVE  buffer = 0 /\ encoded = 0
    BY DEF FileSent
  <2>1. len \in Nat /\ len % FlushUnit = 0
    BY DEF TypeOK, FileInv
  <2>2. QED BY <2>1, NothingLeft DEF FileInv
<1>3. QED BY InitFile, TalkTypeCorrect, <1>1, <1>2, PTL DEF Spec
=============================================================================
