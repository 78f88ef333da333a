-------------------------------- MODULE AvStream -------------------------------
(***************************************************************************)
(* From the payloads of the camera's data channel to frames (read_stream() *)
(* in camera_session.py, frame_reassembler.py): the byte stream is cut     *)
(* into frames again, a camera that repeats one picture is reconnected,    *)
(* ADPCM audio is decoded by a decoder whose state runs on from frame to   *)
(* frame.                                                                  *)
(*                                                                         *)
(* All of it is the main loop, and a payload is handled while the          *)
(* generator FrameReassembler.feed() stands at a yield.  What can happen   *)
(* in between is that the reassembler is replaced, by a reconnect the loop *)
(* itself starts or by the RTSP thread when a client comes: the generator  *)
(* goes on with the old object.                                            *)
(*                                                                         *)
(* The payloads are what _reorder_deliver() returns: those of the present  *)
(* session in its order and once, as ReorderBuffer has it as long as no    *)
(* packet is left behind, with holes where packets are lost.  The stall    *)
(* check's reconnect keeps reorder_buffer, so that payloads of an old      *)
(* session come between those of the new one.                              *)
(*                                                                         *)
(* A byte is named by the camera's session and its position in the stream  *)
(* of that session.  A header decrypts to sizes that agree if and only if  *)
(* it is whole and of the reassembler's own session; chance agreement of   *)
(* 32 bits is left out.                                                    *)
(***************************************************************************)
EXTENDS Integers, Sequences

CONSTANTS
  Script,      \* the frames of every session: their kinds, sizes and pictures
  HeaderSize,  \* micro-header and frame header: 20
  Unit,        \* ADPCM audio is decoded in multiples of so many bytes: 160
  StuckAfter,  \* identical pictures in a row that mean a stuck encoder: 15
  StuckSessions, \* the sessions whose encoder repeats pictures as Script says
  MaxKept,     \* payloads that reorder_buffer can hold: 64
  OldSizes,    \* the sizes of what it gives back of an old session at once
  MaxSession,  \* bound: the sessions are 1..MaxSession
  MaxStarts,   \* bound: how often a first client starts the stream
  MaxLosses    \* bound: how often packets are lost

Kinds == {"video", "pcm", "adpcm"}

ASSUME AvAssumption ==
  /\ Script \in Seq([kind : Kinds, size : Nat, picture : Nat])
  /\ HeaderSize \in Nat \ {0} /\ Unit \in Nat \ {0} /\ StuckAfter \in Nat \ {0}
  /\ MaxKept \in Nat /\ OldSizes \subseteq Nat \ {0}
  /\ StuckSessions \subseteq Nat
  /\ MaxSession \in Nat \ {0} /\ MaxStarts \in Nat /\ MaxLosses \in Nat

Frames == 1..Len(Script)

Size(f) == Script[f].size

\* Where the frames begin.
Start[f \in 1..(Len(Script) + 1)] ==
  IF f = 1 THEN 0 ELSE Start[f - 1] + HeaderSize + Size(f - 1)

StreamSize == Start[Len(Script) + 1]

Sessions == 1..MaxSession

Positions == [session : Sessions, pos : Nat]

Byte(s, p) == [session |-> s, pos |-> p]

Bytes(s, first, n) == [i \in 1..n |-> Byte(s, first + i - 1)]

\* 0 stands for a frame before the first header.
Reassemblers ==
  [id : Nat, session : Sessions, head : Frames \cup {0}, remaining : Nat,
   buf : Seq(Positions), pending : Seq(Positions)]

FrameReassembler(s, n) ==
  [id |-> n, session |-> s, head |-> 0, remaining |-> 0, buf |-> <<>>, pending |-> <<>>]

VARIABLES
  session,       \* the camera's session
  sent,          \* how much of its stream has arrived or is lost
  payloads,      \* ordered_payloads that are left to feed
  kept,          \* how many payloads of old sessions reorder_buffer holds
  feeding,       \* the generator is running
  reassembler,
  left,          \* the object the generator belongs to, if it has been replaced
  last_picture, dup_run_len,
  adpcm_owner,   \* the id of a reassembler
  decoder,       \* the ADPCM frame whose samples the decoder is ready for, if any
  muted,         \* the speaker is open, and the camera cannot do both at once
  starts, losses,
  got,           \* history: the frames that the present reassembler has yielded
  safe,          \* history: where frames are whole again for the present reassembler
  broken,        \* history: the present session has lost packets, or had a frame torn
  trimmed,       \* history: the end of a frame was not decoded since the decoder was reset
  offkey,        \* history: a whole frame was decoded out of step, neither broken nor trimmed
  crossed        \* history: a replaced reassembler has yielded audio

stuck == <<last_picture, dup_run_len>>
audio == <<adpcm_owner, decoder, trimmed, offkey, crossed>>
vars  == <<session, sent, payloads, kept, feeding, reassembler, left, stuck, audio, muted, starts,
           losses, got, safe, broken>>

NoFrame == [session |-> 0, frame |-> 0]

TypeOK ==
  /\ session \in Sessions /\ sent \in 0..StreamSize
  /\ payloads \in Seq(Seq(Positions)) /\ kept \in 0..MaxKept /\ feeding \in BOOLEAN
  /\ reassembler \in Reassemblers /\ left \in Seq(Reassemblers) /\ Len(left) <= 1
  /\ last_picture \in Nat /\ dup_run_len \in 0..StuckAfter
  /\ adpcm_owner \in Nat
  /\ decoder \in {NoFrame} \cup [session : Sessions, frame : Frames]
  /\ muted \in BOOLEAN /\ starts \in 0..MaxStarts /\ losses \in 0..MaxLosses
  /\ got \in Seq([frame : Frames, whole : BOOLEAN]) /\ safe \in Nat
  /\ {broken, trimmed, offkey, crossed} \subseteq BOOLEAN

-----------------------------------------------------------------------------
(* FrameReassembler.feed(). *)

Running == IF left = <<>> THEN reassembler ELSE left[1]

\* The object the generator belongs to becomes r.
Becomes(r) ==
  IF left = <<>> THEN reassembler' = r /\ UNCHANGED left
                 ELSE left' = <<r>> /\ UNCHANGED reassembler

Drop(s, n) == SubSeq(s, n + 1, Len(s))

\* The frame whose header the next bytes are.
HeaderOf(r) ==
  {f \in Frames : SubSeq(r.pending, 1, HeaderSize) = Bytes(r.session, Start[f], HeaderSize)}

\* Mutant: one byte more than a header is waited for.
AtLongHeader(r) == r.remaining = 0 /\ Len(r.pending) > HeaderSize

AtHeader(r) == r.remaining = 0 /\ Len(r.pending) >= HeaderSize

\* Mutant: a header that does not agree is skipped as a whole.
ResyncByHeader ==
  /\ feeding /\ AtHeader(Running) /\ HeaderOf(Running) = {}
  /\ Becomes([Running EXCEPT !.pending = Drop(@, HeaderSize)])
  /\ UNCHANGED <<session, sent, payloads, kept, feeding, stuck, audio, muted, starts, losses, got,
                 safe, broken>>

Resync ==
  /\ feeding /\ AtHeader(Running) /\ HeaderOf(Running) = {}
  /\ Becomes([Running EXCEPT !.pending = Tail(@)])
  /\ UNCHANGED <<session, sent, payloads, kept, feeding, stuck, audio, muted, starts, losses, got,
                 safe, broken>>

\* Mutant: the buffer of the frame before is not emptied.
ReadHeaderKeepsBuf ==
  /\ feeding /\ AtHeader(Running)
  /\ \E f \in HeaderOf(Running) :
       Becomes([Running EXCEPT !.head = f, !.remaining = Size(f),
                               !.pending = Drop(@, HeaderSize)])
  /\ UNCHANGED <<session, sent, payloads, kept, feeding, stuck, audio, muted, starts, losses, got,
                 safe, broken>>

ReadHeader ==
  /\ feeding /\ AtHeader(Running)
  /\ \E f \in HeaderOf(Running) :
       Becomes([Running EXCEPT !.head = f, !.remaining = Size(f), !.buf = <<>>,
                               !.pending = Drop(@, HeaderSize)])
  /\ UNCHANGED <<session, sent, payloads, kept, feeding, stuck, audio, muted, starts, losses, got,
                 safe, broken>>

Lesser(a, b) == IF a < b THEN a ELSE b

\* Mutant: all there is, although the frame may need less.
TakeAll(r) ==
  LET n == Len(r.pending) IN
  [r EXCEPT !.remaining = @ - n, !.buf = @ \o SubSeq(r.pending, 1, n),
            !.pending = Drop(@, n)]

\* r with as much of the frame's payload as there is.
TakePart(r) ==
  LET n == Lesser(r.remaining, Len(r.pending)) IN
  [r EXCEPT !.remaining = @ - n, !.buf = @ \o SubSeq(r.pending, 1, n),
            !.pending = Drop(@, n)]

ReadPart ==
  /\ feeding /\ Running.pending # <<>>
  /\ Running.remaining > Len(Running.pending)
  /\ Becomes(TakePart(Running))
  /\ UNCHANGED <<session, sent, payloads, kept, feeding, stuck, audio, muted, starts, losses, got,
                 safe, broken>>

\* The payload is the one that was sent.
Whole(r) == r.buf = Bytes(r.session, Start[r.head] + HeaderSize, Size(r.head))

\* Payload is complete: r, and the generator yields.
Yields(r) ==
  /\ feeding /\ Running.remaining > 0 /\ Running.remaining <= Len(Running.pending)
  /\ r = TakePart(Running)

Noted(r) == IF left = <<>> THEN Append(got, [frame |-> r.head, whole |-> Whole(r)]) ELSE got

FeedDone ==
  /\ feeding
  /\ ~AtHeader(Running) /\ (Running.remaining > 0 => Running.pending = <<>>)
  /\ feeding' = FALSE /\ left' = <<>>
  /\ UNCHANGED <<session, sent, payloads, kept, reassembler, stuck, audio, muted, starts, losses,
                 got, safe, broken>>

-----------------------------------------------------------------------------
(* What the loop does with a frame. *)

\* The first ADPCM frame with samples, at or after f, of what the camera sends.
NextAdpcm(s, f) ==
  LET later == {g \in Frames : g >= f /\ Script[g].kind = "adpcm" /\ Size(g) > 0} IN
  IF later = {} THEN NoFrame
  ELSE [session |-> s, frame |-> CHOOSE g \in later : \A h \in later : g <= h]

\* The decoder starts from the header that the present reassembler has read last.
ResetDecoder ==
  IF adpcm_owner = reassembler.id THEN decoder
  ELSE IF reassembler.head = 0 THEN NoFrame
  ELSE [session |-> reassembler.session, frame |-> reassembler.head]

\* All of the frame's samples are decoded, not only those of the first whole units.
Fits(f) == Size(f) % Unit = 0

\* Since the decoder was reset, the end of a frame has been left out.
Behind == trimmed /\ adpcm_owner = reassembler.id

\* Decoding all of what the decoder is ready for makes it ready for the next.
DecodeFrame(r) ==
  /\ adpcm_owner' = reassembler.id
  /\ decoder' = IF /\ Whole(r) /\ Fits(r.head)
                   /\ ResetDecoder = [session |-> r.session, frame |-> r.head]
                  THEN NextAdpcm(r.session, r.head + 1) ELSE NoFrame
  /\ trimmed' = (Behind \/ ~Fits(r.head))
  /\ crossed' = (crossed \/ left # <<>>)
  /\ offkey' = (offkey \/ (/\ Whole(r) /\ ~broken /\ ~Behind /\ left = <<>>
                           /\ ResetDecoder # [session |-> r.session, frame |-> r.head]))

\* Mutant: what is not heard is not decoded.
DecodeUnlessMuted(r) ==
  IF muted THEN UNCHANGED audio ELSE DecodeFrame(r)

Decode(r) == DecodeFrame(r)

\* Audio is decoded first and then, while the speaker is open, dropped.
AudioFrame ==
  \E r \in {TakePart(Running)} :
    /\ Yields(r) /\ Script[r.head].kind # "video"
    /\ Becomes(r) /\ got' = Noted(r)
    /\ IF Script[r.head].kind = "adpcm" THEN Decode(r) ELSE UNCHANGED audio
    /\ UNCHANGED <<session, sent, payloads, kept, feeding, stuck, muted, starts, losses, safe,
                   broken>>

SamePicture(r) ==
  Whole(r) /\ r.session \in StuckSessions /\ Script[r.head].picture = last_picture

Run(r) == IF SamePicture(r) THEN dup_run_len + 1 ELSE 1

\* A picture goes to the RTSP server.
VideoFrame ==
  \E r \in {TakePart(Running)} :
    /\ Yields(r) /\ Script[r.head].kind = "video" /\ Run(r) # StuckAfter
    /\ Becomes(r) /\ got' = Noted(r)
    /\ last_picture' = IF Whole(r) THEN Script[r.head].picture ELSE 0
    /\ dup_run_len' = Run(r)
    /\ UNCHANGED <<session, sent, payloads, kept, feeding, audio, muted, starts, losses, safe,
                   broken>>

\* A reassembler for the stream as it goes on; all counters start over.
StartOver(s, from) ==
  /\ reassembler' = FrameReassembler(s, reassembler.id + 1)
  /\ got' = <<>> /\ safe' = from

ForgetPictures == last_picture' = 0 /\ dup_run_len' = 0

NewSession ==
  /\ session < MaxSession
  /\ session' = session + 1 /\ sent' = 0 /\ broken' = FALSE

\* The encoder is stuck: reconnect.  What is left of ordered_payloads, and of the old
\* reassembler's bytes, goes on being handled; reorder_buffer is emptied.
StuckEncoder ==
  \E r \in {TakePart(Running)} :
    /\ Yields(r) /\ Script[r.head].kind = "video" /\ Run(r) = StuckAfter
    /\ NewSession /\ StartOver(session', 0) /\ ForgetPictures
    /\ left' = <<r>> /\ kept' = 0
    /\ UNCHANGED <<payloads, feeding, audio, muted, starts, losses>>

-----------------------------------------------------------------------------
(* What arrives. *)

Waiting == ~feeding /\ payloads = <<>>

\* A packet with n bytes, or k packets' worth at once when a gap has been filled.
Receive(n, k) ==
  /\ Waiting /\ n > 0 /\ sent + n + k <= StreamSize
  /\ payloads' = IF k = 0 THEN <<Bytes(session, sent, n)>>
                 ELSE <<Bytes(session, sent, n), Bytes(session, sent + n, k)>>
  /\ sent' = sent + n + k
  /\ UNCHANGED <<session, kept, feeding, reassembler, left, stuck, audio, muted, starts, losses,
                 got, safe, broken>>

\* The packet's number is the one before some that were kept of an old session: their
\* payloads, m bytes of them, are delivered behind it.
ReceiveOld(n, m) ==
  /\ Waiting /\ kept > 0 /\ n > 0 /\ sent + n <= StreamSize
  /\ \E s \in Sessions :
       s < session /\ payloads' = <<Bytes(session, sent, n), Bytes(s, 0, m)>>
  /\ kept' \in 0..(kept - 1)
  /\ sent' = sent + n
  /\ UNCHANGED <<session, feeding, reassembler, left, stuck, audio, muted, starts, losses,
                 got, safe, broken>>

\* Packets that never arrive and are skipped by _reorder_deliver(), or that it takes for
\* stale ones because a stall reconnect has kept its number.  The payload that is being
\* read swallows what it still lacks.
Lose(n) ==
  /\ Waiting /\ n > 0 /\ sent + n <= StreamSize
  /\ losses < MaxLosses /\ losses' = losses + 1
  /\ sent' = sent + n
  /\ safe' = sent + n + reassembler.remaining
  /\ broken' = TRUE
  /\ UNCHANGED <<session, payloads, kept, feeding, reassembler, left, stuck, audio, muted,
                 starts, got>>

Greater(a, b) == IF a > b THEN a ELSE b

\* A payload of an old session comes in the middle of a frame, or of a header.
FallsInto ==
  /\ Head(payloads)[1].session # session
  /\ \/ reassembler.remaining > 0
     \/ \E i \in DOMAIN reassembler.pending : reassembler.pending[i].session = session

Feed ==
  /\ ~feeding /\ payloads # <<>>
  /\ reassembler' = [reassembler EXCEPT !.pending = @ \o Head(payloads)]
  /\ payloads' = Tail(payloads)
  /\ feeding' = TRUE
  /\ broken' = (broken \/ FallsInto)
  /\ safe' = IF FallsInto THEN Greater(safe, sent + reassembler.remaining) ELSE safe
  /\ UNCHANGED <<session, sent, kept, left, stuck, audio, muted, starts, losses, got>>

\* MSG_STREAM_END while the stream runs.
StreamEnd ==
  /\ Waiting
  /\ NewSession /\ StartOver(session', 0) /\ ForgetPictures /\ kept' = 0
  /\ UNCHANGED <<payloads, feeding, left, audio, muted, starts, losses>>

\* Three stalls in a row.  The pictures are not forgotten, and the payloads that
\* reorder_buffer holds stay in it.
StallReconnect ==
  /\ Waiting
  /\ NewSession /\ StartOver(session', 0)
  /\ kept' \in 0..MaxKept
  /\ UNCHANGED <<payloads, feeding, left, stuck, audio, muted, starts, losses>>

\* The RTSP thread starts the stream for a first client, wherever the loop is.
ClientStarts ==
  /\ starts < MaxStarts /\ starts' = starts + 1
  /\ StartOver(session, sent) /\ ForgetPictures
  /\ left' = IF feeding /\ left = <<>> THEN <<reassembler>> ELSE left
  /\ kept' = 0
  /\ UNCHANGED <<session, sent, payloads, feeding, audio, muted, losses, broken>>

\* talk.active.
TalkStartsOrStops ==
  /\ muted' = ~muted
  /\ UNCHANGED <<session, sent, payloads, kept, feeding, reassembler, left, stuck, audio, starts,
                 losses, got, safe, broken>>

-----------------------------------------------------------------------------
Init ==
  /\ session = 1 /\ sent = 0 /\ payloads = <<>> /\ kept = 0 /\ feeding = FALSE
  /\ reassembler = FrameReassembler(1, 1) /\ left = <<>>
  /\ last_picture = 0 /\ dup_run_len = 0
  /\ adpcm_owner = 0 /\ decoder = NoFrame /\ muted = FALSE
  /\ starts = 0 /\ losses = 0
  /\ got = <<>> /\ safe = 0 /\ broken = FALSE
  /\ trimmed = FALSE /\ offkey = FALSE /\ crossed = FALSE

Reassemble ==
  Resync \/ ReadHeader \/ ReadPart \/ AudioFrame \/ VideoFrame \/ StuckEncoder \/ FeedDone

Next ==
  \/ \E n, k \in 0..StreamSize : Receive(n, k)
  \/ \E n \in 1..StreamSize, m \in OldSizes : ReceiveOld(n, m)
  \/ \E n \in 1..StreamSize : Lose(n)
  \/ Feed \/ Reassemble
  \/ StreamEnd \/ StallReconnect \/ ClientStarts \/ TalkStartsOrStops

Spec == Init /\ [][Next]_vars

-----------------------------------------------------------------------------
(* Properties. *)

\* Frames come out one by one and in the order of the stream.  Damaged is only one that was
\* begun before a loss or spans it, or into which a payload of an old session has fallen:
\* however the stream is cut into packets, and whatever else an old session has left behind
\* (FrameReassembler.feed(), and the reorder_buffer that a stall reconnect keeps).
FramesInOrder ==
  /\ \A i, j \in DOMAIN got : i < j => got[i].frame < got[j].frame
  /\ \A i \in DOMAIN got : Start[got[i].frame] >= safe => got[i].whole

\* A loss, or a payload of an old session, costs the frame or the header it falls into and
\* the frames that a payload it has torn swallows, no more: every later frame is yielded when
\* its last byte has been fed.  An old payload that comes between two frames, or before the
\* first, costs nothing (feed(), the resync in it).
LossIsLocal ==
  Waiting =>
    \A f \in Frames :
      (Size(f) > 0 /\ Start[f] >= safe /\ Start[f + 1] <= sent) =>
        \E i \in DOMAIN got : got[i] = [frame |-> f, whole |-> TRUE]

\* Between two payloads the reassembler keeps less than a header, or nothing: it does not
\* hold back what it could yield, and does not grow.
LittleIsPending ==
  ~feeding =>
    /\ Len(reassembler.pending) < HeaderSize
    /\ reassembler.remaining > 0 => reassembler.pending = <<>>

\* There are four ways for the ADPCM decoder to lose step: a loss, a payload of an old
\* session in a frame, a frame that is no multiple of Unit bytes, whose end is not decoded,
\* and audio that a replaced reassembler's generator yields.  A whole frame is decoded out
\* of step without the first three only after the fourth: muting is no way, nor is a
\* reconnect, nor a frame without payload (read_stream()).
DecoderInStepUnlessCrossed == offkey => crossed
================================================================================
