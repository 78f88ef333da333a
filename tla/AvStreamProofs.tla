---------------------------- MODULE AvStreamProofs -----------------------------
(***************************************************************************)
(* Theorems about AvStream, for any frames, packets, losses, sessions,     *)
(* payloads of old sessions and replaced reassemblers: every variable      *)
(* keeps its type, the reassembler never piles bytes up, the frames come   *)
(* in order, a loss or an old payload costs no more than the frames it     *)
(* touches, and the ADPCM decoder loses step in no more than four ways.    *)
(*                                                                         *)
(* ObjectInv, PendingInv, PayloadsInv and LoopType are invariants by       *)
(* themselves.  FrameInv is one with them.  Its heart is AlignInv: the     *)
(* bytes that the reassembler has not read, pending or of the session and  *)
(* not yet fed, are some that contain no header of the session, and then   *)
(* the session's bytes from a position p up to the last one sent.  An old  *)
(* payload, once fed, is among the first if it comes between two frames;   *)
(* in a frame it makes it Torn, and safe lies behind what that frame still *)
(* swallows.  Placed(p) says what the reassembler is in the middle of at   *)
(* p, that every frame which is to be yielded is yielded or begins at p or *)
(* later, and which frame the decoder waits for.                           *)
(*                                                                         *)
(* That Start, a recursive function, is what its definition says follows   *)
(* by induction over the frames; the induction is about a set of numbers,  *)
(* and is itself a consequence of < being well-founded.                    *)
(***************************************************************************)
EXTENDS AvStream, WellFoundedInduction, SequenceTheorems, TLAPS

-----------------------------------------------------------------------------
(* Where the frames begin. *)

\* Every set of numbers has a smallest element.
LEMMA Smallest ==
  ASSUME NEW T, T \subseteq Nat, T # {}
  PROVE  \E m \in T : \A k \in T : m <= k
<1> DEFINE R == {p \in Nat \X Nat : p[1] < p[2]}
<1>1. IsWellFoundedOn(R, Nat)
  BY NatLessThanWellFounded DEF OpToRel
<1>2. PICK m \in T : \A k \in T : ~(<<k, m>> \in R)
  BY <1>1, WFMin
<1>3. ASSUME NEW k \in T PROVE m <= k
  <2>1. <<k, m>> \in Nat \X Nat /\ <<k, m>>[1] = k /\ <<k, m>>[2] = m
    OBVIOUS
  <2>2. ~(k < m)
    BY <1>2, <2>1
  <2>3. QED BY <2>2
<1>4. QED BY <1>3

\* Induction over the numbers, for a set instead of a predicate.
LEMMA Induction ==
  ASSUME NEW S, 0 \in S, \A n \in Nat : n \in S => n + 1 \in S
  PROVE  \A n \in Nat : n \in S
<1> SUFFICES ASSUME Nat \ S # {} PROVE FALSE
  OBVIOUS
<1>1. PICK m \in Nat \ S : \A k \in Nat \ S : m <= k
  BY Smallest
<1>2. m - 1 \in Nat /\ m - 1 \in S
  BY <1>1
<1>3. QED BY <1>2

LEMMA SizeType == \A f \in Frames : Size(f) \in Nat
<1> TAKE f \in Frames
<1>1. Script[f] \in [kind : Kinds, size : Nat, picture : Nat]
  BY ElementOfSeq, AvAssumption DEF Frames
<1>2. QED BY <1>1 DEF Size

LEMMA ScriptLength == Len(Script) \in Nat
  BY AvAssumption

\* The beginning of the frame f, when the beginnings of the frames before it are in g.
Begin(g, f) == IF f = 1 THEN 0 ELSE g[f - 1] + HeaderSize + Size(f - 1)

\* The recursive definition of Start defines it.
LEMMA StartDefined ==
  \A f \in 1..(Len(Script) + 1) : Start[f] \in Nat /\ Start[f] = Begin(Start, f)
<1> DEFINE N == Len(Script) + 1
           S == {k \in Nat : k <= N => \E g \in [1..k -> Nat] : \A f \in 1..k : g[f] = Begin(g, f)}
<1>1. N \in Nat /\ \A f \in 1..(N - 1) : Size(f) \in Nat
  BY ScriptLength, SizeType DEF Frames
<1> HIDE DEF N
<1>2. 0 \in S
  <2>1. [f \in 1..0 |-> 0] \in [1..0 -> Nat] /\ 1..0 = {}
    OBVIOUS
  <2>2. \A f \in 1..0 : [x \in 1..0 |-> 0][f] = Begin([x \in 1..0 |-> 0], f)
    BY <2>1
  <2>3. QED BY <2>1, <2>2
<1>3. ASSUME NEW k \in Nat, k \in S PROVE k + 1 \in S
  <2>1. SUFFICES ASSUME k + 1 <= N
                 PROVE  \E g \in [1..(k + 1) -> Nat] : \A f \in 1..(k + 1) : g[f] = Begin(g, f)
    OBVIOUS
  <2>2. PICK g \in [1..k -> Nat] : \A f \in 1..k : g[f] = Begin(g, f)
    BY <1>1, <1>3, <2>1
  <2> DEFINE h == [f \in 1..(k + 1) |-> IF f <= k THEN g[f] ELSE Begin(g, f)]
  <2>3. h \in [1..(k + 1) -> Nat]
    BY <1>1, <2>1, <2>2, AvAssumption DEF Begin
  <2>4. \A f \in 1..(k + 1) : h[f] = Begin(h, f)
    BY <2>2 DEF Begin
  <2>5. QED BY <2>3, <2>4
<1>4. N \in S
  <2> HIDE DEF S
  <2>1. QED BY <1>1, <1>2, <1>3, Induction
<1>5. PICK g \in [1..N -> Nat] : \A f \in 1..N : g[f] = Begin(g, f)
  BY <1>1, <1>4
<1>6. g = [f \in 1..N |-> IF f = 1 THEN 0 ELSE g[f - 1] + HeaderSize + Size(f - 1)]
  BY <1>5 DEF Begin
<1>7. Start = [f \in 1..N |-> IF f = 1 THEN 0 ELSE Start[f - 1] + HeaderSize + Size(f - 1)]
  BY <1>6 DEF Start, N
<1>8. \A f \in 1..N : Start[f] = Begin(Start, f)
  BY <1>7 DEF Begin
<1> DEFINE T == {k \in Nat : k + 1 <= N => Start[k + 1] \in Nat}
<1>9. 0 \in T
  BY <1>1, <1>8 DEF Begin
<1>10. ASSUME NEW k \in Nat, k \in T PROVE k + 1 \in T
  BY <1>1, <1>8, <1>10, AvAssumption, SMTT(30) DEF Begin
<1>11. \A k \in Nat : k \in T
  <2> HIDE DEF T
  <2>1. QED BY <1>9, <1>10, Induction
<1>12. \A f \in 1..N : Start[f] \in Nat
  <2>1. TAKE f \in 1..N
  <2>2. f - 1 \in Nat /\ (f - 1) + 1 = f /\ (f - 1) + 1 <= N
    BY <1>1
  <2>3. f - 1 \in T
    BY <1>11, <2>2
  <2>4. (f - 1) + 1 <= N => Start[(f - 1) + 1] \in Nat
    BY <2>3, Zenon
  <2>5. QED BY <2>2, <2>4
<1>13. QED BY <1>8, <1>12 DEF N

\* A frame begins where the one before it ends.
LEMMA StartNext ==
  \A f \in Frames : /\ Start[f] \in Nat /\ Start[f + 1] \in Nat
                    /\ Start[f + 1] = Start[f] + HeaderSize + Size(f)
<1> TAKE f \in Frames
<1>1. f \in 1..(Len(Script) + 1) /\ f + 1 \in 1..(Len(Script) + 1) /\ f + 1 # 1 /\ (f + 1) - 1 = f
  BY ScriptLength DEF Frames
<1>2. QED BY <1>1, StartDefined DEF Begin

LEMMA StreamSizeType == StreamSize \in Nat
  BY ScriptLength, StartDefined DEF StreamSize

\* A later frame begins behind the end of an earlier one.
LEMMA StartOrder ==
  \A f, g \in Frames : f < g => Start[f + 1] <= Start[g]
<1> SUFFICES ASSUME NEW f \in Frames PROVE \A g \in Frames : f < g => Start[f + 1] <= Start[g]
  OBVIOUS
<1> DEFINE T == {k \in Nat : k \in Frames /\ f < k => Start[f + 1] <= Start[k]}
<1>1. 0 \in T
  BY DEF Frames
<1>2. ASSUME NEW k \in Nat, k \in T PROVE k + 1 \in T
  <2>1. SUFFICES ASSUME k + 1 \in Frames, f < k + 1 PROVE Start[f + 1] <= Start[k + 1]
    OBVIOUS
  <2>2. CASE f = k
    BY <2>1, <2>2, StartNext
  <2>3. CASE f # k
    <3>1. k \in Frames /\ f < k
      BY <2>1, <2>3, ScriptLength DEF Frames
    <3>2. Start[f + 1] <= Start[k]
      BY <1>2, <3>1
    <3>3. Start[k] \in Nat /\ Start[k + 1] = Start[k] + HeaderSize + Size(k) /\ Start[f + 1] \in Nat
      BY <3>1, StartNext
    <3>4. QED BY <3>1, <3>2, <3>3, SizeType, AvAssumption
  <2>4. QED BY <2>2, <2>3
<1>3. \A k \in Nat : k \in T
  <2> HIDE DEF T
  <2>1. QED BY <1>1, <1>2, Induction
<1>4. QED BY <1>3 DEF Frames

\* Frames are in the order of their beginnings, and differ in them.
LEMMA StartInjective ==
  \A f, g \in Frames : /\ Start[f] < Start[g] => f < g
                       /\ Start[f] = Start[g] => f = g
                       /\ Start[f] < Start[g] => Start[f + 1] <= Start[g]
<1> SUFFICES ASSUME NEW f \in Frames, NEW g \in Frames
             PROVE /\ Start[f] < Start[g] => f < g
                   /\ Start[f] = Start[g] => f = g
                   /\ Start[f] < Start[g] => Start[f + 1] <= Start[g]
  OBVIOUS
<1>1. f \in Int /\ g \in Int /\ HeaderSize \in Nat \ {0} /\ Size(f) \in Nat /\ Size(g) \in Nat
  BY SizeType, AvAssumption DEF Frames
<1>2. f < g => Start[f + 1] <= Start[g]
  BY StartOrder
<1>3. g < f => Start[g + 1] <= Start[f]
  BY StartOrder
<1>4. QED BY <1>1, <1>2, <1>3, StartNext

-----------------------------------------------------------------------------
(* Types. *)

\* What a reassembler can be: while it lacks bytes of a payload, it has read a header.
Objects == {r \in Reassemblers : r.remaining > 0 => r.head # 0}

ObjectInv ==
  /\ session \in Sessions /\ sent \in 0..StreamSize
  /\ payloads \in Seq(Seq(Positions))
  /\ reassembler \in Objects
  /\ left = <<>> \/ \E r \in Objects : left = <<r>>

\* The object's generator has nothing more to do.
Drained(r) == Len(r.pending) < HeaderSize /\ (r.remaining > 0 => r.pending = <<>>)

PendingInv ==
  /\ ~feeding => left = <<>> /\ Drained(reassembler)
  /\ left # <<>> => reassembler.pending = <<>> /\ reassembler.remaining = 0

LEMMA ObjectFields ==
  ASSUME NEW r \in Objects
  PROVE  /\ r.id \in Nat /\ r.session \in Sessions /\ r.head \in Frames \cup {0}
         /\ r.remaining \in Nat /\ r.buf \in Seq(Positions) /\ r.pending \in Seq(Positions)
         /\ r.remaining > 0 => r.head \in Frames
  BY DEF Objects, Reassemblers

LEMMA FreshObject ==
  ASSUME NEW s \in Sessions, NEW n \in Nat
  PROVE  /\ FrameReassembler(s, n) \in Objects
         /\ FrameReassembler(s, n).pending = <<>> /\ FrameReassembler(s, n).remaining = 0
  BY DEF FrameReassembler, Objects, Reassemblers

LEMMA DropSeq ==
  ASSUME NEW q \in Seq(Positions), NEW n \in Nat, n <= Len(q)
  PROVE  Drop(q, n) \in Seq(Positions)
  BY DEF Drop

LEMMA RunningObject == ObjectInv => Running \in Objects
  BY DEF ObjectInv, Running

LEMMA BytesSeq ==
  ASSUME NEW s \in Sessions, NEW p \in Nat, NEW n \in Nat
  PROVE  Bytes(s, p, n) \in Seq(Positions)
  BY DEF Bytes, Byte, Positions

\* What a step of the generator leaves is an object.
LEMMA PartObject ==
  ASSUME NEW r \in Objects
  PROVE  /\ TakePart(r) \in Objects
         /\ TakePart(r).head = r.head /\ TakePart(r).session = r.session
<1> DEFINE n == Lesser(r.remaining, Len(r.pending))
<1>1. r.remaining \in Nat /\ r.pending \in Seq(Positions) /\ r.buf \in Seq(Positions)
  BY ObjectFields
<1>2. n \in Nat /\ n <= r.remaining /\ n <= Len(r.pending)
  BY <1>1 DEF Lesser
<1>3. Drop(r.pending, n) \in Seq(Positions)
  BY <1>1, <1>2, DropSeq
<1>4. r.buf \o SubSeq(r.pending, 1, n) \in Seq(Positions)
  BY <1>1, <1>2
<1>5. r.remaining - n \in Nat /\ r.remaining - n <= r.remaining
  BY <1>1, <1>2
<1>6. TakePart(r) = [r EXCEPT !.remaining = r.remaining - n,
                              !.buf = r.buf \o SubSeq(r.pending, 1, n),
                              !.pending = Drop(r.pending, n)]
  BY DEF TakePart, Objects, Reassemblers
<1>7. r.remaining - n > 0 => r.head # 0
  BY <1>5, ObjectFields DEF Frames
<1> HIDE DEF n
<1>8. /\ TakePart(r).remaining = r.remaining - n /\ TakePart(r).head = r.head
      /\ TakePart(r).session = r.session
  BY <1>6 DEF Objects, Reassemblers
<1>9. TakePart(r) \in Reassemblers
  BY <1>3, <1>4, <1>5, <1>6 DEF Objects, Reassemblers
<1>10. QED BY <1>7, <1>8, <1>9 DEF Objects

\* What reading a header leaves is an object.
LEMMA HeaderObject ==
  ASSUME NEW r \in Objects, NEW f \in Frames, NEW n \in Nat, NEW q \in Seq(Positions)
  PROVE  [r EXCEPT !.head = f, !.remaining = n, !.buf = <<>>, !.pending = q] \in Objects
<1>1. <<>> \in Seq(Positions) /\ f # 0
  BY DEF Frames
<1>2. QED BY <1>1 DEF Objects, Reassemblers

\* The generator's own steps keep the types, and what replaced its object as it is.
LEMMA BecomesKeeps ==
  ASSUME ObjectInv, PendingInv, feeding, NEW r \in Objects, Becomes(r),
         UNCHANGED <<session, sent, payloads, feeding>>
  PROVE  ObjectInv' /\ PendingInv'
<1>1. CASE left = <<>>
  BY <1>1 DEF Becomes, ObjectInv, PendingInv
<1>2. CASE left # <<>>
  BY <1>2 DEF Becomes, ObjectInv, PendingInv
<1>3. QED BY <1>1, <1>2

\* A new reassembler takes the place of the one whose generator may be running.
LEMMA Replaced ==
  ASSUME ObjectInv, NEW s \in Sessions, NEW from \in Nat, StartOver(s, from),
         session' \in Sessions, sent' \in 0..StreamSize, UNCHANGED <<payloads, feeding>>,
         left' = <<>> \/ \E r \in Objects : left' = <<r>>,
         ~feeding => left' = <<>>
  PROVE  ObjectInv' /\ PendingInv'
<1>1. reassembler' \in Objects /\ reassembler'.pending = <<>> /\ reassembler'.remaining = 0
  <2>1. reassembler.id + 1 \in Nat
    BY ObjectFields DEF ObjectInv
  <2>2. QED BY <2>1, FreshObject DEF StartOver
<1>2. Drained(reassembler)'
  BY <1>1, AvAssumption DEF Drained
<1>3. QED BY <1>1, <1>2 DEF ObjectInv, PendingInv

LEMMA NewSessionType ==
  ASSUME ObjectInv, NewSession
  PROVE  session' \in Sessions /\ sent' \in 0..StreamSize
  BY StreamSizeType, AvAssumption DEF ObjectInv, NewSession, Sessions

-----------------------------------------------------------------------------
LEMMA PendingInit == Init => ObjectInv /\ PendingInv
<1> SUFFICES ASSUME Init PROVE ObjectInv /\ PendingInv
  OBVIOUS
<1>1. 1 \in Sessions /\ 1 \in Nat /\ 0 \in 0..StreamSize
  BY StreamSizeType, AvAssumption DEF Sessions
<1>2. /\ reassembler \in Objects
      /\ reassembler.pending = <<>> /\ reassembler.remaining = 0
  BY <1>1, FreshObject DEF Init
<1>3. Drained(reassembler)
  BY <1>2, AvAssumption DEF Drained
<1>4. QED BY <1>1, <1>2, <1>3 DEF Init, ObjectInv, PendingInv

\* The object after the byte that is skipped.
LEMMA ResyncObject ==
  ASSUME NEW r \in Objects, AtHeader(r)
  PROVE  [r EXCEPT !.pending = Tail(@)] \in Objects
<1>1. Tail(r.pending) \in Seq(Positions)
  BY ObjectFields, AvAssumption DEF AtHeader
<1>2. QED BY <1>1 DEF Objects, Reassemblers

\* The steps of the generator.
LEMMA ReassembleKeeps ==
  ASSUME ObjectInv, PendingInv, Reassemble
  PROVE  ObjectInv' /\ PendingInv'
<1>1. Running \in Objects /\ TakePart(Running) \in Objects
  BY RunningObject, PartObject
<1>2. CASE Resync
  BY <1>1, <1>2, ResyncObject, BecomesKeeps DEF Resync
<1>3. CASE ReadHeader
  <2>1. PICK f \in HeaderOf(Running) :
          Becomes([Running EXCEPT !.head = f, !.remaining = Size(f), !.buf = <<>>,
                                  !.pending = Drop(@, HeaderSize)])
    BY <1>3 DEF ReadHeader
  <2>2. f \in Frames /\ Size(f) \in Nat
    BY SizeType DEF HeaderOf
  <2>3. Drop(Running.pending, HeaderSize) \in Seq(Positions)
    BY <1>1, <1>3, DropSeq, ObjectFields, AvAssumption DEF ReadHeader, AtHeader
  <2>4. [Running EXCEPT !.head = f, !.remaining = Size(f), !.buf = <<>>,
                        !.pending = Drop(@, HeaderSize)] \in Objects
    BY <1>1, <2>2, <2>3, HeaderObject
  <2>5. QED BY <1>3, <2>1, <2>4, BecomesKeeps DEF ReadHeader
<1>4. CASE ReadPart
  BY <1>1, <1>4, BecomesKeeps DEF ReadPart
<1>5. CASE AudioFrame
  BY <1>1, <1>5, BecomesKeeps DEF AudioFrame, Yields
<1>6. CASE VideoFrame
  BY <1>1, <1>6, BecomesKeeps DEF VideoFrame, Yields
<1>7. CASE StuckEncoder
  <2>1. session' \in Sessions /\ sent' \in 0..StreamSize /\ feeding
    BY <1>7, NewSessionType DEF StuckEncoder, Yields
  <2>2. left' = <<TakePart(Running)>> /\ StartOver(session', 0)
    BY <1>7 DEF StuckEncoder
  <2>3. UNCHANGED <<payloads, feeding>>
    BY <1>7 DEF StuckEncoder
  <2>4. QED BY <1>1, <2>1, <2>2, <2>3, Replaced
<1>8. CASE FeedDone
  <2>1. UNCHANGED <<session, sent, payloads, reassembler>> /\ ~feeding' /\ left' = <<>>
    BY <1>8 DEF FeedDone
  <2>2. Drained(Running)
    BY <1>1, <1>8, ObjectFields, AvAssumption DEF FeedDone, AtHeader, Drained
  <2>3. Drained(reassembler)
    <3>1. CASE left = <<>>
      BY <2>2, <3>1 DEF Running
    <3>2. CASE left # <<>>
      BY <3>2, AvAssumption DEF PendingInv, Drained
    <3>3. QED BY <3>1, <3>2
  <2>4. QED BY <2>1, <2>3 DEF ObjectInv, PendingInv, Drained
<1>9. QED BY <1>2, <1>3, <1>4, <1>5, <1>6, <1>7, <1>8 DEF Reassemble

\* What arrives, and the reconnects.
LEMMA ArrivalKeeps ==
  ASSUME ObjectInv, PendingInv, [Next]_vars, ~Reassemble
  PROVE  ObjectInv' /\ PendingInv'
<1>0. session \in Sessions /\ sent \in Nat /\ StreamSize \in Nat
  BY StreamSizeType DEF ObjectInv
<1>1. ASSUME NEW n \in 0..StreamSize, NEW k \in 0..StreamSize, Receive(n, k)
      PROVE  ObjectInv' /\ PendingInv'
  <2>1. n \in Nat /\ k \in Nat /\ sent + n \in Nat
    BY <1>0
  <2>2. /\ UNCHANGED <<session, feeding, reassembler, left>>
        /\ sent' = sent + n + k /\ sent + n + k <= StreamSize
        /\ payloads' = IF k = 0 THEN <<Bytes(session, sent, n)>>
                       ELSE <<Bytes(session, sent, n), Bytes(session, sent + n, k)>>
    BY <1>1 DEF Receive
  <2>3. Bytes(session, sent, n) \in Seq(Positions) /\ Bytes(session, sent + n, k) \in Seq(Positions)
    BY <1>0, <2>1, BytesSeq
  <2>4. payloads' \in Seq(Seq(Positions))
    BY <2>2, <2>3
  <2>5. sent' \in 0..StreamSize
    BY <1>0, <2>1, <2>2
  <2>6. QED BY <2>2, <2>4, <2>5 DEF ObjectInv, PendingInv, Drained
<1>9. ASSUME NEW n \in 1..StreamSize, NEW m \in OldSizes, ReceiveOld(n, m)
      PROVE  ObjectInv' /\ PendingInv'
  <2>1. n \in Nat /\ m \in Nat /\ 0 \in Nat
    BY <1>0, AvAssumption
  <2>2. PICK s \in Sessions : payloads' = <<Bytes(session, sent, n), Bytes(s, 0, m)>>
    BY <1>9 DEF ReceiveOld
  <2>3. /\ UNCHANGED <<session, feeding, reassembler, left>>
        /\ sent' = sent + n /\ sent + n <= StreamSize
    BY <1>9 DEF ReceiveOld
  <2>4. Bytes(session, sent, n) \in Seq(Positions) /\ Bytes(s, 0, m) \in Seq(Positions)
    BY <1>0, <2>1, BytesSeq
  <2>5. payloads' \in Seq(Seq(Positions))
    BY <2>2, <2>4
  <2>6. sent' \in 0..StreamSize
    BY <1>0, <2>1, <2>3
  <2>7. QED BY <2>3, <2>5, <2>6 DEF ObjectInv, PendingInv, Drained
<1>2. ASSUME NEW n \in 1..StreamSize, Lose(n) PROVE ObjectInv' /\ PendingInv'
  <2>1. sent' \in 0..StreamSize
    BY <1>0, <1>2 DEF Lose
  <2>2. UNCHANGED <<session, payloads, feeding, reassembler, left>>
    BY <1>2 DEF Lose
  <2>3. QED BY <2>1, <2>2 DEF ObjectInv, PendingInv, Drained
<1>3. CASE Feed
  <2>1. /\ left = <<>> /\ payloads # <<>> /\ feeding'
        /\ reassembler' = [reassembler EXCEPT !.pending = @ \o Head(payloads)]
        /\ payloads' = Tail(payloads) /\ UNCHANGED <<session, sent, left>>
    BY <1>3 DEF Feed, PendingInv
  <2>2. Head(payloads) \in Seq(Positions) /\ payloads' \in Seq(Seq(Positions))
    BY <2>1 DEF ObjectInv
  <2>3. reassembler.pending \o Head(payloads) \in Seq(Positions)
    BY <2>2, ObjectFields DEF ObjectInv
  <2>4. reassembler' \in Objects
    BY <2>1, <2>3 DEF ObjectInv, Objects, Reassemblers
  <2>5. QED BY <2>1, <2>2, <2>4 DEF ObjectInv, PendingInv
<1>4. CASE StreamEnd \/ StallReconnect
  <2>1. /\ session' \in Sessions /\ sent' \in 0..StreamSize /\ ~feeding /\ left = <<>>
        /\ StartOver(session', 0) /\ UNCHANGED <<payloads, feeding, left>>
    BY <1>4, NewSessionType DEF StreamEnd, StallReconnect, Waiting, PendingInv
  <2>2. QED BY <2>1, Replaced
<1>5. CASE ClientStarts
  <2>1. /\ StartOver(session, sent) /\ UNCHANGED <<session, sent, payloads, feeding>>
        /\ left' = IF feeding /\ left = <<>> THEN <<reassembler>> ELSE left
    BY <1>5 DEF ClientStarts
  <2>2. left' = <<>> \/ \E r \in Objects : left' = <<r>>
    BY <2>1 DEF ObjectInv
  <2>3. ~feeding => left' = <<>>
    BY <2>1 DEF PendingInv
  <2>4. session' \in Sessions /\ sent' \in 0..StreamSize
    BY <2>1 DEF ObjectInv
  <2>5. QED BY <1>0, <2>1, <2>2, <2>3, <2>4, Replaced
<1>6. CASE TalkStartsOrStops
  BY <1>6 DEF TalkStartsOrStops, ObjectInv, PendingInv, Drained
<1>7. CASE UNCHANGED vars
  BY <1>7 DEF vars, ObjectInv, PendingInv, Drained
<1>8. QED BY <1>1, <1>2, <1>3, <1>4, <1>5, <1>6, <1>7, <1>9 DEF Next

LEMMA ObjectsHold == Spec => [](ObjectInv /\ PendingInv)
<1>1. ObjectInv /\ PendingInv /\ [Next]_vars => (ObjectInv /\ PendingInv)'
  BY ReassembleKeeps, ArrivalKeeps
<1>2. QED BY PendingInit, <1>1, PTL DEF Spec

\* The reassembler keeps less than a header between two payloads.
THEOREM LittlePending == Spec => []LittleIsPending
<1>1. PendingInv => LittleIsPending
  BY DEF PendingInv, Drained, LittleIsPending
<1>2. QED BY ObjectsHold, <1>1, PTL

-----------------------------------------------------------------------------
(* The loop's own variables. *)

LoopType ==
  /\ kept \in 0..MaxKept /\ feeding \in BOOLEAN
  /\ last_picture \in Nat /\ dup_run_len \in 0..(StuckAfter - 1)
  /\ adpcm_owner \in Nat
  /\ decoder \in {NoFrame} \cup [session : Sessions, frame : Frames]
  /\ muted \in BOOLEAN /\ starts \in 0..MaxStarts /\ losses \in 0..MaxLosses
  /\ got \in Seq([frame : Frames, whole : BOOLEAN]) /\ safe \in Nat
  /\ broken \in BOOLEAN /\ trimmed \in BOOLEAN /\ offkey \in BOOLEAN /\ crossed \in BOOLEAN

\* The ADPCM frames with samples from f on.
Audible(f) == {g \in Frames : g >= f /\ Script[g].kind = "adpcm" /\ Size(g) > 0}

\* NextAdpcm() is the first of them.
LEMMA NextIsFirst ==
  ASSUME NEW s, NEW f
  PROVE  /\ Audible(f) = {} => NextAdpcm(s, f) = NoFrame
         /\ Audible(f) # {} =>
              \E g \in Audible(f) : /\ \A h \in Audible(f) : g <= h
                                    /\ NextAdpcm(s, f) = [session |-> s, frame |-> g]
<1>1. Audible(f) \subseteq Nat
  BY DEF Audible, Frames
<1>2. CASE Audible(f) # {}
  <2>1. \E m \in Audible(f) : \A k \in Audible(f) : m <= k
    BY <1>1, <1>2, Smallest
  <2>2. NextAdpcm(s, f) =
          [session |-> s, frame |-> CHOOSE g \in Audible(f) : \A h \in Audible(f) : g <= h]
    BY <1>2 DEF NextAdpcm, Audible
  <2>3. QED BY <1>2, <2>1, <2>2
<1>3. QED BY <1>2 DEF NextAdpcm, Audible

LEMMA NextType ==
  ASSUME NEW s \in Sessions, NEW f
  PROVE  NextAdpcm(s, f) \in {NoFrame} \cup [session : Sessions, frame : Frames]
<1>1. Audible(f) \subseteq Frames
  BY DEF Audible
<1>2. QED BY <1>1, NextIsFirst

\* What a yield adds to got, and what the decoder makes of it.
LEMMA YieldType ==
  ASSUME ObjectInv, LoopType, NEW r, Yields(r)
  PROVE  /\ r.head \in Frames /\ r.session \in Sessions
         /\ Noted(r) \in Seq([frame : Frames, whole : BOOLEAN])
<1>1. Running \in Objects /\ Running.remaining > 0 /\ r = TakePart(Running)
  BY RunningObject DEF Yields
<1>2. r.head \in Frames /\ r.session \in Sessions
  BY <1>1, PartObject, ObjectFields
<1>3. Whole(r) \in BOOLEAN
  BY DEF Whole
<1>4. [frame |-> r.head, whole |-> Whole(r)] \in [frame : Frames, whole : BOOLEAN]
  BY <1>2, <1>3
<1>5. got \in Seq([frame : Frames, whole : BOOLEAN])
  BY DEF LoopType
<1>6. Append(got, [frame |-> r.head, whole |-> Whole(r)]) \in Seq([frame : Frames, whole : BOOLEAN])
  BY <1>4, <1>5, AppendProperties
<1>7. QED BY <1>2, <1>5, <1>6, Zenon DEF Noted

LEMMA DecodeType ==
  ASSUME ObjectInv, LoopType, NEW r, r.session \in Sessions, DecodeFrame(r)
  PROVE  /\ adpcm_owner' \in Nat
         /\ decoder' \in {NoFrame} \cup [session : Sessions, frame : Frames]
         /\ trimmed' \in BOOLEAN /\ offkey' \in BOOLEAN /\ crossed' \in BOOLEAN
<1>1. adpcm_owner' \in Nat
  BY ObjectFields DEF ObjectInv, DecodeFrame
<1>2. decoder' \in {NoFrame} \cup [session : Sessions, frame : Frames]
  <2>1. decoder' = NextAdpcm(r.session, r.head + 1) \/ decoder' = NoFrame
    BY DEF DecodeFrame
  <2>2. QED BY <2>1, NextType
<1>3. trimmed' \in BOOLEAN /\ offkey' \in BOOLEAN /\ crossed' \in BOOLEAN
  BY DEF DecodeFrame
<1>4. QED BY <1>1, <1>2, <1>3

LEMMA RunType ==
  ASSUME LoopType, NEW r, Run(r) # StuckAfter
  PROVE  Run(r) \in 0..(StuckAfter - 1)
  BY AvAssumption DEF LoopType, Run

LEMMA LoopInit == Init => LoopType
<1>1. <<>> \in Seq([frame : Frames, whole : BOOLEAN])
  OBVIOUS
<1>2. /\ 0 \in 0..(StuckAfter - 1) /\ 0 \in 0..MaxStarts /\ 0 \in 0..MaxLosses /\ 0 \in Nat
      /\ 0 \in 0..MaxKept
  BY AvAssumption
<1>3. QED BY <1>1, <1>2 DEF Init, LoopType

\* Three groups of variables that most steps leave as they are.
LEMMA LoopKeeps ==
  ASSUME ObjectInv, LoopType, [Next]_vars PROVE LoopType'
<1>0. /\ session \in Nat /\ sent \in Nat /\ StreamSize \in Nat /\ reassembler.remaining \in Nat
      /\ <<>> \in Seq([frame : Frames, whole : BOOLEAN])
  BY StreamSizeType, ObjectFields DEF ObjectInv, Sessions
<1>1. CASE Resync \/ ReadHeader \/ ReadPart
  BY <1>1 DEF Resync, ReadHeader, ReadPart, LoopType, stuck, audio
<1>2. CASE AudioFrame
  <2>1. PICK r \in {TakePart(Running)} :
          /\ Yields(r) /\ got' = Noted(r)
          /\ IF Script[r.head].kind = "adpcm" THEN Decode(r) ELSE UNCHANGED audio
    BY <1>2 DEF AudioFrame
  <2>2. UNCHANGED <<kept, feeding, stuck, muted, starts, losses, safe, broken>>
    BY <1>2 DEF AudioFrame
  <2>3. /\ adpcm_owner' \in Nat
        /\ decoder' \in {NoFrame} \cup [session : Sessions, frame : Frames]
        /\ trimmed' \in BOOLEAN /\ offkey' \in BOOLEAN /\ crossed' \in BOOLEAN
    <3>1. CASE UNCHANGED audio
      BY <3>1 DEF LoopType, audio
    <3>2. CASE DecodeFrame(r)
      BY <2>1, <3>2, YieldType, DecodeType
    <3>3. QED BY <2>1, <3>1, <3>2 DEF Decode
  <2>4. got' \in Seq([frame : Frames, whole : BOOLEAN])
    BY <2>1, YieldType
  <2>5. QED BY <2>2, <2>3, <2>4 DEF LoopType, stuck
<1>3. CASE VideoFrame
  <2>1. PICK r \in {TakePart(Running)} :
          /\ Yields(r) /\ got' = Noted(r) /\ Run(r) # StuckAfter
          /\ last_picture' = IF Whole(r) THEN Script[r.head].picture ELSE 0
          /\ dup_run_len' = Run(r)
    BY <1>3 DEF VideoFrame
  <2>2. UNCHANGED <<kept, feeding, audio, muted, starts, losses, safe, broken>>
    BY <1>3 DEF VideoFrame
  <2>3. Script[r.head].picture \in Nat
    <3>1. r.head \in 1..Len(Script)
      BY <2>1, YieldType DEF Frames
    <3>2. Script[r.head] \in [kind : Kinds, size : Nat, picture : Nat]
      BY <3>1, ElementOfSeq, AvAssumption
    <3>3. QED BY <3>2
  <2>4. got' \in Seq([frame : Frames, whole : BOOLEAN])
    BY <2>1, YieldType
  <2>5. dup_run_len' \in 0..(StuckAfter - 1)
    BY <2>1, RunType
  <2>6. last_picture' \in Nat
    BY <2>1, <2>3
  <2>7. QED BY <2>2, <2>4, <2>5, <2>6 DEF LoopType, audio
<1>4. CASE StuckEncoder \/ StreamEnd \/ StallReconnect
  <2>1. /\ got' = <<>> /\ safe' = 0 /\ broken' = FALSE
        /\ kept' \in 0..MaxKept /\ UNCHANGED <<feeding, audio, muted, starts, losses>>
        /\ ForgetPictures \/ UNCHANGED stuck
    BY <1>4, AvAssumption DEF StuckEncoder, StreamEnd, StallReconnect, StartOver, NewSession
  <2>2. last_picture' \in Nat /\ dup_run_len' \in 0..(StuckAfter - 1)
    BY <2>1, AvAssumption DEF LoopType, ForgetPictures, stuck
  <2>3. QED BY <1>0, <2>1, <2>2 DEF LoopType, audio
<1>5. CASE ClientStarts
  <2>1. /\ got' = <<>> /\ safe' = sent /\ last_picture' = 0 /\ dup_run_len' = 0
        /\ starts < MaxStarts /\ starts' = starts + 1
        /\ kept' = 0 /\ UNCHANGED <<feeding, audio, muted, losses, broken>>
    BY <1>5 DEF ClientStarts, StartOver, ForgetPictures
  <2>2. QED BY <1>0, <2>1, AvAssumption DEF LoopType, audio
<1>6. ASSUME NEW n \in 1..StreamSize, Lose(n) PROVE LoopType'
  <2>1. /\ losses < MaxLosses /\ losses' = losses + 1
        /\ safe' = sent + n + reassembler.remaining /\ broken' = TRUE
        /\ UNCHANGED <<kept, feeding, stuck, audio, muted, starts, got>>
    BY <1>6 DEF Lose
  <2>2. QED BY <1>0, <2>1, AvAssumption DEF LoopType, stuck, audio
<1>7. CASE (\E n, k \in 0..StreamSize : Receive(n, k)) \/ FeedDone
  BY <1>7 DEF Receive, FeedDone, LoopType, stuck, audio
<1>11. ASSUME NEW n \in 1..StreamSize, NEW m \in OldSizes, ReceiveOld(n, m) PROVE LoopType'
  <2>1. /\ kept' \in 0..(kept - 1)
        /\ UNCHANGED <<feeding, stuck, audio, muted, starts, losses, got, safe, broken>>
    BY <1>11 DEF ReceiveOld
  <2>2. kept' \in 0..MaxKept
    BY <2>1, AvAssumption DEF LoopType
  <2>3. QED BY <2>1, <2>2 DEF LoopType, stuck, audio
<1>12. CASE Feed
  <2>1. /\ feeding' \in BOOLEAN
        /\ UNCHANGED <<kept, stuck, audio, muted, starts, losses, got>>
        /\ broken' = (broken \/ FallsInto)
        /\ safe' = IF FallsInto THEN Greater(safe, sent + reassembler.remaining) ELSE safe
    BY <1>12 DEF Feed
  <2>2. safe' \in Nat
    BY <1>0, <2>1 DEF LoopType, Greater
  <2>3. broken' \in BOOLEAN
    BY <2>1
  <2>4. QED BY <2>1, <2>2, <2>3 DEF LoopType, stuck, audio
<1>8. CASE TalkStartsOrStops
  BY <1>8 DEF TalkStartsOrStops, LoopType, stuck, audio
<1>9. CASE UNCHANGED vars
  BY <1>9 DEF vars, LoopType, stuck, audio
<1>10. QED
  BY <1>1, <1>2, <1>3, <1>4, <1>5, <1>6, <1>7, <1>8, <1>9,
     <1>11, <1>12 DEF Next, Reassemble

LEMMA TypesHold == Spec => [](ObjectInv /\ PendingInv /\ LoopType)
<1>1. ObjectInv /\ LoopType /\ [Next]_vars => LoopType'
  BY LoopKeeps
<1>2. QED BY ObjectsHold, LoopInit, <1>1, PTL DEF Spec

\* Every variable keeps its type.  A run of equal pictures never outlasts the reconnect it
\* starts, and there is no frame that the decoder could be ready for but one with a header
\* in Script.
THEOREM TypesAreCorrect == Spec => []TypeOK
<1>1. ObjectInv /\ LoopType => TypeOK
  <2> SUFFICES ASSUME ObjectInv, LoopType PROVE TypeOK
    OBVIOUS
  <2>1. reassembler \in Reassemblers
    BY DEF ObjectInv, Objects
  <2>2. left \in Seq(Reassemblers) /\ Len(left) <= 1
    <3>1. CASE left = <<>>
      BY <3>1
    <3>2. ASSUME NEW r \in Objects, left = <<r>>
          PROVE  left \in Seq(Reassemblers) /\ Len(left) <= 1
      <4>1. r \in Reassemblers
        BY DEF Objects
      <4>2. QED BY <3>2, <4>1
    <3>3. QED BY <3>1, <3>2 DEF ObjectInv
  <2>3. dup_run_len \in 0..StuckAfter
    BY AvAssumption DEF LoopType
  <2>4. {broken, trimmed, offkey, crossed} \subseteq BOOLEAN
    BY DEF LoopType
  <2>5. QED BY <2>1, <2>2, <2>3, <2>4 DEF TypeOK, ObjectInv, LoopType
<1>2. QED BY TypesHold, <1>1, PTL

-----------------------------------------------------------------------------
(* The payloads. *)

\* A payload of an old session.
Old(x) == x[1].session # session

\* A payload is bytes of one session.
Piece(x) ==
  /\ x # <<>> /\ x[1].session <= session
  /\ \A i \in 1..Len(x) : x[i].session = x[1].session

\* There is no payload of the present session behind one of an old session.
PayloadsInv ==
  /\ Len(payloads) <= 2
  /\ \A k \in 1..Len(payloads) : Piece(payloads[k])
  /\ Len(payloads) = 2 /\ Old(payloads[1]) => Old(payloads[2])

LEMMA ByteFields ==
  \A s, p : Byte(s, p).session = s /\ Byte(s, p).pos = p
  BY DEF Byte

LEMMA BytesFacts ==
  ASSUME NEW s \in Sessions, NEW p \in Nat, NEW n \in Nat
  PROVE  /\ Len(Bytes(s, p, n)) = n /\ DOMAIN Bytes(s, p, n) = 1..n
         /\ \A i \in 1..n : Bytes(s, p, n)[i] = Byte(s, p + i - 1)
<1>1. Bytes(s, p, n) \in Seq(Positions)
  BY BytesSeq
<1>2. DOMAIN Bytes(s, p, n) = 1..n /\ \A i \in 1..n : Bytes(s, p, n)[i] = Byte(s, p + i - 1)
  BY DEF Bytes
<1>3. QED BY <1>1, <1>2

LEMMA BytesPiece ==
  ASSUME NEW s \in Sessions, NEW p \in Nat, NEW n \in Nat, n > 0, s <= session
  PROVE  Piece(Bytes(s, p, n)) /\ Bytes(s, p, n)[1].session = s
<1> DEFINE x == Bytes(s, p, n)
<1>1. Len(x) = n /\ \A i \in 1..n : x[i].session = s
  <2>1. ASSUME NEW i \in 1..n PROVE x[i].session = s
    <3>1. x[i] = Byte(s, p + i - 1)
      BY BytesFacts
    <3>2. QED BY <3>1, ByteFields
  <2>2. QED BY <2>1, BytesFacts
<1>2. x # <<>> /\ 1 \in 1..n
  BY <1>1
<1> HIDE DEF x
<1>3. Piece(x) /\ x[1].session = s
  BY <1>1, <1>2 DEF Piece
<1>4. QED BY <1>3 DEF x

LEMMA PayloadType ==
  ASSUME ObjectInv, NEW k \in 1..Len(payloads), Piece(payloads[k])
  PROVE  payloads[k] \in Seq(Positions) /\ payloads[k][1].session \in Sessions
<1>1. payloads[k] \in Seq(Positions)
  BY ElementOfSeq DEF ObjectInv
<1>2. PICK x : x = payloads[k]
  OBVIOUS
<1>3. x \in Seq(Positions) /\ x # <<>>
  BY <1>1, <1>2 DEF Piece
<1>4. 1 \in 1..Len(x)
  BY <1>3
<1>5. x[1] \in Positions
  BY <1>3, <1>4, ElementOfSeq
<1>6. QED BY <1>2, <1>3, <1>5 DEF Positions

\* What is delivered keeps PayloadsInv.
LEMMA DeliveredKeeps ==
  ASSUME ObjectInv, NEW n \in Nat, n > 0, UNCHANGED session,
         \/ payloads' = <<Bytes(session, sent, n)>>
         \/ \E s \in Sessions, p \in Nat, m \in Nat :
              /\ m > 0 /\ s <= session
              /\ payloads' = <<Bytes(session, sent, n), Bytes(s, p, m)>>
  PROVE  PayloadsInv'
<1>1. /\ session \in Sessions /\ sent \in Nat /\ session <= session
  BY StreamSizeType DEF ObjectInv, Sessions
<1> DEFINE a == Bytes(session, sent, n)
<1>2. Piece(a) /\ ~Old(a)
  BY <1>1, BytesPiece DEF Old
<1> HIDE DEF a
<1>3. \A x : (Piece(x) => Piece(x)') /\ (Old(x)' <=> Old(x))
  BY DEF Piece, Old
<1>4. CASE payloads' = <<a>>
  <2>1. Len(payloads') = 1 /\ payloads'[1] = a
    BY <1>4
  <2>2. QED BY <1>2, <1>3, <2>1 DEF PayloadsInv, Piece
<1>5. ASSUME NEW s \in Sessions, NEW p \in Nat, NEW m \in Nat, m > 0, s <= session,
             payloads' = <<a, Bytes(s, p, m)>>
      PROVE  PayloadsInv'
  <2> DEFINE b == Bytes(s, p, m)
  <2>1. Piece(b)
    BY <1>5, BytesPiece
  <2> HIDE DEF b
  <2>2. /\ Len(payloads') = 2 /\ payloads'[1] = a /\ payloads'[2] = b
        /\ 1..2 = {1, 2}
    BY <1>5 DEF b
  <2>3. \A k \in 1..Len(payloads') : Piece(payloads'[k])
    BY <1>2, <2>1, <2>2
  <2>4. ~Old(payloads'[1])
    BY <1>2, <2>2
  <2>5. QED BY <2>2, <2>3, <2>4 DEF PayloadsInv, Piece, Old
<1>6. QED BY <1>4, <1>5 DEF a

LEMMA PayloadsKeep ==
  ASSUME ObjectInv, PayloadsInv, [Next]_vars
  PROVE  PayloadsInv'
<1>0. session \in Sessions /\ session \in Int /\ Sessions \subseteq Int
  BY DEF ObjectInv, Sessions
<1>1. CASE UNCHANGED <<session, payloads>>
  BY <1>1 DEF PayloadsInv, Piece, Old
<1>2. CASE NewSession /\ UNCHANGED payloads
  <2>1. session' = session + 1
    BY <1>2 DEF NewSession
  <2>2. ASSUME NEW k \in 1..Len(payloads) PROVE Piece(payloads[k])' /\ Old(payloads[k])'
    <3>1. Piece(payloads[k]) /\ payloads[k][1].session \in Int
      BY <1>0, PayloadType DEF PayloadsInv
    <3>2. QED BY <1>0, <1>2, <2>1, <3>1 DEF Piece, Old
  <2>3. Len(payloads) = 2 => Old(payloads[2])'
    BY <2>2
  <2>4. QED BY <1>2, <2>2, <2>3 DEF PayloadsInv
<1>3. ASSUME NEW n \in 0..StreamSize, NEW k \in 0..StreamSize, Receive(n, k)
      PROVE  PayloadsInv'
  <2>1. /\ n \in Nat /\ k \in Nat /\ n > 0 /\ UNCHANGED session /\ sent + n \in Nat
        /\ session <= session
    BY <1>0, <1>3, StreamSizeType DEF Receive, ObjectInv
  <2>2. CASE k = 0
    BY <1>3, <2>1, <2>2, DeliveredKeeps DEF Receive
  <2>3. CASE k # 0
    <3>1. k > 0 /\ payloads' = <<Bytes(session, sent, n), Bytes(session, sent + n, k)>>
      BY <1>3, <2>1, <2>3 DEF Receive
    <3>2. QED BY <1>0, <2>1, <3>1, DeliveredKeeps
  <2>4. QED BY <2>2, <2>3
<1>4. ASSUME NEW n \in 1..StreamSize, NEW m \in OldSizes, ReceiveOld(n, m)
      PROVE  PayloadsInv'
  <2>1. n \in Nat /\ n > 0 /\ m \in Nat /\ m > 0 /\ 0 \in Nat /\ UNCHANGED session
    BY <1>4, AvAssumption DEF ReceiveOld
  <2>2. PICK s \in Sessions : /\ s < session
                              /\ payloads' = <<Bytes(session, sent, n), Bytes(s, 0, m)>>
    BY <1>4 DEF ReceiveOld
  <2>3. s <= session
    BY <1>0, <2>2
  <2>4. QED BY <2>1, <2>2, <2>3, DeliveredKeeps
<1>5. CASE Feed
  <2> DEFINE n == Len(payloads)
  <2>1. /\ payloads # <<>> /\ payloads' = Tail(payloads) /\ UNCHANGED session
        /\ payloads \in Seq(Seq(Positions)) /\ n \in Nat /\ n # 0
    BY <1>5, EmptySeq DEF Feed, ObjectInv
  <2>2. /\ Len(payloads') = n - 1
        /\ \A k \in 1..(n - 1) : payloads'[k] = payloads[k + 1]
    BY <2>1
  <2>3. n <= 2 /\ \A k \in 1..n : Piece(payloads[k])
    BY DEF PayloadsInv
  <2> HIDE DEF n
  <2>4. \A k \in 1..(n - 1) : k + 1 \in 1..n
    BY <2>1
  <2>5. \A k \in 1..Len(payloads') : Piece(payloads'[k])
    BY <2>2, <2>3, <2>4
  <2>6. \A x : Piece(x) => Piece(x)'
    BY <2>1 DEF Piece
  <2>7. Len(payloads') <= 2 /\ Len(payloads') # 2
    <3>1. n \in Nat /\ n <= 2 /\ Len(payloads') = n - 1
      BY <2>1, <2>2, <2>3
    <3>2. QED BY <3>1
  <2>8. \A k \in 1..Len(payloads') : Piece(payloads[k])'
    BY <2>5, <2>6
  <2>9. QED BY <2>7, <2>8 DEF PayloadsInv
<1>6. CASE StuckEncoder \/ StreamEnd \/ StallReconnect
  BY <1>2, <1>6 DEF StuckEncoder, StreamEnd, StallReconnect
<1>7. CASE \/ Resync \/ ReadHeader \/ ReadPart \/ AudioFrame \/ VideoFrame \/ FeedDone
           \/ ClientStarts \/ TalkStartsOrStops \/ UNCHANGED vars
  <2>1. UNCHANGED <<session, payloads>>
    BY <1>7 DEF Resync, ReadHeader, ReadPart, AudioFrame, VideoFrame, FeedDone, ClientStarts,
                TalkStartsOrStops, vars
  <2>2. QED BY <1>1, <2>1
<1>8. ASSUME NEW n \in 1..StreamSize, Lose(n) PROVE PayloadsInv'
  BY <1>1, <1>8 DEF Lose
<1>9. QED BY <1>3, <1>4, <1>5, <1>6, <1>7, <1>8 DEF Next, Reassemble

LEMMA PayloadsHold == Spec => [](ObjectInv /\ PendingInv /\ LoopType /\ PayloadsInv)
<1>1. Init => PayloadsInv
  BY DEF Init, PayloadsInv
<1>2. ObjectInv /\ PayloadsInv /\ [Next]_vars => PayloadsInv'
  BY PayloadsKeep
<1>3. QED BY TypesHold, <1>1, <1>2, PTL DEF Spec

-----------------------------------------------------------------------------
(* The bytes that the reassembler has not read yet, without payloads of old sessions that   *)
(* have not been fed.                                                                       *)

Rest ==
  IF payloads = <<>> \/ Old(payloads[1]) THEN <<>>
  ELSE IF Len(payloads) = 1 \/ Old(payloads[2]) THEN payloads[1]
  ELSE payloads[1] \o payloads[2]

Unread == reassembler.pending \o Rest

\* Behind the first j bytes of q there are bytes of the session s only, in order and up to
\* e.  At none of the first j begins a header of s: either there is a byte of another session
\* among the HeaderSize bytes from there, or they go over the break behind j.
Stretch(q, j, s, e) ==
  /\ \A i \in (j + 1)..Len(q) : q[i] = Byte(s, e - Len(q) + i - 1)
  /\ \A i \in 1..j : \/ \E m \in i..j : m < i + HeaderSize /\ q[m].session # s
                     \/ i + HeaderSize > j + 1 /\ q[j] # Byte(s, e - Len(q) + j - 1)

LEMMA PrefixElement ==
  ASSUME NEW S, NEW q \in Seq(S), NEW n \in Nat, n <= Len(q), NEW i \in 1..n
  PROVE  SubSeq(q, 1, n)[i] = q[i]
  OBVIOUS

\* q begins with as many bytes as a header has, from the position p of s.
BeginsAt(q, s, p) == \A i \in 1..HeaderSize : q[i] = Byte(s, p + i - 1)

\* Where q begins with a header of s, nothing is before the stretch.
LEMMA HeaderOnStretch ==
  ASSUME NEW q \in Seq(Positions), NEW j \in 0..Len(q), NEW s, NEW e \in Int, NEW p \in Int,
         Stretch(q, j, s, e), Len(q) >= HeaderSize, BeginsAt(q, s, p)
  PROVE  j = 0 /\ p = e - Len(q)
<1>0. \A i \in 1..HeaderSize : q[i] = Byte(s, p + i - 1)
  BY DEF BeginsAt
<1>1. HeaderSize \in Nat \ {0} /\ Len(q) \in Nat /\ j \in Nat
  BY AvAssumption
<1>2. CASE j = 0
  <2>1. q[1] = Byte(s, e - Len(q) + 1 - 1) /\ q[1] = Byte(s, p + 1 - 1)
    BY <1>0, <1>1, <1>2 DEF Stretch
  <2>2. QED BY <1>1, <1>2, <2>1 DEF Byte
<1>3. CASE j # 0
  <2>1. q[1] = Byte(s, p + 1 - 1) /\ 1 \in 1..j
    BY <1>0, <1>1, <1>3
  <2>8. \A m \in 1..j : m < 1 + HeaderSize => q[m].session = s
    BY <1>0, <1>1, ByteFields
  <2>2. j < HeaderSize /\ q[j] # Byte(s, e - Len(q) + j - 1)
    BY <1>1, <2>1, <2>8, SMTT(30) DEF Stretch
  <2>3. q[j] = Byte(s, p + j - 1) /\ q[j + 1] = Byte(s, p + (j + 1) - 1)
    BY <1>0, <1>1, <1>3, <2>2
  <2>4. q[j + 1] = Byte(s, e - Len(q) + (j + 1) - 1)
    BY <1>1, <2>2 DEF Stretch
  <2>5. p + (j + 1) - 1 = e - Len(q) + (j + 1) - 1
    BY <2>3, <2>4, ByteFields
  <2>6. p + j - 1 = e - Len(q) + j - 1
    BY <1>1, <2>5
  <2>7. QED BY <2>2, <2>3, <2>6
<1>4. QED BY <1>2, <1>3

\* What is left of the first j bytes, when n have been read.
Beyond(j, n) == IF n < j THEN j - n ELSE 0

LEMMA StretchRead ==
  ASSUME NEW q \in Seq(Positions), NEW j \in 0..Len(q), NEW s, NEW e \in Int,
         NEW n \in 0..Len(q), Stretch(q, j, s, e)
  PROVE  /\ Stretch(SubSeq(q, n + 1, Len(q)), Beyond(j, n), s, e)
         /\ Beyond(j, n) \in 0..(Len(q) - n)
<1> DEFINE t == SubSeq(q, n + 1, Len(q))
<1>1. /\ HeaderSize \in Nat /\ Len(q) \in Nat /\ Len(t) = Len(q) - n
      /\ \A i \in 1..(Len(q) - n) : t[i] = q[i + n]
  BY AvAssumption
<1>2. j \in Nat /\ n \in Nat /\ Beyond(j, n) \in 0..(Len(q) - n)
  BY <1>1 DEF Beyond
<1>3. ASSUME NEW i \in (Beyond(j, n) + 1)..(Len(q) - n)
      PROVE  t[i] = Byte(s, e - (Len(q) - n) + i - 1)
  <2>1. i + n \in (j + 1)..Len(q) /\ i \in 1..(Len(q) - n)
    BY <1>1, <1>2 DEF Beyond
  <2>2. q[i + n] = Byte(s, e - Len(q) + (i + n) - 1)
    BY <2>1 DEF Stretch
  <2>3. e - Len(q) + (i + n) - 1 = e - (Len(q) - n) + i - 1
    BY <1>1, <1>2
  <2>4. QED BY <1>1, <2>1, <2>2, <2>3
<1>4. ASSUME NEW i \in 1..Beyond(j, n)
      PROVE  \/ \E m \in i..Beyond(j, n) : m < i + HeaderSize /\ t[m].session # s
             \/ /\ i + HeaderSize > Beyond(j, n) + 1
                /\ t[Beyond(j, n)] # Byte(s, e - (Len(q) - n) + Beyond(j, n) - 1)
  <2>1. /\ n < j /\ Beyond(j, n) = j - n /\ i + n \in 1..j /\ i \in 1..(Len(q) - n)
        /\ j - n \in 1..(Len(q) - n)
    BY <1>1, <1>2 DEF Beyond
  <2>2. \/ \E m \in (i + n)..j : m < (i + n) + HeaderSize /\ q[m].session # s
        \/ (i + n) + HeaderSize > j + 1 /\ q[j] # Byte(s, e - Len(q) + j - 1)
    BY <2>1 DEF Stretch
  <2>3. t[j - n] = q[(j - n) + n] /\ (j - n) + n = j
    <3>1. PICK d \in 1..(Len(q) - n) : d = j - n
      BY <2>1
    <3>2. t[d] = q[d + n]
      BY <1>1
    <3>3. (j - n) + n = j
      BY <1>2
    <3>4. QED BY <3>1, <3>2, <3>3
  <2>7. ASSUME NEW m \in (i + n)..j, m < (i + n) + HeaderSize, q[m].session # s
        PROVE  \E l \in i..(j - n) : l < i + HeaderSize /\ t[l].session # s
    <3>1. /\ m - n \in i..(j - n) /\ m - n < i + HeaderSize /\ (m - n) + n = m
          /\ m - n \in 1..(Len(q) - n)
      BY <1>1, <1>2, <2>1, <2>7
    <3>2. t[m - n] = q[(m - n) + n]
      BY <1>1, <3>1
    <3>3. QED BY <2>7, <3>1, <3>2
  <2>4. e - (Len(q) - n) + (j - n) - 1 = e - Len(q) + j - 1
    BY <1>1, <1>2
  <2>5. (i + n) + HeaderSize > j + 1 => i + HeaderSize > (j - n) + 1
    BY <1>1, <1>2
  <2>6. QED BY <2>1, <2>2, <2>3, <2>4, <2>5, <2>7
<1>5. QED BY <1>1, <1>2, <1>3, <1>4 DEF Stretch

\* What arrives next lengthens the stretch.
LEMMA StretchGrows ==
  ASSUME NEW q \in Seq(Positions), NEW j \in 0..Len(q), NEW s \in Sessions, NEW e \in Nat,
         NEW n \in Nat, Stretch(q, j, s, e)
  PROVE  /\ Stretch(q \o Bytes(s, e, n), j, s, e + n)
         /\ Len(q \o Bytes(s, e, n)) = Len(q) + n
<1> DEFINE b == Bytes(s, e, n)
           t == q \o b
<1>1. b \in Seq(Positions) /\ Len(b) = n /\ \A i \in 1..n : b[i] = Byte(s, e + i - 1)
  BY BytesSeq, BytesFacts
<1> HIDE DEF b
<1>2. /\ Len(q) \in Nat /\ Len(t) = Len(q) + n /\ \A i \in 1..Len(q) : t[i] = q[i]
      /\ \A i \in (Len(q) + 1)..(Len(q) + n) : t[i] = b[i - Len(q)]
  BY <1>1
<1> HIDE DEF t
<1>3. ASSUME NEW i \in (j + 1)..Len(t) PROVE t[i] = Byte(s, (e + n) - Len(t) + i - 1)
  <2>1. (e + n) - Len(t) + i - 1 = e - Len(q) + i - 1
    BY <1>2
  <2>2. CASE i <= Len(q)
    BY <1>2, <2>1, <2>2 DEF Stretch
  <2>3. CASE i > Len(q)
    <3>1. i \in (Len(q) + 1)..(Len(q) + n) /\ i - Len(q) \in 1..n
      BY <1>2, <2>3
    <3>2. t[i] = Byte(s, e + (i - Len(q)) - 1)
      BY <1>1, <1>2, <3>1
    <3>3. e + (i - Len(q)) - 1 = e - Len(q) + i - 1
      BY <1>2, <3>1
    <3>4. QED BY <2>1, <3>2, <3>3
  <2>4. QED BY <1>2, <2>2, <2>3
<1>4. ASSUME NEW i \in 1..j
      PROVE  \/ \E m \in i..j : m < i + HeaderSize /\ t[m].session # s
             \/ i + HeaderSize > j + 1 /\ t[j] # Byte(s, (e + n) - Len(t) + j - 1)
  <2>1. i \in 1..Len(q) /\ j \in 1..Len(q)
    BY <1>2
  <2>2. (e + n) - Len(t) + j - 1 = e - Len(q) + j - 1
    BY <1>2
  <2>3. \A m \in i..j : t[m] = q[m]
    BY <1>2
  <2>4. \/ \E m \in i..j : m < i + HeaderSize /\ q[m].session # s
        \/ i + HeaderSize > j + 1 /\ q[j] # Byte(s, e - Len(q) + j - 1)
    BY DEF Stretch
  <2>5. QED BY <1>2, <2>1, <2>2, <2>3, <2>4
<1>5. Stretch(t, j, s, e + n)
  BY <1>3, <1>4 DEF Stretch
<1>6. QED BY <1>2, <1>5 DEF t, b

\* After a loss, what is left of a header is completed by nothing that comes.
LEMMA StretchCut ==
  ASSUME NEW q \in Seq(Positions), NEW s, NEW e \in Nat, NEW f \in Nat, e < f,
         Len(q) < HeaderSize,
         \A i \in 1..Len(q) : q[i].session = s => q[i].pos < e
  PROVE  Stretch(q, Len(q), s, f)
<1>1. HeaderSize \in Nat /\ Len(q) \in Nat
  BY AvAssumption
<1>2. ASSUME NEW i \in 1..Len(q)
      PROVE  i + HeaderSize > Len(q) + 1 /\ q[Len(q)] # Byte(s, f - Len(q) + Len(q) - 1)
  <2>1. i + HeaderSize > Len(q) + 1 /\ Len(q) \in 1..Len(q)
    BY <1>1
  <2>2. CASE q[Len(q)] = Byte(s, f - Len(q) + Len(q) - 1)
    <3>1. q[Len(q)].session = s /\ q[Len(q)].pos = f - Len(q) + Len(q) - 1
      BY <2>2, ByteFields
    <3>2. f - Len(q) + Len(q) - 1 < e
      BY <2>1, <3>1
    <3>3. QED BY <1>1, <3>2
  <2>3. QED BY <2>1, <2>2
<1>3. (Len(q) + 1)..Len(q) = {}
  BY <1>1
<1>4. QED BY <1>2, <1>3 DEF Stretch

\* Nor is it by a payload of an old session.
LEMMA StretchOld ==
  ASSUME NEW q \in Seq(Positions), NEW x \in Seq(Positions), NEW s, NEW e \in Nat,
         Len(q) < HeaderSize, x # <<>>, \A i \in 1..Len(x) : x[i].session # s
  PROVE  Stretch(q \o x, Len(q \o x), s, e)
<1> DEFINE t == q \o x
<1>1. /\ HeaderSize \in Nat /\ Len(q) \in Nat /\ Len(x) \in Nat /\ Len(x) # 0
      /\ Len(t) = Len(q) + Len(x)
      /\ \A i \in (Len(q) + 1)..(Len(q) + Len(x)) : t[i] = x[i - Len(q)]
  BY AvAssumption, EmptySeq
<1> HIDE DEF t
<1>2. \A m \in (Len(q) + 1)..Len(t) : t[m].session # s
  <2> TAKE m \in (Len(q) + 1)..Len(t)
  <2>1. m - Len(q) \in 1..Len(x) /\ t[m] = x[m - Len(q)]
    BY <1>1
  <2>2. QED BY <2>1
<1>3. ASSUME NEW i \in 1..Len(t)
      PROVE  \E m \in i..Len(t) : m < i + HeaderSize /\ t[m].session # s
  <2>1. CASE i > Len(q)
    <3>1. i \in i..Len(t) /\ i \in (Len(q) + 1)..Len(t) /\ i < i + HeaderSize
      BY <1>1, <2>1
    <3>2. QED BY <1>2, <3>1
  <2>2. CASE ~(i > Len(q))
    <3>1. /\ Len(q) + 1 \in i..Len(t) /\ Len(q) + 1 \in (Len(q) + 1)..Len(t)
          /\ Len(q) + 1 < i + HeaderSize
      BY <1>1, <2>2
    <3>2. QED BY <1>2, <3>1
  <2>3. QED BY <2>1, <2>2
<1>4. (Len(t) + 1)..Len(t) = {}
  BY <1>1
<1>5. Stretch(t, Len(t), s, e)
  BY <1>3, <1>4 DEF Stretch
<1>6. QED BY <1>5 DEF t

LEMMA NoBytes ==
  ASSUME NEW s \in Sessions, NEW p \in Nat
  PROVE  Bytes(s, p, 0) = <<>>
<1>1. Bytes(s, p, 0) \in Seq(Positions) /\ Len(Bytes(s, p, 0)) = 0
  BY BytesSeq, BytesFacts
<1>2. QED BY <1>1, EmptySeq

Joined(a, b, c) == a \o b = c

\* Bytes that follow on each other.
LEMMA BytesJoin ==
  ASSUME NEW s \in Sessions, NEW p \in Nat, NEW n \in Nat, NEW k \in Nat,
         NEW m \in Nat, m = p + n, NEW l \in Nat, l = n + k
  PROVE  Joined(Bytes(s, p, n), Bytes(s, m, k), Bytes(s, p, l))
<1> DEFINE a == Bytes(s, p, n)
           b == Bytes(s, p + n, k)
           c == Bytes(s, p, n + k)
<1>1. p + n \in Nat /\ n + k \in Nat
  OBVIOUS
<1>2. /\ a \in Seq(Positions) /\ b \in Seq(Positions) /\ c \in Seq(Positions)
      /\ Len(a) = n /\ Len(b) = k /\ Len(c) = n + k
      /\ \A i \in 1..n : a[i] = Byte(s, p + i - 1)
      /\ \A i \in 1..k : b[i] = Byte(s, (p + n) + i - 1)
      /\ \A i \in 1..(n + k) : c[i] = Byte(s, p + i - 1)
  BY <1>1, BytesSeq, BytesFacts
<1> HIDE DEF a, b, c
<1>3. /\ a \o b \in Seq(Positions) /\ Len(a \o b) = n + k
      /\ \A i \in 1..(n + k) : (a \o b)[i] = IF i <= n THEN a[i] ELSE b[i - n]
  BY <1>2, ConcatProperties
<1>4. ASSUME NEW i \in 1..(n + k) PROVE (a \o b)[i] = c[i]
  <2>1. CASE i <= n
    BY <1>2, <1>3, <2>1
  <2>2. CASE ~(i <= n)
    <3>1. i - n \in 1..k /\ (p + n) + (i - n) - 1 = p + i - 1
      BY <2>2
    <3>2. b[i - n] = Byte(s, (p + n) + (i - n) - 1)
      BY <1>2, <3>1
    <3>3. QED BY <1>2, <1>3, <2>2, <3>1, <3>2
  <2>3. QED BY <2>1, <2>2
<1>5. a \o b = c
  BY <1>2, <1>3, <1>4, SeqEqual
<1>6. QED BY <1>5 DEF a, b, c, Joined

\* What is there of a payload of size bytes when rem are lacking, and n more.
LEMMA PartBytes ==
  ASSUME NEW s \in Sessions, NEW a \in Nat, NEW p \in Nat, NEW size \in Nat, NEW rem \in Nat,
         NEW n \in Nat, n <= rem, rem <= size, p + rem = a + size
  PROVE  Joined(Bytes(s, a, size - rem), Bytes(s, p, n), Bytes(s, a, size - (rem - n)))
<1> DEFINE k == size - rem
           l == size - (rem - n)
<1>1. k \in Nat /\ l \in Nat /\ p = a + k /\ l = k + n
  OBVIOUS
<1> HIDE DEF k, l
<1>2. Joined(Bytes(s, a, k), Bytes(s, p, n), Bytes(s, a, l))
  BY <1>1, BytesJoin
<1>3. QED BY <1>2 DEF k, l

\* The bytes of a stretch that has nothing before it.
LEMMA StretchBytes ==
  ASSUME NEW q \in Seq(Positions), NEW s \in Sessions, NEW e \in Int, NEW p \in Nat,
         NEW n \in 0..Len(q), p = e - Len(q), Stretch(q, 0, s, e)
  PROVE  SubSeq(q, 1, n) = Bytes(s, p, n)
<1>1. n \in Nat /\ n <= Len(q) /\ Len(q) \in Nat
  OBVIOUS
<1>2. /\ SubSeq(q, 1, n) \in Seq(Positions) /\ Len(SubSeq(q, 1, n)) = n
      /\ \A i \in 1..n : SubSeq(q, 1, n)[i] = q[i]
  BY <1>1
<1>3. /\ Bytes(s, p, n) \in Seq(Positions) /\ Len(Bytes(s, p, n)) = n
      /\ \A i \in 1..n : Bytes(s, p, n)[i] = Byte(s, p + i - 1)
  BY <1>1, BytesSeq, BytesFacts
<1>4. ASSUME NEW i \in 1..n PROVE q[i] = Byte(s, p + i - 1)
  BY <1>1 DEF Stretch
<1>5. ASSUME NEW i \in 1..n PROVE SubSeq(q, 1, n)[i] = Bytes(s, p, n)[i]
  BY <1>2, <1>3, <1>4
<1> DEFINE a == SubSeq(q, 1, n)
           b == Bytes(s, p, n)
<1>6. /\ a \in Seq(Positions) /\ b \in Seq(Positions) /\ Len(a) = n /\ Len(b) = n
      /\ \A i \in 1..n : a[i] = b[i]
  BY <1>2, <1>3, <1>5
<1> HIDE DEF a, b
<1>7. a = b
  BY <1>6, SeqEqual
<1>8. QED BY <1>7 DEF a, b

-----------------------------------------------------------------------------
(* Where the reassembler is.  Everything here is about a position p of the session's stream: *)
(* the byte from which on the reassembler's bytes are in order and complete.                 *)

\* The frame that is being read has lost nothing.
Clean(p) ==
  /\ reassembler.remaining <= Size(reassembler.head)
  /\ reassembler.buf = Bytes(session, Start[reassembler.head] + HeaderSize,
                             Size(reassembler.head) - reassembler.remaining)
  /\ p + reassembler.remaining = Start[reassembler.head + 1]

\* It has, or has swallowed bytes of an old session, and ends at safe or before.
Torn(p) ==
  broken /\ Start[reassembler.head] < safe /\ p + reassembler.remaining <= safe

HeadAt(p) ==
  /\ reassembler.head # 0 => Start[reassembler.head] + HeaderSize <= p
  /\ reassembler.remaining > 0 => reassembler.head # 0 /\ (Clean(p) \/ Torn(p))

\* The frame f will be yielded.
Coming(f, p) ==
  \/ Start[f] >= p + reassembler.remaining
  \/ reassembler.remaining > 0 /\ reassembler.head = f

Has(f) == \E i \in DOMAIN got : got[i] = [frame |-> f, whole |-> TRUE]

Coverage(p) ==
  \A f \in Frames : Size(f) > 0 /\ Start[f] >= safe => Coming(f, p) \/ Has(f)

\* The decoder is ready for the first ADPCM frame after x, and that frame is yet to come.
ReadyAfter(x, p) ==
  /\ x <= reassembler.head /\ (reassembler.remaining > 0 => x < reassembler.head)
  /\ decoder = NextAdpcm(session, x + 1)
  /\ \A g \in Audible(x + 1) : Coming(g, p)

Ready(p) ==
  ~broken /\ ~crossed /\ ~trimmed /\ adpcm_owner = reassembler.id =>
    \E x \in Frames : ReadyAfter(x, p)

Placed(p) == HeadAt(p) /\ Coverage(p) /\ Ready(p)

LEMMA ReassemblerTypes ==
  ASSUME ObjectInv
  PROVE  /\ session \in Sessions /\ sent \in Nat /\ HeaderSize \in Nat \ {0}
         /\ reassembler.id \in Nat /\ reassembler.session \in Sessions
         /\ reassembler.head \in Frames \cup {0} /\ reassembler.remaining \in Nat
         /\ reassembler.buf \in Seq(Positions) /\ reassembler.pending \in Seq(Positions)
         /\ reassembler.remaining > 0 => reassembler.head \in Frames
         /\ \A f \in Frames : f \in Nat \ {0} /\ Start[f] \in Nat /\ Size(f) \in Nat
  BY ObjectFields, StreamSizeType, StartNext, SizeType, AvAssumption DEF ObjectInv, Frames

\* Steps that concern neither the reassembler's frame nor the decoder, and audio of a
\* reassembler that has been replaced.
LEMMA PlacedStays ==
  ASSUME NEW p, Placed(p), UNCHANGED <<session, got, safe, broken>>,
         reassembler'.id = reassembler.id, reassembler'.head = reassembler.head,
         reassembler'.remaining = reassembler.remaining, reassembler'.buf = reassembler.buf,
         UNCHANGED audio \/ crossed'
  PROVE  Placed(p)'
<1>1. HeadAt(p)'
  BY DEF Placed, HeadAt, Clean, Torn
<1>2. Coverage(p)'
  BY DEF Placed, Coverage, Coming, Has
<1>3. Ready(p)'
  <2>1. CASE crossed'
    BY <2>1 DEF Ready
  <2>2. CASE UNCHANGED audio
    BY <2>2 DEF Placed, Ready, ReadyAfter, Coming, Audible, audio
  <2>3. QED BY <2>1, <2>2
<1>4. QED BY <1>1, <1>2, <1>3 DEF Placed

\* A byte is skipped at which no frame begins.
LEMMA PlacedSkip ==
  ASSUME ObjectInv, NEW p \in Int, Placed(p), reassembler.remaining = 0,
         \A f \in Frames : Start[f] # p,
         UNCHANGED <<session, got, safe, broken, audio>>,
         reassembler'.id = reassembler.id, reassembler'.head = reassembler.head,
         reassembler'.remaining = reassembler.remaining
  PROVE  Placed(p + 1)'
<1>1. \A f \in Frames : Start[f] >= p => Start[f] >= p + 1
  BY ReassemblerTypes
<1>2. HeadAt(p + 1)'
  BY ReassemblerTypes DEF Placed, HeadAt
<1>3. \A f \in Frames : Coming(f, p) => Coming(f, p + 1)'
  BY <1>1, ReassemblerTypes DEF Coming
<1>4. Coverage(p + 1)'
  BY <1>3 DEF Placed, Coverage, Has
<1>5. Ready(p + 1)'
  <2>1. ASSUME NEW x \in Frames, ReadyAfter(x, p) PROVE ReadyAfter(x, p + 1)'
    BY <1>3, <2>1 DEF ReadyAfter, Audible, audio
  <2>2. QED BY <2>1 DEF Placed, Ready, audio
<1>6. QED BY <1>2, <1>4, <1>5 DEF Placed

\* The header of f is read.
LEMMA PlacedHeader ==
  ASSUME ObjectInv, NEW f \in Frames, Placed(Start[f]), reassembler.remaining = 0,
         UNCHANGED <<session, got, safe, broken, audio>>,
         reassembler'.id = reassembler.id, reassembler'.head = f,
         reassembler'.remaining = Size(f), reassembler'.buf = <<>>
  PROVE  Placed(Start[f] + HeaderSize)' /\ reassembler.head < f
<1> DEFINE p == Start[f]
<1>1. /\ p \in Nat /\ Start[f + 1] = p + HeaderSize + Size(f) /\ Size(f) \in Nat
      /\ HeaderSize \in Nat \ {0} /\ f \in Nat \ {0}
  BY ReassemblerTypes, StartNext
<1>2. reassembler.head < f
  <2>1. reassembler.head # 0 => Start[reassembler.head] + HeaderSize <= p
    BY DEF Placed, HeadAt
  <2>2. CASE reassembler.head \in Frames
    <3>1. Start[reassembler.head] \in Nat /\ reassembler.head \in Nat \ {0}
      BY <2>2, ReassemblerTypes
    <3>2. Start[reassembler.head] < p
      BY <1>1, <2>1, <3>1
    <3>3. QED BY <2>2, <3>2, StartInjective
  <2>3. QED BY <1>1, <2>2, ReassemblerTypes
<1>3. HeadAt(p + HeaderSize)'
  <2>1. Bytes(session, p + HeaderSize, Size(f) - Size(f)) = <<>>
    <3>1. Size(f) - Size(f) = 0 /\ p + HeaderSize \in Nat
      BY <1>1
    <3>2. Bytes(session, p + HeaderSize, 0) = <<>>
      <4>1. session \in Sessions
        BY ReassemblerTypes
      <4>2. QED BY <3>1, <4>1, NoBytes
    <3>3. QED BY <3>1, <3>2
  <2>2. Clean(p + HeaderSize)'
    BY <1>1, <2>1 DEF Clean
  <2>3. QED BY <1>1, <2>2 DEF HeadAt
<1>4. \A g \in Frames : Size(g) > 0 /\ Coming(g, p) => Coming(g, p + HeaderSize)'
  <2>1. SUFFICES ASSUME NEW g \in Frames, Size(g) > 0, Coming(g, p)
                 PROVE  Coming(g, p + HeaderSize)'
    OBVIOUS
  <2>2. Start[g] >= p
    BY <2>1, <1>1, ReassemblerTypes DEF Coming
  <2>3. g = f \/ Start[g] >= Start[f + 1]
    BY <1>1, <2>2, ReassemblerTypes, StartInjective
  <2>4. QED BY <1>1, <2>1, <2>3 DEF Coming
<1>5. Coverage(p + HeaderSize)'
  BY <1>4 DEF Placed, Coverage, Has
<1>6. Ready(p + HeaderSize)'
  <2>1. ASSUME NEW x \in Frames, ReadyAfter(x, p) PROVE ReadyAfter(x, p + HeaderSize)'
    <3>1. x < f
      BY <1>2, <2>1, ReassemblerTypes DEF ReadyAfter
    <3>2. \A g \in Audible(x + 1) : Coming(g, p + HeaderSize)'
      BY <1>4, <2>1 DEF ReadyAfter, Audible
    <3>3. QED BY <1>1, <2>1, <3>1, <3>2 DEF ReadyAfter, audio
  <2>2. QED BY <2>1 DEF Placed, Ready, audio
<1>7. QED BY <1>2, <1>3, <1>5, <1>6 DEF Placed

\* n more bytes of the frame's payload are read.
LEMMA PayloadRead ==
  ASSUME ObjectInv, NEW p \in Nat, NEW n \in Nat, reassembler.remaining > 0,
         n <= reassembler.remaining, UNCHANGED <<session, safe, broken>>,
         reassembler'.head = reassembler.head,
         reassembler'.remaining = reassembler.remaining - n,
         Joined(reassembler.buf, Bytes(session, p, n), reassembler'.buf)
  PROVE  /\ Clean(p) => Clean(p + n)'
         /\ Torn(p) => Torn(p + n)'
         /\ \A f : Coming(f, p) =>
              Coming(f, p + n)' \/ (reassembler.head = f /\ n = reassembler.remaining)
<1> DEFINE h == reassembler.head
           k == Size(h) - reassembler.remaining
           a == Start[h] + HeaderSize
<1>1. /\ reassembler.remaining \in Nat /\ HeaderSize \in Nat /\ session \in Sessions
      /\ h \in Frames /\ Start[h] \in Nat /\ Size(h) \in Nat
  BY ReassemblerTypes
<1>2. Start[h + 1] = a + Size(h)
  BY <1>1, StartNext
<1> HIDE DEF h
<1>3. (p + n) + (reassembler.remaining - n) = p + reassembler.remaining
  BY <1>1
<1>4. ASSUME Clean(p) PROVE Clean(p + n)'
  <2>1. /\ reassembler.remaining <= Size(h) /\ reassembler.buf = Bytes(session, a, k)
        /\ p + reassembler.remaining = Start[h + 1]
    BY <1>4 DEF Clean, h
  <2>2. a \in Nat /\ p + reassembler.remaining = a + Size(h)
    BY <1>1, <1>2, <2>1
  <2> HIDE DEF a
  <2>3. Joined(Bytes(session, a, k), Bytes(session, p, n),
               Bytes(session, a, Size(h) - (reassembler.remaining - n)))
    BY <1>1, <2>1, <2>2, PartBytes
  <2>4. reassembler'.buf = Bytes(session, a, Size(h) - (reassembler.remaining - n))
    BY <2>1, <2>3 DEF Joined
  <2>5. reassembler.remaining - n <= Size(h)
    BY <1>1, <2>1
  <2>6. QED BY <1>3, <2>1, <2>4, <2>5 DEF Clean, a, h
<1>5. Torn(p) => Torn(p + n)'
  BY <1>3 DEF Torn
<1>6. ASSUME NEW f, Coming(f, p)
      PROVE  Coming(f, p + n)' \/ (reassembler.head = f /\ n = reassembler.remaining)
  <2>1. CASE Start[f] >= p + reassembler.remaining
    BY <1>3, <2>1 DEF Coming
  <2>2. CASE reassembler.head = f
    BY <1>1, <2>2 DEF Coming
  <2>3. QED BY <1>6, <2>1, <2>2 DEF Coming
<1>7. QED BY <1>4, <1>5, <1>6

\* What has arrived of a payload that is not complete.
LEMMA PlacedPart ==
  ASSUME ObjectInv, NEW p \in Nat, NEW n \in Nat, Placed(p), n < reassembler.remaining,
         UNCHANGED <<session, got, safe, broken, audio>>,
         reassembler'.id = reassembler.id, reassembler'.head = reassembler.head,
         reassembler'.remaining = reassembler.remaining - n,
         Joined(reassembler.buf, Bytes(session, p, n), reassembler'.buf)
  PROVE  Placed(p + n)'
<1>1. /\ reassembler.remaining \in Nat /\ HeaderSize \in Nat /\ reassembler.head \in Frames
      /\ Start[reassembler.head] \in Nat /\ reassembler.remaining > 0 /\ n <= reassembler.remaining
      /\ n # reassembler.remaining
  BY ReassemblerTypes
<1>2. /\ Clean(p) => Clean(p + n)'
      /\ Torn(p) => Torn(p + n)'
      /\ \A f : Coming(f, p) => Coming(f, p + n)'
  BY <1>1, PayloadRead
<1>3. HeadAt(p + n)'
  BY <1>1, <1>2 DEF Placed, HeadAt
<1>4. Coverage(p + n)'
  BY <1>2 DEF Placed, Coverage, Has
<1>5. Ready(p + n)'
  <2>1. ASSUME NEW x \in Frames, ReadyAfter(x, p) PROVE ReadyAfter(x, p + n)'
    BY <1>1, <1>2, <2>1 DEF ReadyAfter, Audible, audio
  <2>2. QED BY <2>1 DEF Placed, Ready, audio
<1>6. QED BY <1>3, <1>4, <1>5 DEF Placed

\* What got has to do with the frame that is being read.
GotInv ==
  \A i \in DOMAIN got :
    /\ \A k \in DOMAIN got : i < k => got[i].frame < got[k].frame
    /\ got[i].frame <= reassembler.head
    /\ reassembler.remaining > 0 => got[i].frame < reassembler.head
    /\ Start[got[i].frame] >= safe => got[i].whole

\* A decoder out of step has seen the audio of a replaced reassembler.
OffInv == offkey => crossed

\* The last byte of a payload, n bytes from p: the frame is yielded.
Yielded(p, n) ==
  /\ reassembler.remaining = n /\ n > 0 /\ left = <<>> /\ reassembler.session = session
  /\ UNCHANGED <<session, safe, broken>>
  /\ reassembler'.id = reassembler.id /\ reassembler'.session = reassembler.session
  /\ reassembler'.head = reassembler.head /\ reassembler'.remaining = 0
  /\ Joined(reassembler.buf, Bytes(session, p, n), reassembler'.buf)
  /\ got' = Append(got, [frame |-> reassembler.head, whole |-> Whole(reassembler')])

LEMMA YieldFacts ==
  ASSUME ObjectInv, NEW p \in Nat, NEW n \in Nat, Placed(p), Yielded(p, n)
  PROVE  /\ reassembler.head \in Frames
         /\ HeadAt(p + n)'
         /\ Clean(p) \/ Torn(p)
         /\ Clean(p) => Whole(reassembler') /\ p + n = Start[reassembler.head + 1]
         /\ \A f : Coming(f, p) => Coming(f, p + n)' \/ reassembler.head = f
<1>1. /\ n > 0 /\ n <= reassembler.remaining /\ reassembler.remaining - n = 0
      /\ HeaderSize \in Nat /\ reassembler.head \in Frames /\ reassembler.remaining > 0
      /\ Start[reassembler.head] \in Nat /\ Size(reassembler.head) \in Nat
  BY ReassemblerTypes DEF Yielded
<1>2. /\ UNCHANGED <<session, safe, broken>> /\ reassembler'.head = reassembler.head
      /\ reassembler'.remaining = reassembler.remaining - n
      /\ Joined(reassembler.buf, Bytes(session, p, n), reassembler'.buf)
  BY <1>1 DEF Yielded
<1>3. /\ Clean(p) => Clean(p + n)'
      /\ \A f : Coming(f, p) => Coming(f, p + n)' \/ reassembler.head = f
  BY <1>1, <1>2, PayloadRead
<1>4. HeadAt(p + n)'
  <2>1. Start[reassembler.head] + HeaderSize <= p
    BY <1>1 DEF Placed, HeadAt, Frames
  <2>2. Start[reassembler.head] + HeaderSize <= p + n
    BY <1>1, <2>1
  <2>3. reassembler'.remaining = 0 /\ reassembler'.head = reassembler.head
    BY DEF Yielded
  <2>4. QED BY <2>2, <2>3 DEF HeadAt
<1>5. Clean(p) \/ Torn(p)
  BY <1>1 DEF Placed, HeadAt
<1>6. ASSUME Clean(p)
      PROVE  Whole(reassembler') /\ p + n = Start[reassembler.head + 1]
  <2>1. reassembler'.buf = Bytes(session, Start[reassembler.head] + HeaderSize,
                                 Size(reassembler.head) - 0)
    BY <1>1, <1>2, <1>3, <1>6 DEF Clean
  <2>2. reassembler'.session = session /\ Size(reassembler.head) - 0 = Size(reassembler.head)
    BY <1>1 DEF Yielded
  <2>3. Whole(reassembler')
    BY <1>2, <2>1, <2>2 DEF Whole
  <2>4. reassembler.remaining = n
    BY DEF Yielded
  <2>5. QED BY <1>6, <2>3, <2>4 DEF Clean
<1>7. QED BY <1>1, <1>3, <1>4, <1>5, <1>6

\* The yielded frame is appended.
LEMMA YieldGot ==
  ASSUME ObjectInv, LoopType, NEW p \in Nat, NEW n \in Nat, Placed(p), Yielded(p, n)
  PROVE  /\ DOMAIN got' = DOMAIN got \cup {Len(got) + 1} /\ DOMAIN got = 1..Len(got)
         /\ Len(got) \in Nat /\ \A i \in DOMAIN got : got'[i] = got[i]
         /\ got'[Len(got) + 1] = [frame |-> reassembler.head, whole |-> Whole(reassembler')]
<1> DEFINE e == [frame |-> reassembler.head, whole |-> Whole(reassembler')]
           S == [frame : Frames, whole : BOOLEAN]
<1>1. got \in Seq(S) /\ e \in S /\ got' = Append(got, e)
  <2>1. Whole(reassembler') \in BOOLEAN
    BY DEF Whole
  <2>2. QED BY <2>1, YieldFacts DEF LoopType, Yielded
<1> HIDE DEF e, S
<1>2. /\ got' \in Seq(S) /\ Len(got') = Len(got) + 1 /\ got'[Len(got) + 1] = e
      /\ \A i \in 1..Len(got) : got'[i] = got[i]
  BY <1>1, AppendProperties
<1>3. DOMAIN got = 1..Len(got) /\ DOMAIN got' = 1..Len(got') /\ Len(got) \in Nat
  BY <1>1, <1>2, LenProperties
<1>4. QED BY <1>2, <1>3 DEF e

LEMMA YieldCoverage ==
  ASSUME ObjectInv, LoopType, NEW p \in Nat, NEW n \in Nat, Placed(p), Yielded(p, n)
  PROVE  Coverage(p + n)'
<1>1. SUFFICES ASSUME NEW f \in Frames, Size(f) > 0, Start[f] >= safe
               PROVE  Coming(f, p + n)' \/ Has(f)'
  BY DEF Coverage, Yielded
<1>2. CASE Has(f)
  BY <1>2, YieldGot DEF Has
<1>3. CASE reassembler.head = f
  <2>1. ~Torn(p)
    <3>1. Start[f] \in Nat /\ safe \in Nat
      BY ReassemblerTypes DEF LoopType
    <3>2. ~(Start[f] < safe)
      BY <1>1, <3>1
    <3>3. QED BY <1>3, <3>2 DEF Torn
  <2>2. Whole(reassembler')
    BY <2>1, YieldFacts
  <2>3. Whole(reassembler') = TRUE
    BY <2>2 DEF Whole
  <2>4. got'[Len(got) + 1] = [frame |-> f, whole |-> TRUE] /\ Len(got) + 1 \in DOMAIN got'
    BY <1>3, <2>3, YieldGot
  <2>5. QED BY <2>4 DEF Has
<1>4. QED BY <1>1, <1>2, <1>3, YieldFacts DEF Placed, Coverage

LEMMA YieldGotInv ==
  ASSUME ObjectInv, LoopType, NEW p \in Nat, NEW n \in Nat, Placed(p), Yielded(p, n), GotInv
  PROVE  GotInv'
<1> DEFINE k == Len(got) + 1
<1>1. /\ \A i \in DOMAIN got' : i \in DOMAIN got \/ i = k
      /\ \A i \in DOMAIN got : got'[i] = got[i] /\ i < k /\ i \in Nat
      /\ k \in Nat
  BY YieldGot
<1>2. got'[k].frame = reassembler.head /\ got'[k].whole = Whole(reassembler')
  BY YieldGot
<1> HIDE DEF k
<1>3. /\ reassembler.remaining > 0 /\ reassembler'.remaining = 0 /\ safe' = safe
      /\ reassembler'.head = reassembler.head /\ reassembler.head \in Nat
      /\ ~(reassembler'.remaining > 0)
  BY YieldFacts DEF Yielded, Frames
<1>4. ASSUME NEW i \in DOMAIN got
      PROVE  /\ \A l \in DOMAIN got' : i < l => got'[i].frame < got'[l].frame
             /\ got'[i].frame <= reassembler'.head
             /\ Start[got'[i].frame] >= safe' => got'[i].whole
  <2>1. got[i].frame < reassembler.head /\ got'[i] = got[i]
    BY <1>1, <1>3 DEF GotInv
  <2>2. ASSUME NEW l \in DOMAIN got', i < l PROVE got'[i].frame < got'[l].frame
    <3>1. CASE l = k
      BY <1>2, <2>1, <3>1
    <3>2. CASE l \in DOMAIN got
      BY <1>1, <2>1, <2>2, <3>2 DEF GotInv
    <3>3. QED BY <1>1, <3>1, <3>2
  <2>3. got'[i].frame <= reassembler'.head
    BY <1>1, <1>3, <2>1 DEF GotInv
  <2>4. Start[got'[i].frame] >= safe' => got'[i].whole
    BY <1>3, <2>1 DEF GotInv
  <2>5. QED BY <2>2, <2>3, <2>4
<1>5. \A l \in DOMAIN got' : ~(k < l)
  BY <1>1
<1>6. Start[got'[k].frame] >= safe' => got'[k].whole
  <2>1. SUFFICES ASSUME Start[reassembler.head] >= safe PROVE Whole(reassembler')
    BY <1>2, <1>3
  <2>2. Start[reassembler.head] \in Nat /\ safe \in Nat
    BY YieldFacts, ReassemblerTypes DEF LoopType
  <2>3. ~Torn(p)
    BY <2>1, <2>2 DEF Torn
  <2>4. QED BY <2>3, YieldFacts
<1>7. QED BY <1>1, <1>2, <1>3, <1>4, <1>5, <1>6 DEF GotInv

\* The decoder is ready for the frame that is yielded, if that is an ADPCM frame.
LEMMA FirstAudible ==
  ASSUME ObjectInv, NEW p \in Nat, NEW x \in Frames, HeadAt(p), ReadyAfter(x, p), Clean(p),
         reassembler.remaining > 0, Script[reassembler.head].kind = "adpcm"
  PROVE  decoder = [session |-> session, frame |-> reassembler.head]
<1> DEFINE h == reassembler.head
<1>1. /\ h \in Frames /\ x < h /\ x \in Nat /\ h \in Nat /\ Size(h) \in Nat
      /\ reassembler.remaining \in Nat /\ reassembler.remaining <= Size(h)
  BY ReassemblerTypes DEF ReadyAfter, Clean
<1> HIDE DEF h
<1>2. h \in Audible(x + 1)
  BY <1>1 DEF Audible, h
<1>3. ASSUME NEW g \in Audible(x + 1) PROVE h <= g
  <2>1. g \in Frames /\ g \in Nat
    BY DEF Audible, Frames
  <2>2. Start[g] >= p + reassembler.remaining \/ h = g
    BY DEF ReadyAfter, Coming, h
  <2>3. CASE h # g
    <3>1. Start[g] >= Start[h + 1]
      BY <2>2, <2>3 DEF Clean, h
    <3>2. /\ Start[g] \in Nat /\ Start[h] \in Nat /\ HeaderSize \in Nat \ {0}
          /\ Start[h + 1] = Start[h] + HeaderSize + Size(h)
      BY <1>1, <2>1, StartNext, ReassemblerTypes
    <3>3. Start[h] < Start[g]
      BY <1>1, <3>1, <3>2
    <3>4. h < g
      BY <1>1, <2>1, <3>3, StartInjective
    <3>5. QED BY <1>1, <2>1, <3>4
  <2>4. QED BY <1>1, <2>3
<1>4. PICK g \in Audible(x + 1) : /\ \A i \in Audible(x + 1) : g <= i
                                  /\ decoder = [session |-> session, frame |-> g]
  BY <1>2, NextIsFirst DEF ReadyAfter
<1>5. g = h
  BY <1>1, <1>2, <1>3, <1>4 DEF Audible, Frames
<1>6. QED BY <1>4, <1>5 DEF h

\* After the frame the decoder is ready for the next one.
LEMMA YieldReady ==
  ASSUME ObjectInv, LoopType, NEW p \in Nat, NEW n \in Nat, Placed(p), Yielded(p, n), OffInv,
         IF Script[reassembler.head].kind = "adpcm" THEN DecodeFrame(reassembler')
                                                    ELSE UNCHANGED audio
  PROVE  Ready(p + n)' /\ OffInv'
<1> DEFINE h == reassembler.head
<1>1. /\ h \in Frames /\ reassembler'.head = h /\ reassembler'.id = reassembler.id
      /\ UNCHANGED <<session, broken>> /\ reassembler'.session = session
      /\ reassembler.session = session
      /\ reassembler.remaining > 0 /\ ~(reassembler'.remaining > 0) /\ reassembler'.remaining = 0
      /\ left = <<>> /\ h # 0 /\ HeadAt(p)
  BY YieldFacts DEF Yielded, Placed, Frames
<1>2. CASE Script[h].kind # "adpcm"
  <2>1. UNCHANGED audio
    BY <1>2
  <2>2. ASSUME NEW x \in Frames, ReadyAfter(x, p) PROVE ReadyAfter(x, p + n)'
    <3>1. \A g \in Audible(x + 1) : Coming(g, p + n)'
      BY <1>2, <2>2, YieldFacts DEF ReadyAfter, Audible
    <3>2. decoder' = NextAdpcm(session', x + 1)
      BY <1>1, <2>1, <2>2 DEF ReadyAfter, audio
    <3>3. x <= reassembler'.head
      BY <1>1, <2>2 DEF ReadyAfter
    <3>4. QED BY <1>1, <3>1, <3>2, <3>3 DEF ReadyAfter
  <2>3. Ready(p + n)'
    BY <1>1, <2>1, <2>2 DEF Placed, Ready, audio
  <2>4. QED BY <2>1, <2>3 DEF OffInv, audio
<1>3. CASE Script[h].kind = "adpcm"
  <2>1. DecodeFrame(reassembler')
    BY <1>3
  <2>2. (crossed' <=> crossed) /\ adpcm_owner' = reassembler.id
    BY <1>1, <2>1 DEF DecodeFrame
  <2>3. CASE crossed
    BY <2>2, <2>3 DEF Ready, OffInv
  <2>4. CASE broken /\ ~crossed
    <3>1. offkey' <=> offkey
      BY <2>1, <2>4 DEF DecodeFrame
    <3>2. QED BY <1>1, <2>4, <3>1 DEF Ready, OffInv
  <2>5. CASE ~broken /\ ~crossed
    <3>1. Clean(p) /\ Whole(reassembler') /\ p + n = Start[h + 1]
      <4>1. ~Torn(p)
        BY <2>5 DEF Torn
      <4>2. reassembler.remaining = n
        BY DEF Yielded
      <4>3. Clean(p) /\ Whole(reassembler')
        BY <4>1, YieldFacts
      <4>4. QED BY <4>2, <4>3 DEF Clean
    <3>10. CASE Behind
      <4>1. trimmed' /\ (offkey' <=> offkey)
        BY <2>1, <3>10 DEF DecodeFrame
      <4>2. QED BY <2>2, <4>1 DEF Ready, OffInv
    <3>2. ASSUME ~Behind PROVE ResetDecoder = [session |-> session, frame |-> h]
      <4>1. CASE adpcm_owner = reassembler.id
        <5>3. ~trimmed
          BY <3>2, <4>1 DEF Behind
        <5>1. PICK x \in Frames : ReadyAfter(x, p)
          BY <2>5, <4>1, <5>3 DEF Placed, Ready
        <5>2. decoder = [session |-> session, frame |-> h]
          BY <1>1, <1>3, <3>1, <5>1, FirstAudible
        <5>4. QED BY <4>1, <5>2 DEF ResetDecoder
      <4>2. CASE adpcm_owner # reassembler.id
        BY <1>1, <4>2 DEF ResetDecoder
      <4>3. QED BY <4>1, <4>2
    <3>3. ~Behind =>
            ResetDecoder = [session |-> reassembler'.session, frame |-> reassembler'.head]
      BY <1>1, <3>2
    <3>4. ~Behind /\ Fits(h) => decoder' = NextAdpcm(session', h + 1)
      BY <1>1, <2>1, <3>1, <3>3 DEF DecodeFrame
    <3>5. ~Behind => (offkey' <=> offkey)
      BY <2>1, <3>3 DEF DecodeFrame
    <3>11. CASE ~Fits(h)
      <4>1. trimmed'
        BY <1>1, <2>1, <3>11 DEF DecodeFrame
      <4>2. QED BY <2>2, <3>5, <3>10, <4>1 DEF Ready, OffInv
    <3>6. ASSUME NEW g \in Audible(h + 1) PROVE Coming(g, p + n)'
      <4>1. g \in Frames /\ g \in Nat /\ h \in Nat /\ h < g
        BY <1>1 DEF Audible, Frames
      <4>2. Start[h + 1] <= Start[g] /\ Start[g] \in Nat /\ Start[h + 1] \in Nat
        BY <1>1, <4>1, StartOrder, StartNext
      <4>3. QED BY <1>1, <3>1, <4>2 DEF Coming
    <3>7. h <= reassembler'.head
      BY <1>1 DEF Frames
    <3>8. ~Behind /\ Fits(h) => ReadyAfter(h, p + n)'
      BY <1>1, <3>4, <3>6, <3>7 DEF ReadyAfter, Audible
    <3>9. QED BY <1>1, <2>2, <2>5, <3>5, <3>8, <3>10, <3>11 DEF Ready, OffInv
  <2>6. QED BY <2>3, <2>4, <2>5
<1>4. QED BY <1>2, <1>3

LEMMA PlacedYield ==
  ASSUME ObjectInv, LoopType, NEW p \in Nat, NEW n \in Nat, Placed(p), Yielded(p, n), OffInv,
         GotInv, IF Script[reassembler.head].kind = "adpcm" THEN DecodeFrame(reassembler')
                                                            ELSE UNCHANGED audio
  PROVE  Placed(p + n)' /\ GotInv' /\ OffInv'
  BY YieldFacts, YieldCoverage, YieldGotInv, YieldReady DEF Placed

-----------------------------------------------------------------------------
(* The invariant. *)

LEMMA GotTypes ==
  ASSUME ObjectInv, LoopType, NEW i \in DOMAIN got
  PROVE  got[i].frame \in Frames /\ got[i].frame \in Nat /\ Start[got[i].frame] \in Nat
<1>1. got \in Seq([frame : Frames, whole : BOOLEAN])
  BY DEF LoopType
<1>2. i \in 1..Len(got)
  BY <1>1, LenProperties
<1>3. got[i] \in [frame : Frames, whole : BOOLEAN]
  BY <1>1, <1>2, ElementOfSeq
<1>4. got[i].frame \in Frames
  BY <1>3
<1>5. QED BY <1>4, ReassemblerTypes DEF Frames

\* Unread bytes of this session have arrived.
UnreadInv ==
  /\ \A i \in 1..Len(Unread) : Unread[i].session = session => Unread[i].pos < sent
  /\ reassembler.session = session /\ adpcm_owner <= reassembler.id

\* The bytes behind the first j are those from p to sent.
Aligned(j, p) ==
  /\ p = sent - Len(Unread) + j
  /\ Stretch(Unread, j, session, sent)
  /\ reassembler.remaining > 0 => j = 0 \/ Torn(p)
  /\ Placed(p)

AlignInv == \E j \in 0..Len(Unread), p \in Int : Aligned(j, p)

FrameInv == UnreadInv /\ AlignInv /\ GotInv /\ OffInv

LEMMA UnreadType ==
  ObjectInv /\ PayloadsInv =>
               /\ Rest \in Seq(Positions) /\ Unread \in Seq(Positions)
               /\ reassembler.pending \in Seq(Positions) /\ Len(reassembler.pending) \in Nat
               /\ Len(Rest) \in Nat /\ Len(Unread) = Len(reassembler.pending) + Len(Rest)
<1> SUFFICES ASSUME ObjectInv, PayloadsInv
             PROVE  /\ Rest \in Seq(Positions) /\ Unread \in Seq(Positions)
                    /\ reassembler.pending \in Seq(Positions) /\ Len(reassembler.pending) \in Nat
                    /\ Len(Rest) \in Nat /\ Len(Unread) = Len(reassembler.pending) + Len(Rest)
  OBVIOUS
<1>1. reassembler.pending \in Seq(Positions)
  BY ObjectFields DEF ObjectInv
<1>2. Rest \in Seq(Positions)
  <2> DEFINE n == Len(payloads)
  <2>1. n \in Nat /\ n <= 2
    BY DEF PayloadsInv, ObjectInv
  <2>2. \A k \in 1..n : payloads[k] \in Seq(Positions)
    BY PayloadType DEF PayloadsInv
  <2>3. payloads # <<>> => n # 0
    BY EmptySeq DEF ObjectInv
  <2> HIDE DEF n
  <2>4. n # 0 => 1 \in 1..n
    BY <2>1
  <2>5. n # 0 /\ n # 1 => 2 \in 1..n
    BY <2>1
  <2>6. CASE payloads = <<>> \/ Old(payloads[1])
    BY <2>6 DEF Rest
  <2>7. CASE payloads # <<>> /\ ~Old(payloads[1]) /\ (n = 1 \/ Old(payloads[2]))
    BY <2>2, <2>3, <2>4, <2>7 DEF Rest, n
  <2>8. CASE payloads # <<>> /\ ~Old(payloads[1]) /\ n # 1 /\ ~Old(payloads[2])
    <3>1. payloads[1] \in Seq(Positions) /\ payloads[2] \in Seq(Positions)
      BY <2>2, <2>3, <2>4, <2>5, <2>8
    <3>2. QED BY <2>8, <3>1, ConcatProperties DEF Rest, n
  <2>9. QED BY <2>6, <2>7, <2>8
<1>3. QED BY <1>1, <1>2, ConcatProperties, LenProperties DEF Unread

\* n bytes of the pending ones are read.
LEMMA UnreadRead ==
  ASSUME ObjectInv, PayloadsInv, NEW n \in Nat, n <= Len(reassembler.pending),
         UNCHANGED <<session, payloads>>,
         reassembler'.pending = Drop(reassembler.pending, n)
  PROVE  /\ Unread' = SubSeq(Unread, n + 1, Len(Unread)) /\ Len(Unread') = Len(Unread) - n
         /\ \A i \in 1..Len(Unread') : Unread'[i] = Unread[i + n] /\ i + n \in 1..Len(Unread)
<1> DEFINE q == reassembler.pending
           t == SubSeq(q, n + 1, Len(q))
           u == SubSeq(Unread, n + 1, Len(Unread))
           w == t \o Rest
<1>1. /\ q \in Seq(Positions) /\ Rest \in Seq(Positions) /\ Unread \in Seq(Positions)
      /\ Len(q) \in Nat /\ Len(Rest) \in Nat /\ Len(Unread) = Len(q) + Len(Rest) /\ n <= Len(q)
  BY UnreadType
<1>2. \A i \in 1..Len(Unread) : Unread[i] = IF i <= Len(q) THEN q[i] ELSE Rest[i - Len(q)]
  BY <1>1, ConcatProperties DEF Unread
<1>3. Unread' = w
  BY DEF Unread, Rest, Old, Drop
<1> HIDE DEF q
<1>4. /\ t \in Seq(Positions) /\ Len(t) = Len(q) - n
      /\ \A i \in 1..(Len(q) - n) : t[i] = q[i + n]
  BY <1>1
<1>5. /\ u \in Seq(Positions) /\ Len(u) = Len(Unread) - n
      /\ \A i \in 1..(Len(Unread) - n) : u[i] = Unread[i + n]
  BY <1>1
<1> HIDE DEF t, u
<1>6. /\ w \in Seq(Positions) /\ Len(w) = Len(t) + Len(Rest)
      /\ \A i \in 1..(Len(t) + Len(Rest)) : w[i] = IF i <= Len(t) THEN t[i] ELSE Rest[i - Len(t)]
  <2>1. t \in Seq(Positions) /\ Rest \in Seq(Positions)
    BY <1>1, <1>4
  <2>2. QED BY <2>1, ConcatProperties
<1> HIDE DEF w
<1>7. Len(w) = Len(Unread) - n
  BY <1>1, <1>4, <1>6
<1>8. ASSUME NEW i \in 1..(Len(Unread) - n) PROVE w[i] = u[i]
  <2>1. i + n \in 1..Len(Unread) /\ i \in Nat
    BY <1>1
  <2>2. CASE i <= Len(t)
    BY <1>1, <1>2, <1>4, <1>5, <1>6, <2>1, <2>2
  <2>3. CASE ~(i <= Len(t))
    <3>1. ~(i + n <= Len(q)) /\ (i + n) - Len(q) = i - Len(t)
      BY <1>1, <1>4, <2>1, <2>3
    <3>2. w[i] = Rest[i - Len(t)]
      BY <1>6, <1>7, <2>3
    <3>3. u[i] = Rest[(i + n) - Len(q)]
      BY <1>2, <1>5, <2>1, <3>1
    <3>4. QED BY <3>1, <3>2, <3>3
  <2>4. QED BY <2>2, <2>3
<1>9. w = u
  BY <1>5, <1>6, <1>7, <1>8, SeqEqual
<1>10. QED BY <1>1, <1>3, <1>5, <1>9 DEF u

LEMMA UnreadStays ==
  ASSUME ObjectInv, PayloadsInv, UnreadInv, NEW n \in Nat, n <= Len(reassembler.pending),
         UNCHANGED <<session, sent, payloads>>,
         reassembler'.pending = Drop(reassembler.pending, n),
         reassembler'.session = reassembler.session, reassembler'.id = reassembler.id,
         adpcm_owner' = adpcm_owner \/ adpcm_owner' = reassembler.id
  PROVE  UnreadInv'
<1>1. \A i \in 1..Len(Unread') : Unread'[i] = Unread[i + n] /\ i + n \in 1..Len(Unread)
  BY UnreadRead
<1>2. \A i \in 1..Len(Unread') : Unread'[i].session = session' => Unread'[i].pos < sent'
  BY <1>1 DEF UnreadInv
<1>3. reassembler'.session = session' /\ adpcm_owner' <= reassembler'.id
  BY ReassemblerTypes DEF UnreadInv
<1>4. QED BY <1>2, <1>3 DEF UnreadInv

\* The stretch, when n of the pending bytes are read.
LEMMA StretchStays ==
  ASSUME ObjectInv, PayloadsInv, NEW j \in 0..Len(Unread), NEW p \in Int, Aligned(j, p),
         NEW n \in Nat, n <= Len(reassembler.pending), UNCHANGED <<session, sent, payloads>>,
         reassembler'.pending = Drop(reassembler.pending, n)
  PROVE  /\ Stretch(Unread', Beyond(j, n), session', sent')
         /\ Beyond(j, n) \in 0..Len(Unread')
         /\ sent' - Len(Unread') + Beyond(j, n) = IF n < j THEN p ELSE p + (n - j)
<1>1. /\ Unread \in Seq(Positions) /\ Len(Unread) \in Nat /\ n \in 0..Len(Unread)
      /\ sent \in Int
  BY UnreadType, ReassemblerTypes
<1>2. Unread' = SubSeq(Unread, n + 1, Len(Unread)) /\ Len(Unread') = Len(Unread) - n
  BY UnreadRead
<1>3. /\ Stretch(SubSeq(Unread, n + 1, Len(Unread)), Beyond(j, n), session, sent)
      /\ Beyond(j, n) \in 0..(Len(Unread) - n)
  BY <1>1, StretchRead DEF Aligned
<1>4. sent - (Len(Unread) - n) + Beyond(j, n) = IF n < j THEN p ELSE p + (n - j)
  BY <1>1 DEF Aligned, Beyond
<1>5. QED BY <1>2, <1>3, <1>4

\* What is pending, where the stretch begins with it.
LEMMA PendingBytes ==
  ASSUME ObjectInv, PayloadsInv, NEW n \in 1..Len(reassembler.pending), NEW p \in Nat,
         Aligned(0, p)
  PROVE  SubSeq(reassembler.pending, 1, n) = Bytes(session, p, n)
<1>1. /\ reassembler.pending \in Seq(Positions) /\ Rest \in Seq(Positions)
      /\ Unread \in Seq(Positions) /\ n \in 0..Len(Unread) /\ sent \in Int /\ session \in Sessions
      /\ 1 \in 1..Len(reassembler.pending)
  BY UnreadType, ReassemblerTypes
<1>2. SubSeq(Unread, 1, n) = SubSeq(reassembler.pending, 1, n)
  BY <1>1, SubSeqOfConcat1 DEF Unread
<1>3. p = sent - Len(Unread) /\ Stretch(Unread, 0, session, sent)
  BY <1>1, UnreadType DEF Aligned
<1>4. SubSeq(Unread, 1, n) = Bytes(session, p, n)
  BY <1>1, <1>3, StretchBytes
<1>5. QED BY <1>2, <1>4

\* How the invariant is shown for the next state.
LEMMA AlignedNext ==
  ASSUME NEW j, NEW p \in Int, j \in 0..Len(Unread'), p = sent' - Len(Unread') + j,
         Stretch(Unread', j, session', sent'), Placed(p)',
         reassembler'.remaining > 0 => j = 0 \/ Torn(p)'
  PROVE  AlignInv'
  BY DEF AlignInv, Aligned

-----------------------------------------------------------------------------
(* Its steps. *)

\* Steps that change neither the unread bytes nor the frame that is being read.
LEMMA FrameStays ==
  ASSUME ObjectInv, PayloadsInv, FrameInv, UNCHANGED <<session, sent, got, safe, broken>>,
         Unread' = Unread,
         reassembler'.id = reassembler.id, reassembler'.session = reassembler.session,
         reassembler'.head = reassembler.head, reassembler'.remaining = reassembler.remaining,
         reassembler'.buf = reassembler.buf,
         UNCHANGED audio \/ (crossed' /\ adpcm_owner' = reassembler.id)
  PROVE  FrameInv'
<1>1. UnreadInv'
  <2>1. adpcm_owner' <= reassembler'.id
    BY ReassemblerTypes DEF FrameInv, UnreadInv, audio
  <2>2. QED BY <2>1 DEF FrameInv, UnreadInv
<1>2. AlignInv'
  <2>1. PICK j \in 0..Len(Unread), p \in Int : Aligned(j, p)
    BY DEF FrameInv, AlignInv
  <2>2. Placed(p)'
    BY <2>1, PlacedStays DEF Aligned
  <2>3. Torn(p) => Torn(p)'
    BY DEF Torn
  <2>4. QED BY <2>1, <2>2, <2>3, AlignedNext DEF Aligned
<1>3. GotInv'
  BY DEF FrameInv, GotInv
<1>4. OffInv'
  BY DEF FrameInv, OffInv, audio
<1>5. QED BY <1>1, <1>2, <1>3, <1>4 DEF FrameInv

\* The reassembler reads n bytes of the frame it is in, or one that begins no frame.
LEMMA ResyncStep ==
  ASSUME ObjectInv, PayloadsInv, FrameInv, Resync, left = <<>>
  PROVE  FrameInv'
<1>1. /\ reassembler' = [reassembler EXCEPT !.pending = Tail(reassembler.pending)]
      /\ reassembler.remaining = 0 /\ Len(reassembler.pending) >= HeaderSize
      /\ HeaderOf(reassembler) = {}
  BY ObjectFields DEF Resync, Becomes, Running, AtHeader, ObjectInv
<1>2. UNCHANGED <<session, sent, payloads, got, safe, broken, audio>>
  BY DEF Resync
<1>3. /\ reassembler'.id = reassembler.id /\ reassembler'.session = reassembler.session
      /\ reassembler'.head = reassembler.head /\ reassembler'.remaining = reassembler.remaining
      /\ reassembler'.buf = reassembler.buf
      /\ reassembler'.pending = Tail(reassembler.pending)
  BY <1>1 DEF ObjectInv, Objects, Reassemblers
<1>4. /\ 1 <= Len(reassembler.pending) /\ reassembler'.pending = Drop(reassembler.pending, 1)
      /\ 1 \in Nat
  <2>1. reassembler.pending # <<>> /\ 1 <= Len(reassembler.pending)
    BY <1>1, UnreadType, ReassemblerTypes
  <2>2. Tail(reassembler.pending) = SubSeq(reassembler.pending, 2, Len(reassembler.pending))
    BY <2>1, UnreadType, TailIsSubSeq
  <2>3. QED BY <1>3, <2>1, <2>2 DEF Drop
<1>5. PICK j \in 0..Len(Unread), p \in Int : Aligned(j, p)
  BY DEF FrameInv, AlignInv
<1>6. UnreadInv'
  BY <1>2, <1>3, <1>4, UnreadStays DEF FrameInv, audio
<1>7. /\ Stretch(Unread', Beyond(j, 1), session', sent')
      /\ Beyond(j, 1) \in 0..Len(Unread')
      /\ sent' - Len(Unread') + Beyond(j, 1) = IF 1 < j THEN p ELSE p + (1 - j)
  BY <1>2, <1>4, <1>5, StretchStays
<1>8. CASE j > 0
  <2>1. Placed(p)'
    BY <1>2, <1>3, <1>5, PlacedStays DEF Aligned
  <2>2. p = sent' - Len(Unread') + Beyond(j, 1)
    BY <1>5, <1>7, <1>8
  <2>3. AlignInv'
    BY <1>1, <1>3, <1>7, <2>1, <2>2, AlignedNext
  <2>4. QED BY <1>2, <1>3, <1>6, <2>3 DEF FrameInv, GotInv, OffInv, audio
<1>9. CASE j = 0
  <2>1. ASSUME NEW f \in Frames, Start[f] = p PROVE FALSE
    <3>1. p \in Nat /\ HeaderSize \in 1..Len(reassembler.pending)
      BY <1>1, <2>1, ReassemblerTypes, UnreadType
    <3>2. SubSeq(reassembler.pending, 1, HeaderSize) = Bytes(session, p, HeaderSize)
      BY <1>5, <1>9, <3>1, PendingBytes
    <3>3. f \in HeaderOf(reassembler)
      BY <2>1, <3>2 DEF HeaderOf, FrameInv, UnreadInv
    <3>4. QED BY <1>1, <3>3
  <2>2. Placed(p + 1)'
    BY <1>1, <1>2, <1>3, <1>5, <2>1, PlacedSkip DEF Aligned
  <2>3. p + 1 = sent' - Len(Unread') + Beyond(j, 1) /\ p + 1 \in Int
    BY <1>5, <1>7, <1>9
  <2>4. AlignInv'
    BY <1>1, <1>3, <1>7, <2>2, <2>3, AlignedNext
  <2>5. QED BY <1>2, <1>3, <1>6, <2>4 DEF FrameInv, GotInv, OffInv, audio
<1>10. QED BY <1>8, <1>9

LEMMA HeaderStep ==
  ASSUME ObjectInv, PayloadsInv, LoopType, FrameInv, ReadHeader, left = <<>>
  PROVE  FrameInv'
<1>1. PICK f \in HeaderOf(reassembler) :
        reassembler' = [reassembler EXCEPT !.head = f, !.remaining = Size(f), !.buf = <<>>,
                                           !.pending = Drop(reassembler.pending, HeaderSize)]
  BY ObjectFields DEF ReadHeader, Becomes, Running, ObjectInv, Objects, Reassemblers
<1>2. /\ reassembler.remaining = 0 /\ HeaderSize <= Len(reassembler.pending)
      /\ UNCHANGED <<session, sent, payloads, got, safe, broken, audio>>
      /\ HeaderSize \in Nat \ {0} /\ sent \in Int
  BY UnreadType, ReassemblerTypes DEF ReadHeader, Running, AtHeader
<1>3. /\ f \in Frames /\ Start[f] \in Nat
      /\ SubSeq(reassembler.pending, 1, HeaderSize) = Bytes(session, Start[f], HeaderSize)
  BY ReassemblerTypes DEF HeaderOf, FrameInv, UnreadInv
<1>4. /\ reassembler'.id = reassembler.id /\ reassembler'.session = reassembler.session
      /\ reassembler'.head = f /\ reassembler'.remaining = Size(f) /\ reassembler'.buf = <<>>
      /\ reassembler'.pending = Drop(reassembler.pending, HeaderSize)
  BY <1>1 DEF ObjectInv, Objects, Reassemblers
<1>5. PICK j \in 0..Len(Unread), p \in Int : Aligned(j, p)
  BY DEF FrameInv, AlignInv
<1>6. \A i \in 1..HeaderSize : Unread[i] = Byte(session, Start[f] + i - 1)
  <2> TAKE i \in 1..HeaderSize
  <2>1. /\ reassembler.pending \in Seq(Positions) /\ Rest \in Seq(Positions)
        /\ i \in 1..Len(reassembler.pending) /\ i \in 1..(Len(reassembler.pending) + Len(Rest))
        /\ i <= Len(reassembler.pending)
    BY <1>2, UnreadType
  <2>2. Unread[i] = reassembler.pending[i]
    BY <2>1, ConcatProperties DEF Unread
  <2>3. SubSeq(reassembler.pending, 1, HeaderSize)[i] = reassembler.pending[i]
    <3> DEFINE q == reassembler.pending
    <3>1. q \in Seq(Positions) /\ HeaderSize \in Nat /\ HeaderSize <= Len(q)
      BY <1>2, <2>1
    <3> HIDE DEF q
    <3>2. SubSeq(q, 1, HeaderSize)[i] = q[i]
      BY <3>1
    <3>3. QED BY <3>2 DEF q
  <2>4. Bytes(session, Start[f], HeaderSize)[i] = Byte(session, Start[f] + i - 1)
    <3>1. session \in Sessions /\ HeaderSize \in Nat
      BY ReassemblerTypes
    <3>2. QED BY <1>3, <3>1, BytesFacts
  <2>5. QED BY <1>3, <2>2, <2>3, <2>4
<1>7. j = 0 /\ Start[f] = sent - Len(Unread)
  <2>1. Unread \in Seq(Positions) /\ Len(Unread) >= HeaderSize
    BY <1>2, UnreadType
  <2>2. Stretch(Unread, j, session, sent)
    BY <1>5 DEF Aligned
  <2>3. BeginsAt(Unread, session, Start[f])
    BY <1>6 DEF BeginsAt
  <2>4. QED BY <1>2, <1>3, <2>1, <2>2, <2>3, HeaderOnStretch, SMTT(30)
<1>8. Start[f] = p
  BY <1>2, <1>5, <1>7, UnreadType DEF Aligned
<1>9. Placed(Start[f] + HeaderSize)' /\ reassembler.head < f
  BY <1>2, <1>3, <1>4, <1>5, <1>8, PlacedHeader DEF Aligned
<1>10. UnreadInv'
  BY <1>2, <1>4, UnreadStays DEF FrameInv, audio
<1>11. /\ Stretch(Unread', Beyond(0, HeaderSize), session', sent')
       /\ Beyond(0, HeaderSize) \in 0..Len(Unread')
       /\ sent' - Len(Unread') + Beyond(0, HeaderSize) = p + (HeaderSize - 0)
       /\ Beyond(0, HeaderSize) = 0
  <2>1. ~(HeaderSize < 0) /\ HeaderSize \in Nat
    BY <1>2
  <2>2. QED BY <1>2, <1>4, <1>5, <1>7, <2>1, StretchStays DEF Beyond
<1>12. AlignInv'
  <2>1. /\ Start[f] + HeaderSize = sent' - Len(Unread') + Beyond(0, HeaderSize)
        /\ Start[f] + HeaderSize \in Int
    BY <1>2, <1>3, <1>8, <1>11
  <2>2. QED BY <1>9, <1>11, <2>1, AlignedNext
<1>13. GotInv'
  <2>1. ASSUME NEW i \in DOMAIN got PROVE got[i].frame < f /\ got[i].frame <= f
    <3>1. got[i].frame <= reassembler.head
      BY DEF FrameInv, GotInv
    <3>3. got[i].frame \in Nat /\ reassembler.head \in Nat /\ f \in Nat
      BY <1>3, GotTypes, ReassemblerTypes DEF Frames
    <3>4. QED BY <1>9, <3>1, <3>3
  <2>2. QED BY <1>2, <1>4, <2>1 DEF FrameInv, GotInv
<1>14. QED BY <1>2, <1>10, <1>12, <1>13 DEF FrameInv, OffInv, audio

LEMMA PartFields ==
  ASSUME NEW r \in Objects, NEW n, n = Lesser(r.remaining, Len(r.pending))
  PROVE  /\ TakePart(r).id = r.id /\ TakePart(r).session = r.session
         /\ TakePart(r).head = r.head /\ TakePart(r).remaining = r.remaining - n
         /\ TakePart(r).buf = r.buf \o SubSeq(r.pending, 1, n)
         /\ TakePart(r).pending = Drop(r.pending, n)
         /\ n \in Nat /\ n <= r.remaining /\ n <= Len(r.pending)
<1>1. n \in Nat /\ n <= r.remaining /\ n <= Len(r.pending)
  BY ObjectFields DEF Lesser
<1>2. TakePart(r) = [r EXCEPT !.remaining = r.remaining - n,
                              !.buf = r.buf \o SubSeq(r.pending, 1, n),
                              !.pending = Drop(r.pending, n)]
  BY DEF TakePart, Objects, Reassemblers
<1>3. QED BY <1>1, <1>2 DEF Objects, Reassemblers

\* The bytes that are read of a payload are those the stream goes on with.
LEMMA PartStep ==
  ASSUME ObjectInv, PayloadsInv, FrameInv, reassembler.remaining > 0, reassembler.pending # <<>>,
         NEW n, n = Lesser(reassembler.remaining, Len(reassembler.pending)),
         reassembler' = TakePart(reassembler), UNCHANGED <<session, sent, payloads>>,
         NEW p \in Int, Aligned(0, p)
  PROVE  /\ n \in Nat /\ n > 0 /\ n <= reassembler.remaining
         /\ n <= Len(reassembler.pending)
         /\ reassembler'.id = reassembler.id /\ reassembler'.session = reassembler.session
         /\ reassembler'.head = reassembler.head
         /\ reassembler'.remaining = reassembler.remaining - n
         /\ reassembler'.pending = Drop(reassembler.pending, n)
         /\ p \in Nat /\ p + n = sent' - Len(Unread')
         /\ Joined(reassembler.buf, Bytes(session, p, n), reassembler'.buf)
         /\ Stretch(Unread', 0, session', sent') /\ Len(Unread') \in Nat
<1>1. /\ n \in Nat /\ n <= reassembler.remaining /\ n <= Len(reassembler.pending)
      /\ reassembler'.id = reassembler.id /\ reassembler'.session = reassembler.session
      /\ reassembler'.head = reassembler.head
      /\ reassembler'.remaining = reassembler.remaining - n
      /\ reassembler'.pending = Drop(reassembler.pending, n)
      /\ reassembler'.buf = reassembler.buf \o SubSeq(reassembler.pending, 1, n)
  BY PartFields DEF ObjectInv
<1>2. n > 0
  <2>1. Len(reassembler.pending) # 0 /\ Len(reassembler.pending) \in Nat
    BY UnreadType
  <2>2. reassembler.remaining \in Nat
    BY ReassemblerTypes
  <2>3. QED BY <2>1, <2>2 DEF Lesser
<1>4. Placed(p)
  BY DEF Aligned
<1>5. p \in Nat
  <2>1. Start[reassembler.head] + HeaderSize <= p /\ reassembler.head \in Frames
    BY <1>4, ReassemblerTypes DEF Placed, HeadAt
  <2>2. QED BY <2>1, ReassemblerTypes
<1>6. SubSeq(reassembler.pending, 1, n) = Bytes(session, p, n)
  <2>1. n \in 1..Len(reassembler.pending)
    BY <1>1, <1>2, UnreadType
  <2>2. QED BY <1>5, <2>1, PendingBytes
<1>7. /\ Stretch(Unread', Beyond(0, n), session', sent')
      /\ Beyond(0, n) \in 0..Len(Unread')
      /\ sent' - Len(Unread') + Beyond(0, n) = IF n < 0 THEN p ELSE p + (n - 0)
  <2>1. 0 \in 0..Len(Unread)
    BY UnreadType
  <2>2. QED BY <1>1, <2>1, StretchStays
<1>8. Beyond(0, n) = 0 /\ ~(n < 0)
  BY <1>1 DEF Beyond
<1>9. Len(Unread') \in Nat /\ sent' \in Int
  BY <1>1, UnreadRead, UnreadType, ReassemblerTypes
<1>10. Stretch(Unread', 0, session', sent') /\ p + n = sent' - Len(Unread')
  BY <1>1, <1>5, <1>7, <1>8, <1>9
<1>11. Joined(reassembler.buf, Bytes(session, p, n), reassembler'.buf)
  BY <1>1, <1>6 DEF Joined
<1>12. QED BY <1>1, <1>2, <1>5, <1>9, <1>10, <1>11

\* Of a torn payload the reassembler reads whatever there is; it begins before safe.
LEMMA TornStep ==
  ASSUME ObjectInv, PayloadsInv, LoopType, FrameInv, reassembler.remaining > 0,
         reassembler' = TakePart(reassembler),
         UNCHANGED <<session, sent, payloads, safe, broken>>,
         NEW j \in 0..Len(Unread), NEW p \in Int, Aligned(j, p), Torn(p),
         \/ UNCHANGED got
         \/ /\ reassembler'.remaining = 0
            /\ got' = Append(got, [frame |-> reassembler.head, whole |-> Whole(reassembler')]),
         UNCHANGED audio \/ DecodeFrame(reassembler')
  PROVE  FrameInv'
<1> DEFINE h == reassembler.head
           rem == reassembler.remaining
<1>1. PICK n : n = Lesser(reassembler.remaining, Len(reassembler.pending))
  OBVIOUS
<1>2. /\ n \in Nat /\ n <= rem /\ n <= Len(reassembler.pending)
      /\ reassembler'.id = reassembler.id /\ reassembler'.session = reassembler.session
      /\ reassembler'.head = h /\ reassembler'.remaining = rem - n
      /\ reassembler'.pending = Drop(reassembler.pending, n)
  BY <1>1, PartFields DEF ObjectInv
<1>3. /\ h \in Frames /\ rem \in Nat /\ Start[h] \in Nat /\ HeaderSize \in Nat /\ h # 0
      /\ safe \in Nat /\ h \in Nat
  BY ReassemblerTypes DEF LoopType, Frames
<1> HIDE DEF h, rem
<1>4. /\ Stretch(Unread', Beyond(j, n), session', sent')
      /\ Beyond(j, n) \in 0..Len(Unread')
      /\ sent' - Len(Unread') + Beyond(j, n) = IF n < j THEN p ELSE p + (n - j)
  BY <1>2, StretchStays
<1>5. PICK x : x = IF n < j THEN p ELSE p + (n - j)
  OBVIOUS
<1>6. x \in Int /\ p <= x /\ x <= p + n
  BY <1>2, <1>5, UnreadType
<1>7. Start[h] + HeaderSize <= p /\ Start[h] < safe /\ p + rem <= safe /\ broken
  BY <1>3 DEF Aligned, Placed, HeadAt, Torn, h, rem
<1>8. x + (rem - n) <= safe /\ Start[h] + HeaderSize <= x
  BY <1>2, <1>3, <1>6, <1>7, SMTT(30)
<1>9. Torn(x)'
  BY <1>2, <1>7, <1>8 DEF Torn
<1>10. HeadAt(x)'
  BY <1>2, <1>3, <1>8, <1>9 DEF HeadAt
<1>11. Coverage(x)'
  <2>1. ASSUME NEW f \in Frames, Start[f] >= safe PROVE Start[f] >= x + (rem - n)
    <3>1. Start[f] \in Nat
      BY ReassemblerTypes
    <3>2. QED BY <1>2, <1>3, <1>6, <1>8, <2>1, <3>1
  <2>2. QED BY <1>2, <2>1 DEF Coverage, Coming
<1>12. Ready(x)'
  BY <1>7 DEF Ready
<1>13. AlignInv'
  BY <1>4, <1>5, <1>6, <1>9, <1>10, <1>11, <1>12, AlignedNext DEF Placed
<1>14. UnreadInv'
  <2>1. adpcm_owner' = adpcm_owner \/ adpcm_owner' = reassembler.id
    BY <1>2 DEF DecodeFrame, audio
  <2>2. QED BY <1>2, <2>1, UnreadStays DEF FrameInv
<1>15. OffInv'
  BY <1>7 DEF OffInv, FrameInv, DecodeFrame, audio
<1>16. GotInv'
  <2>1. /\ \A i \in DOMAIN got : got[i].frame < h
        /\ \A i, k \in DOMAIN got : i < k => got[i].frame < got[k].frame
        /\ \A i \in DOMAIN got : got[i].frame <= h /\ (Start[got[i].frame] >= safe => got[i].whole)
    BY DEF FrameInv, GotInv, h
  <2>2. CASE UNCHANGED got
    BY <1>2, <2>1, <2>2 DEF GotInv
  <2>3. CASE /\ reassembler'.remaining = 0
             /\ got' = Append(got, [frame |-> h, whole |-> Whole(reassembler')])
    <3> DEFINE e == [frame |-> h, whole |-> Whole(reassembler')]
               S == [frame : Frames, whole : BOOLEAN]
               l == Len(got) + 1
    <3>1. got \in Seq(S) /\ e \in S /\ e.frame = h
      BY <1>3 DEF LoopType, Whole
    <3> HIDE DEF e, S
    <3>2. /\ got' \in Seq(S) /\ Len(got') = l /\ got'[l] = e /\ l \in Nat
          /\ DOMAIN got' = 1..l /\ DOMAIN got = 1..(l - 1)
          /\ \A i \in 1..(l - 1) : got'[i] = got[i]
      BY <2>3, <3>1, AppendProperties, LenProperties DEF e
    <3> HIDE DEF l
    <3>3. ASSUME NEW i \in 1..l
          PROVE  /\ got'[i].frame <= h /\ (i < l => got'[i].frame < h)
                 /\ Start[got'[i].frame] >= safe => got'[i].whole
      <4>1. CASE i = l
        BY <1>3, <1>7, <3>1, <3>2, <4>1
      <4>2. CASE i # l
        <5>1. i \in DOMAIN got /\ got'[i] = got[i]
          BY <3>2, <4>2
        <5>2. QED BY <2>1, <5>1
      <4>3. QED BY <4>1, <4>2
    <3>4. ASSUME NEW i \in 1..l, NEW k \in 1..l, i < k PROVE got'[i].frame < got'[k].frame
      <4>1. CASE k = l
        BY <3>1, <3>2, <3>3, <3>4, <4>1
      <4>2. CASE k # l
        <5>1. /\ i \in DOMAIN got /\ k \in DOMAIN got
              /\ got'[i] = got[i] /\ got'[k] = got[k]
          BY <3>2, <3>4, <4>2
        <5>2. QED BY <2>1, <3>4, <5>1
      <4>3. QED BY <4>1, <4>2
    <3>5. ~(reassembler'.remaining > 0)
      BY <2>3
    <3>6. QED BY <1>2, <3>2, <3>3, <3>4, <3>5 DEF GotInv
  <2>4. QED BY <2>2, <2>3 DEF h
<1>17. QED BY <1>13, <1>14, <1>15, <1>16 DEF FrameInv

LEMMA ReadPartStep ==
  ASSUME ObjectInv, PayloadsInv, LoopType, FrameInv, ReadPart, left = <<>>
  PROVE  FrameInv'
<1>1. /\ reassembler.pending # <<>> /\ reassembler.remaining > Len(reassembler.pending)
      /\ reassembler' = TakePart(reassembler)
      /\ UNCHANGED <<session, sent, payloads, got, safe, broken, audio>>
  BY DEF ReadPart, Running, Becomes
<1>2. reassembler.remaining \in Nat /\ Len(reassembler.pending) \in Nat /\ reassembler.remaining > 0
  BY <1>1, UnreadType, ReassemblerTypes
<1>3. PICK n : n = Lesser(reassembler.remaining, Len(reassembler.pending))
  OBVIOUS
<1>4. n < reassembler.remaining
  BY <1>1, <1>2, <1>3 DEF Lesser
<1>12. PICK j \in 0..Len(Unread), p \in Int : Aligned(j, p)
  BY DEF FrameInv, AlignInv
<1>13. CASE Torn(p)
  BY <1>1, <1>2, <1>12, <1>13, TornStep
<1>14. CASE ~Torn(p)
  <2>1. Aligned(0, p) /\ Placed(p)
    BY <1>2, <1>12, <1>14 DEF Aligned
  <2>2. /\ n \in Nat /\ n > 0 /\ n <= Len(reassembler.pending)
        /\ reassembler'.id = reassembler.id /\ reassembler'.session = reassembler.session
        /\ reassembler'.head = reassembler.head
        /\ reassembler'.remaining = reassembler.remaining - n
        /\ reassembler'.pending = Drop(reassembler.pending, n)
        /\ Stretch(Unread', 0, session', sent') /\ Len(Unread') \in Nat
        /\ p \in Nat /\ p + n = sent' - Len(Unread')
        /\ Joined(reassembler.buf, Bytes(session, p, n), reassembler'.buf)
    BY <1>1, <1>2, <1>3, <2>1, PartStep
  <2>3. Placed(p + n)'
    BY <1>1, <1>4, <2>1, <2>2, PlacedPart
  <2>4. AlignInv'
    <3>1. 0 \in 0..Len(Unread') /\ p + n = sent' - Len(Unread') + 0 /\ p + n \in Int
      BY <2>2
    <3>2. QED BY <2>2, <2>3, <3>1, AlignedNext
  <2>5. UnreadInv'
    BY <1>1, <2>2, UnreadStays DEF FrameInv, audio
  <2>6. GotInv'
    BY <1>1, <1>2, <2>2 DEF FrameInv, GotInv
  <2>7. QED BY <1>1, <2>4, <2>5, <2>6 DEF FrameInv, OffInv, audio
<1>15. QED BY <1>13, <1>14

\* A frame of the present reassembler is yielded.
LEMMA YieldStep ==
  ASSUME ObjectInv, PayloadsInv, LoopType, FrameInv, left = <<>>, NEW r, Yields(r), Becomes(r),
         got' = Noted(r), UNCHANGED <<session, sent, payloads, safe, broken>>,
         IF Script[r.head].kind = "adpcm" THEN DecodeFrame(r) ELSE UNCHANGED audio
  PROVE  FrameInv'
<1>1. /\ reassembler.remaining > 0 /\ reassembler.remaining <= Len(reassembler.pending)
      /\ r = TakePart(reassembler) /\ reassembler' = r
      /\ got' = Append(got, [frame |-> r.head, whole |-> Whole(r)])
  BY DEF Yields, Running, Becomes, Noted
<1>2. /\ reassembler.remaining \in Nat /\ Len(reassembler.pending) \in Nat
      /\ reassembler.pending # <<>>
  BY <1>1, UnreadType, ReassemblerTypes
<1>3. PICK n : n = Lesser(reassembler.remaining, Len(reassembler.pending))
  OBVIOUS
<1>4. n = reassembler.remaining
  BY <1>1, <1>2, <1>3 DEF Lesser
<1>5. /\ n \in Nat /\ n <= Len(reassembler.pending)
      /\ reassembler'.id = reassembler.id /\ reassembler'.session = reassembler.session
      /\ reassembler'.head = reassembler.head
      /\ reassembler'.remaining = reassembler.remaining - n
      /\ reassembler'.pending = Drop(reassembler.pending, n)
  BY <1>1, <1>3, PartFields DEF ObjectInv
<1>6. reassembler'.remaining = 0 /\ ~(reassembler'.remaining > 0)
  BY <1>2, <1>4, <1>5
<1>7. got' = Append(got, [frame |-> reassembler.head, whole |-> Whole(reassembler')])
  BY <1>1, <1>5
<1>8. IF Script[reassembler.head].kind = "adpcm" THEN DecodeFrame(reassembler')
                                                  ELSE UNCHANGED audio
  BY <1>1, <1>5
<1>9. PICK j \in 0..Len(Unread), p \in Int : Aligned(j, p)
  BY DEF FrameInv, AlignInv
<1>10. CASE Torn(p)
  <2>1. UNCHANGED audio \/ DecodeFrame(reassembler')
    BY <1>8
  <2>2. reassembler' = TakePart(reassembler)
    BY <1>1
  <2>3. QED BY <1>1, <1>6, <1>7, <1>9, <1>10, <2>1, <2>2, TornStep
<1>11. CASE ~Torn(p)
  <2>1. Aligned(0, p) /\ Placed(p)
    BY <1>1, <1>9, <1>11 DEF Aligned
  <2>2. reassembler' = TakePart(reassembler)
    BY <1>1
  <2>3. /\ n > 0 /\ Stretch(Unread', 0, session', sent') /\ Len(Unread') \in Nat
        /\ p \in Nat /\ p + n = sent' - Len(Unread')
        /\ Joined(reassembler.buf, Bytes(session, p, n), reassembler'.buf)
    BY <1>1, <1>2, <1>3, <2>1, <2>2, PartStep
  <2>4. Yielded(p, n)
    <3>1. reassembler.session = session
      BY DEF FrameInv, UnreadInv
    <3>2. QED BY <1>4, <1>5, <1>6, <1>7, <2>3, <3>1 DEF Yielded
  <2>5. Placed(p + n)' /\ GotInv' /\ OffInv'
    BY <1>5, <1>8, <2>1, <2>3, <2>4, PlacedYield DEF FrameInv
  <2>6. AlignInv'
    <3>1. 0 \in 0..Len(Unread') /\ p + n = sent' - Len(Unread') + 0 /\ p + n \in Int
      BY <1>5, <2>3
    <3>2. QED BY <2>3, <2>5, <3>1, AlignedNext
  <2>7. UnreadInv'
    <3>1. adpcm_owner' = adpcm_owner \/ adpcm_owner' = reassembler.id
      <4>1. CASE DecodeFrame(reassembler')
        BY <1>5, <4>1 DEF DecodeFrame
      <4>2. CASE UNCHANGED audio
        BY <4>2 DEF audio
      <4>3. QED BY <1>8, <4>1, <4>2
    <3>2. QED BY <1>5, <3>1, UnreadStays DEF FrameInv
  <2>8. QED BY <2>5, <2>6, <2>7 DEF FrameInv
<1>12. QED BY <1>10, <1>11

\* A new reassembler at the position p: nothing it has to yield was sent before safe.
LEMMA PlacedFresh ==
  ASSUME ObjectInv, UnreadInv, NEW p \in Int, NEW s, NEW from \in Nat, StartOver(s, from),
         p <= from, UNCHANGED audio
  PROVE  Placed(p)' /\ GotInv' /\ reassembler'.remaining = 0
<1>1. /\ reassembler'.head = 0 /\ reassembler'.remaining = 0
      /\ reassembler'.id = reassembler.id + 1 /\ safe' = from /\ got' = <<>>
  BY DEF StartOver, FrameReassembler
<1>2. HeadAt(p)'
  BY <1>1 DEF HeadAt
<1>3. Coverage(p)'
  <2>1. ASSUME NEW f \in Frames, Start[f] >= from PROVE Start[f] >= p + 0
    <3>1. Start[f] \in Nat
      BY ReassemblerTypes
    <3>2. QED BY <2>1, <3>1
  <2>2. QED BY <1>1, <2>1 DEF Coverage, Coming
<1>4. Ready(p)'
  <2>1. adpcm_owner' # reassembler'.id
    <3>1. reassembler.id \in Nat /\ adpcm_owner <= reassembler.id
      BY ReassemblerTypes DEF UnreadInv
    <3>2. adpcm_owner # reassembler.id + 1
      BY <3>1
    <3>3. QED BY <1>1, <3>2 DEF audio
  <2>2. QED BY <2>1 DEF Ready
<1>5. GotInv'
  BY <1>1 DEF GotInv
<1>6. QED BY <1>1, <1>2, <1>3, <1>4, <1>5 DEF Placed

\* What a new reassembler has not read is what has not been fed.
LEMMA FreshUnread ==
  ASSUME ObjectInv, PayloadsInv, UNCHANGED <<session, payloads>>, reassembler'.pending = <<>>
  PROVE  /\ Unread' = Rest
         /\ \A i \in 1..Len(Rest) : \E k \in 1..Len(Unread) : Rest[i] = Unread[k]
<1>1. Rest' = Rest
  BY DEF Rest, Old
<1>2. Unread' = Rest
  BY <1>1, UnreadType, ConcatEmptySeq DEF Unread
<1>3. ASSUME NEW i \in 1..Len(Rest) PROVE \E k \in 1..Len(Unread) : Rest[i] = Unread[k]
  <2> DEFINE m == Len(reassembler.pending)
  <2>1. /\ m \in Nat /\ Len(Rest) \in Nat /\ Len(Unread) = m + Len(Rest)
        /\ reassembler.pending \in Seq(Positions) /\ Rest \in Seq(Positions)
    BY UnreadType
  <2>2. \A k \in 1..(m + Len(Rest)) :
          Unread[k] = IF k <= m THEN reassembler.pending[k] ELSE Rest[k - m]
    BY <2>1, ConcatProperties DEF Unread
  <2> HIDE DEF m
  <2>3. m + i \in 1..(m + Len(Rest)) /\ ~(m + i <= m) /\ (m + i) - m = i
    BY <2>1
  <2>4. Unread[m + i] = Rest[i]
    BY <2>2, <2>3
  <2>5. QED BY <2>1, <2>3, <2>4
<1>4. QED BY <1>2, <1>3

LEMMA NewSessionStep ==
  ASSUME ObjectInv, PayloadsInv, LoopType, FrameInv, NewSession, StartOver(session', 0),
         UNCHANGED <<payloads, audio>>
  PROVE  FrameInv'
<1>1. /\ session' = session + 1 /\ sent' = 0
      /\ reassembler'.session = session' /\ reassembler'.pending = <<>>
      /\ reassembler'.id = reassembler.id + 1
  BY DEF NewSession, StartOver, FrameReassembler
<1>2. session \in Int /\ reassembler.id \in Nat /\ Sessions \subseteq Int
  BY ReassemblerTypes DEF Sessions
<1>3. Rest' = <<>>
  <2>1. CASE payloads = <<>>
    BY <2>1 DEF Rest
  <2>2. CASE payloads # <<>>
    <3>1. 1 \in 1..Len(payloads)
      BY <2>2, EmptySeq DEF ObjectInv
    <3>2. payloads[1][1].session \in Int /\ payloads[1][1].session <= session
      BY <1>2, <3>1, PayloadType DEF PayloadsInv, Piece
    <3>3. Old(payloads[1])'
      BY <1>1, <1>2, <3>2 DEF Old
    <3>4. QED BY <3>3 DEF Rest
  <2>3. QED BY <2>1, <2>2
<1>4. Unread' = <<>> /\ Len(Unread') = 0
  BY <1>1, <1>3 DEF Unread
<1>5. Stretch(Unread', 0, session', sent')
  BY <1>4 DEF Stretch
<1>6. Placed(0)' /\ GotInv' /\ reassembler'.remaining = 0
  <2>1. 0 \in Int /\ 0 \in Nat /\ 0 <= 0
    OBVIOUS
  <2>2. QED BY <2>1, PlacedFresh DEF FrameInv
<1>7. AlignInv'
  <2>1. 0 \in 0..Len(Unread') /\ 0 = sent' - Len(Unread') + 0 /\ 0 \in Int
    <3>1. PICK l \in {0} : l = Len(Unread')
      BY <1>4
    <3>2. sent' = 0 /\ l = 0
      BY <1>1
    <3>3. 0 \in 0..l /\ 0 = sent' - l + 0
      BY <3>2
    <3>4. QED BY <3>1, <3>3
  <2>2. ~(reassembler'.remaining > 0)
    BY <1>6
  <2>3. QED BY <1>5, <1>6, <2>1, <2>2, AlignedNext
<1>8. UnreadInv'
  <2>1. adpcm_owner' <= reassembler'.id
    BY <1>1, <1>2 DEF FrameInv, UnreadInv, audio, LoopType
  <2>2. QED BY <1>1, <1>4, <2>1 DEF UnreadInv
<1>9. QED BY <1>6, <1>7, <1>8 DEF FrameInv, OffInv, audio

LEMMA ClientStartsStep ==
  ASSUME ObjectInv, PayloadsInv, LoopType, FrameInv, ClientStarts
  PROVE  FrameInv'
<1> DEFINE n == Len(reassembler.pending)
<1>1. /\ reassembler'.session = session /\ reassembler'.pending = <<>>
      /\ reassembler'.id = reassembler.id + 1 /\ StartOver(session, sent)
      /\ UNCHANGED <<session, sent, payloads, audio>>
  BY DEF ClientStarts, StartOver, FrameReassembler
<1>2. n \in Nat /\ n <= n /\ reassembler.id \in Nat /\ adpcm_owner \in Nat /\ sent \in Nat
  BY UnreadType, ReassemblerTypes DEF LoopType
<1>3. reassembler'.pending = Drop(reassembler.pending, n)
  <2>1. SubSeq(reassembler.pending, n + 1, n) = <<>>
    BY <1>2, SubSeqEmpty
  <2>2. QED BY <1>1, <2>1 DEF Drop
<1>4. PICK j \in 0..Len(Unread), p \in Int : Aligned(j, p)
  BY DEF FrameInv, AlignInv
<1> DEFINE m == Beyond(j, n)
           q == Unread'
<1>5. /\ Stretch(q, m, session', sent') /\ m \in 0..Len(q)
      /\ q = Rest /\ \A i \in 1..Len(q) : \E k \in 1..Len(Unread) : q[i] = Unread[k]
  BY <1>1, <1>2, <1>3, <1>4, StretchStays, FreshUnread
<1>6. Len(q) \in Nat
  BY <1>5, UnreadType
<1> HIDE DEF m, q, n
<1>7. PICK x : x = sent - Len(q) + m
  OBVIOUS
<1>8. x \in Int /\ x <= sent
  BY <1>2, <1>5, <1>6, <1>7
<1>9. Placed(x)' /\ GotInv' /\ reassembler'.remaining = 0
  BY <1>1, <1>2, <1>8, PlacedFresh DEF FrameInv
<1>10. AlignInv'
  <2>1. ~(reassembler'.remaining > 0) /\ x = sent' - Len(q) + m
    BY <1>1, <1>7, <1>9
  <2>2. QED BY <1>5, <1>8, <1>9, <2>1, AlignedNext DEF q
<1>11. UnreadInv'
  <2>1. adpcm_owner' <= reassembler'.id
    BY <1>1, <1>2 DEF FrameInv, UnreadInv, audio
  <2>2. \A i \in 1..Len(q) : q[i].session = session => q[i].pos < sent
    BY <1>5 DEF FrameInv, UnreadInv
  <2>3. QED BY <1>1, <2>1, <2>2 DEF FrameInv, UnreadInv, q
<1>12. QED BY <1>1, <1>9, <1>10, <1>11 DEF FrameInv, OffInv, audio

\* Between two payloads nothing but the reassembler's own bytes is unread.
LEMMA WaitingUnread ==
  ASSUME ObjectInv, PayloadsInv, payloads = <<>> PROVE Unread = reassembler.pending
<1>1. Rest = <<>>
  BY DEF Rest
<1>2. QED BY <1>1, UnreadType, ConcatEmptySeq DEF Unread

\* Payloads of this session that arrive are one stretch, in one piece or two.
LEMMA ReceivedRest ==
  ASSUME ObjectInv, NEW n \in 0..StreamSize, NEW k \in 0..StreamSize, Receive(n, k)
  PROVE  Rest' = Bytes(session, sent, n + k)
<1>1. /\ n \in Nat /\ k \in Nat /\ n + k \in Nat /\ session \in Sessions /\ sent \in Nat
      /\ sent + n \in Nat /\ n > 0 /\ session <= session
  BY ReassemblerTypes DEF Receive, Sessions
<1>2. /\ payloads' = IF k = 0 THEN <<Bytes(session, sent, n)>>
                     ELSE <<Bytes(session, sent, n), Bytes(session, sent + n, k)>>
      /\ session' = session
  BY DEF Receive
<1> DEFINE a == Bytes(session, sent, n)
           b == Bytes(session, sent + n, k)
<1>6. a[1].session = session /\ (k # 0 => b[1].session = session)
  <2>1. a[1].session = session
    BY <1>1, BytesPiece
  <2>2. ASSUME k # 0 PROVE b[1].session = session
    <3>1. k > 0 /\ sent + n \in Nat
      BY <1>1, <2>2
    <3>2. QED BY <1>1, <3>1, BytesPiece
  <2>3. QED BY <2>1, <2>2
<1> HIDE DEF a, b
<1>3. CASE k = 0
  <2>1. payloads' = <<a>> /\ n + k = n /\ sent \in Nat
    BY <1>1, <1>2, <1>3 DEF a
  <2>4. Rest' = a
    <3>1. payloads' # <<>> /\ Len(payloads') = 1 /\ payloads'[1] = a
      BY <2>1
    <3>2. ~Old(payloads[1])'
      BY <1>2, <1>6, <3>1 DEF Old
    <3>3. QED BY <3>1, <3>2 DEF Rest
  <2>5. QED BY <2>1, <2>4 DEF a
<1>4. CASE k # 0
  <2>1. payloads' = <<a, b>>
    BY <1>2, <1>4 DEF a, b
  <2>2. Joined(a, b, Bytes(session, sent, n + k))
    <3>1. PICK m \in Nat : m = sent + n
      BY <1>1
    <3>2. PICK l \in Nat : l = n + k
      BY <1>1
    <3>3. Joined(Bytes(session, sent, n), Bytes(session, m, k), Bytes(session, sent, l))
      BY <1>1, <3>1, <3>2, BytesJoin
    <3>4. QED BY <3>1, <3>2, <3>3 DEF a, b
  <2>3. payloads' # <<>> /\ Len(payloads') = 2 /\ payloads'[1] = a /\ payloads'[2] = b
    BY <2>1
  <2>4. Rest' = a \o b
    <3>1. ~Old(payloads[1])' /\ ~Old(payloads[2])'
      BY <1>2, <1>4, <1>6, <2>3 DEF Old
    <3>2. QED BY <2>3, <3>1 DEF Rest
  <2>5. QED BY <2>2, <2>4 DEF Joined
<1>5. QED BY <1>3, <1>4

\* And so is the one before payloads of an old session.
LEMMA ReceivedOldRest ==
  ASSUME ObjectInv, NEW n \in 1..StreamSize, NEW m \in OldSizes, ReceiveOld(n, m)
  PROVE  Rest' = Bytes(session, sent, n)
<1>1. /\ n \in Nat /\ n > 0 /\ m \in Nat /\ m > 0 /\ session \in Sessions /\ sent \in Nat
      /\ 0 \in Nat /\ session <= session /\ session' = session /\ Sessions \subseteq Int
  BY ReassemblerTypes, AvAssumption DEF ReceiveOld, Sessions
<1>2. PICK s \in Sessions : /\ s < session
                            /\ payloads' = <<Bytes(session, sent, n), Bytes(s, 0, m)>>
  BY DEF ReceiveOld
<1> DEFINE a == Bytes(session, sent, n)
           b == Bytes(s, 0, m)
<1>3. a[1].session = session
  BY <1>1, BytesPiece
<1>4. b[1].session = s
  <2>1. s <= session
    BY <1>1, <1>2
  <2>2. QED BY <1>1, <2>1, BytesPiece
<1>5. s # session
  BY <1>1, <1>2
<1> HIDE DEF a, b
<1>6. payloads' # <<>> /\ payloads'[1] = a /\ payloads'[2] = b
  BY <1>2 DEF a, b
<1>7. ~Old(payloads[1])' /\ Old(payloads[2])'
  BY <1>1, <1>3, <1>4, <1>5, <1>6 DEF Old
<1>8. QED BY <1>6, <1>7 DEF Rest, Old, a

LEMMA ReceiveStep ==
  ASSUME ObjectInv, PayloadsInv, FrameInv, payloads = <<>>, PayloadsInv', ObjectInv',
         NEW c \in Nat, sent' = sent + c, Rest' = Bytes(session, sent, c),
         UNCHANGED <<session, reassembler, left, audio, got, safe, broken>>
  PROVE  FrameInv'
<1> DEFINE q == Unread
           b == Bytes(session, sent, c)
<1>4. /\ q = reassembler.pending /\ q \in Seq(Positions) /\ Len(q) \in Nat
      /\ session \in Sessions /\ sent \in Nat /\ session \in Int
  BY WaitingUnread, UnreadType, ReassemblerTypes DEF Sessions
<1>5. Unread' = q \o b
  BY <1>4 DEF Unread
<1>6. PICK j \in 0..Len(q), p \in Int : Aligned(j, p)
  BY DEF FrameInv, AlignInv
<1>7. /\ Stretch(q \o b, j, session, sent + c) /\ Len(q \o b) = Len(q) + c
      /\ p = sent - Len(q) + j /\ Placed(p)
      /\ reassembler.remaining > 0 => j = 0 \/ Torn(p)
  BY <1>4, <1>6, StretchGrows, ZenonT(30) DEF Aligned
<1>8. Placed(p)'
  BY <1>7, PlacedStays
<1>9. AlignInv'
  <2>1. /\ j \in 0..(Len(q) + c) /\ p = (sent + c) - (Len(q) + c) + j
        /\ reassembler'.remaining > 0 => j = 0 \/ Torn(p)'
    <3>1. j \in 0..(Len(q) + c) /\ p = (sent + c) - (Len(q) + c) + j
      BY <1>4, <1>7
    <3>2. Torn(p) => Torn(p)'
      BY DEF Torn
    <3>3. QED BY <1>7, <3>1, <3>2
  <2>2. j \in 0..Len(Unread') /\ p = sent' - Len(Unread') + j
    BY <1>5, <1>7, <2>1
  <2>3. Stretch(Unread', j, session', sent')
    BY <1>5, <1>7
  <2>4. QED BY <1>8, <2>1, <2>2, <2>3, AlignedNext
<1>10. UnreadInv'
  <2>1. /\ b \in Seq(Positions) /\ Len(b) = c /\ \A i \in 1..c : b[i] = Byte(session, sent + i - 1)
    BY <1>4, BytesSeq, BytesFacts
  <2> HIDE DEF q, b
  <2>2. \A i \in 1..(Len(q) + c) : (q \o b)[i] = IF i <= Len(q) THEN q[i] ELSE b[i - Len(q)]
    BY <1>4, <2>1, ConcatProperties
  <2>3. ASSUME NEW i \in 1..(Len(q) + c)
        PROVE  (q \o b)[i].session = session => (q \o b)[i].pos < sent + c
    <3>1. CASE i <= Len(q)
      <4>1. i \in 1..Len(q) /\ (q \o b)[i] = q[i]
        BY <1>4, <2>2, <3>1
      <4>2. q[i] \in Positions
        BY <1>4, <4>1, ElementOfSeq
      <4>3. q[i].pos \in Nat
        BY <4>2 DEF Positions
      <4>4. q[i].session = session => q[i].pos < sent
        BY <4>1 DEF FrameInv, UnreadInv, q
      <4>5. QED BY <1>4, <4>1, <4>3, <4>4
    <3>2. CASE ~(i <= Len(q))
      <4> DEFINE l == Len(q)
      <4>1. (q \o b)[i] = b[i - l]
        BY <2>2, <3>2
      <4> l \in Nat
        BY <1>4
      <4> HIDE DEF l
      <4>2. i - l \in 1..c
        BY <3>2 DEF l
      <4>3. (q \o b)[i] = Byte(session, sent + (i - l) - 1)
        BY <2>1, <4>1, <4>2
      <4>4. sent + (i - l) - 1 < sent + c
        BY <1>4, <4>2
      <4>5. QED BY <1>4, <4>3, <4>4, ByteFields
    <3>3. QED BY <3>1, <3>2
  <2>4. QED BY <1>5, <1>7, <2>3 DEF FrameInv, UnreadInv, audio
<1>11. QED BY <1>9, <1>10 DEF FrameInv, GotInv, OffInv, audio

\* n bytes are lost.
LEMMA LoseStep ==
  ASSUME ObjectInv, PayloadsInv, PendingInv, LoopType, FrameInv, NEW n \in 1..StreamSize, Lose(n)
  PROVE  FrameInv'
<1> DEFINE q == Unread
           rem == reassembler.remaining
<1>1. /\ payloads = <<>> /\ ~feeding /\ sent' = sent + n /\ safe' = sent + n + rem /\ broken'
      /\ UNCHANGED <<session, payloads, reassembler, audio, got>> /\ n \in Nat /\ n > 0
  BY ReassemblerTypes DEF Lose, Waiting
<1>2. /\ q = reassembler.pending /\ q \in Seq(Positions) /\ Len(q) \in Nat /\ Len(q) < HeaderSize
      /\ rem > 0 => q = <<>> /\ Len(q) = 0
  BY <1>1, WaitingUnread, UnreadType DEF PendingInv, Drained
<1>3. sent \in Nat /\ rem \in Nat /\ session \in Sessions /\ HeaderSize \in Nat \ {0}
  BY ReassemblerTypes
<1>4. Unread' = q
  BY <1>1 DEF Unread, Rest, Old
<1>5. PICK j \in 0..Len(q), p \in Int : Aligned(j, p)
  BY DEF FrameInv, AlignInv
<1>6. HeadAt(p) /\ p <= sent
  BY <1>2, <1>3, <1>5 DEF Aligned, Placed
<1>7. reassembler.head # 0 => Start[reassembler.head] + HeaderSize <= sent
  <2>1. reassembler.head # 0 =>
          Start[reassembler.head] \in Nat /\ Start[reassembler.head] + HeaderSize <= p
    BY <1>6, ReassemblerTypes DEF HeadAt
  <2>2. QED BY <1>3, <1>6, <2>1
<1>8. Stretch(q, Len(q), session, sent + n)
  <2>1. \A i \in 1..Len(q) : q[i].session = session => q[i].pos < sent
    BY DEF FrameInv, UnreadInv
  <2>2. PICK f \in Nat : f = sent + n
    BY <1>1, <1>3
  <2>3. sent < f
    BY <1>1, <1>3, <2>2
  <2>4. Stretch(q, Len(q), session, f)
    BY <1>2, <1>3, <2>1, <2>3, StretchCut
  <2>5. QED BY <2>2, <2>4
<1>9. PICK x : x = sent + n
  OBVIOUS
<1>10. /\ x \in Int /\ safe' = x + reassembler'.remaining
       /\ reassembler'.remaining = rem /\ reassembler'.head = reassembler.head
  BY <1>1, <1>3, <1>9
<1>11. Placed(x)'
  <2>1. HeadAt(x)'
    <3>1. reassembler.head # 0 => /\ Start[reassembler.head] \in Nat
                                  /\ Start[reassembler.head] + HeaderSize <= x
                                  /\ Start[reassembler.head] < x + rem
      BY <1>1, <1>3, <1>7, <1>9, ReassemblerTypes, SMTT(30)
    <3>2. rem > 0 => reassembler.head # 0
      BY <1>6 DEF HeadAt
    <3>3. QED BY <1>1, <1>10, <3>1, <3>2 DEF HeadAt, Torn
  <2>2. Coverage(x)'
    BY <1>10 DEF Coverage, Coming
  <2>3. Ready(x)'
    BY <1>1 DEF Ready
  <2>4. QED BY <2>1, <2>2, <2>3 DEF Placed
<1>12. AlignInv'
  <2>1. /\ Len(q) \in 0..Len(q) /\ x = sent' - Len(q) + Len(q)
        /\ reassembler'.remaining > 0 => Len(q) = 0
    BY <1>1, <1>2, <1>3, <1>9
  <2>2. Stretch(Unread', Len(q), session', sent') /\ Len(q) \in 0..Len(Unread')
        /\ x = sent' - Len(Unread') + Len(q)
    BY <1>1, <1>4, <1>8, <2>1
  <2>3. QED BY <1>10, <1>11, <2>1, <2>2, AlignedNext
<1>13. UnreadInv'
  <2>1. ASSUME NEW i \in 1..Len(q)
        PROVE  q[i].session = session => q[i].pos < sent + n
    <3>1. q[i] \in Positions
      BY <1>2, ElementOfSeq
    <3>2. q[i].pos \in Nat
      BY <3>1 DEF Positions
    <3>3. q[i].session = session => q[i].pos < sent
      BY DEF FrameInv, UnreadInv
    <3>4. QED BY <1>1, <1>3, <3>2, <3>3
  <2>2. QED BY <1>1, <1>4, <2>1 DEF FrameInv, UnreadInv, audio
<1>14. GotInv'
  <2>1. ASSUME NEW i \in DOMAIN got PROVE Start[got[i].frame] < safe'
    <3>2. /\ got[i].frame \in Frames /\ got[i].frame \in Nat /\ Start[got[i].frame] \in Nat
          /\ got[i].frame <= reassembler.head
      BY GotTypes DEF FrameInv, GotInv
    <3>3. reassembler.head \in Frames /\ reassembler.head \in Nat /\ reassembler.head # 0
      BY <3>2, ReassemblerTypes DEF Frames
    <3>4. ~(Start[reassembler.head] < Start[got[i].frame])
      <4>1. ~(reassembler.head < got[i].frame)
        BY <3>2, <3>3
      <4>2. QED BY <3>2, <3>3, <4>1, StartInjective
    <3>5. Start[reassembler.head] \in Nat
      BY <3>3, ReassemblerTypes
    <3>6. QED BY <1>1, <1>3, <1>7, <3>2, <3>3, <3>4, <3>5
  <2>2. ASSUME NEW i \in DOMAIN got PROVE ~(Start[got[i].frame] >= safe')
    <3>2. Start[got[i].frame] \in Nat /\ safe' \in Nat
      BY <1>1, <1>3, GotTypes
    <3>3. QED BY <2>1, <3>2
  <2>3. QED BY <1>1, <2>2 DEF FrameInv, GotInv
<1>15. QED BY <1>1, <1>12, <1>13, <1>14 DEF FrameInv, OffInv, audio

\* What a payload of the present session is to Rest.
LEMMA FeedRest ==
  ASSUME ObjectInv, PayloadsInv, payloads # <<>>, payloads' = Tail(payloads), UNCHANGED session
  PROVE  /\ Head(payloads) = payloads[1] /\ Head(payloads) \in Seq(Positions)
         /\ Piece(Head(payloads)) /\ Rest' \in Seq(Positions)
         /\ ~Old(payloads[1]) => Joined(Head(payloads), Rest', Rest)
         /\ Old(payloads[1]) => Rest = <<>> /\ Rest' = <<>>
<1> DEFINE n == Len(payloads)
           t == Tail(payloads)
           h == Head(payloads)
<1>1. /\ n \in Nat /\ n # 0 /\ n <= 2 /\ h = payloads[1]
      /\ t \in Seq(Seq(Positions)) /\ Len(t) = n - 1
  BY EmptySeq DEF ObjectInv, PayloadsInv
<1> HIDE DEF t, n, h
<1>2. /\ h \in Seq(Positions) /\ Piece(h)
      /\ n = 2 => payloads[2] \in Seq(Positions)
  <2>1. 1 \in 1..n /\ (n = 2 => 2 \in 1..n)
    BY <1>1
  <2>2. QED BY <1>1, <2>1, PayloadType DEF PayloadsInv, n
<1>3. \A x : Old(x)' <=> Old(x)
  BY DEF Old
<1>4. CASE n = 1
  <2>1. t = <<>>
    BY <1>1, <1>4, EmptySeq
  <2>2. Rest' = <<>>
    BY <2>1 DEF Rest, t
  <2>3. ~Old(payloads[1]) => Rest = h
    BY <1>1, <1>4 DEF Rest, n
  <2>4. Old(payloads[1]) => Rest = <<>>
    BY DEF Rest
  <2>5. Joined(h, <<>>, h)
    BY <1>2, ConcatEmptySeq DEF Joined
  <2>6. QED BY <1>1, <1>2, <2>2, <2>3, <2>4, <2>5 DEF h
<1>5. CASE n = 2
  <2>1. t # <<>> /\ Len(t) = 1
    <3>1. Len(t) = 1 /\ Len(t) # 0
      BY <1>1, <1>5
    <3>2. Len(<<>>) = 0
      OBVIOUS
    <3>3. QED BY <3>1, <3>2, Zenon
  <2>2. t[1] = payloads[2]
    <3>1. 1 \in 1..Len(t) /\ 2 = 1 + 1
      BY <2>1
    <3>2. QED BY <3>1, HeadTailProperties DEF t, ObjectInv
  <2>3. Rest' = IF Old(payloads[2]) THEN <<>> ELSE payloads[2]
    BY <1>3, <2>1, <2>2 DEF Rest, t
  <2>4. CASE Old(payloads[1])
    <3>1. Old(payloads[2])
      BY <1>5, <2>4 DEF PayloadsInv, n
    <3>2. Rest = <<>>
      BY <2>4 DEF Rest
    <3>3. QED BY <1>1, <1>2, <2>3, <2>4, <3>1, <3>2 DEF h
  <2>5. CASE ~Old(payloads[1])
    <3>1. Rest = IF Old(payloads[2]) THEN payloads[1] ELSE payloads[1] \o payloads[2]
      BY <1>5, <2>5 DEF Rest, n
    <3>2. Joined(h, Rest', Rest)
      BY <1>1, <1>2, <2>3, <3>1, ConcatEmptySeq DEF Joined
    <3>3. Rest' \in Seq(Positions)
      BY <1>2, <1>5, <2>3
    <3>4. QED BY <1>1, <1>2, <2>5, <3>2, <3>3 DEF h
  <2>6. QED BY <2>4, <2>5
<1>6. QED BY <1>1, <1>4, <1>5

\* The next payload, of the present session, goes to the reassembler.
LEMMA FeedStep ==
  ASSUME ObjectInv, PayloadsInv, LoopType, FrameInv, Feed, ~Old(payloads[1])
  PROVE  FrameInv'
<1> DEFINE q == reassembler.pending
           h == Head(payloads)
<1>1. /\ payloads # <<>> /\ payloads' = Tail(payloads) /\ UNCHANGED session
      /\ reassembler' = [reassembler EXCEPT !.pending = q \o h]
      /\ UNCHANGED <<sent, got, audio>>
  BY DEF Feed, ObjectInv, Objects, Reassemblers
<1>2. /\ reassembler'.id = reassembler.id /\ reassembler'.session = reassembler.session
      /\ reassembler'.head = reassembler.head /\ reassembler'.remaining = reassembler.remaining
      /\ reassembler'.buf = reassembler.buf /\ reassembler'.pending = q \o h
  BY <1>1 DEF ObjectInv, Objects, Reassemblers
<1>3. /\ h = payloads[1] /\ h \in Seq(Positions) /\ Rest' \in Seq(Positions)
      /\ Joined(h, Rest', Rest)
  BY <1>1, FeedRest
<1>4. ~FallsInto
  BY <1>3 DEF FallsInto, Old
<1>5. UNCHANGED <<safe, broken>>
  <2>1. broken' = (broken \/ FallsInto) /\ safe' = safe
    BY <1>4 DEF Feed
  <2>2. broken \in BOOLEAN
    BY DEF LoopType
  <2>3. QED BY <1>4, <2>1, <2>2
<1>6. Unread' = Unread
  <2> DEFINE t == Rest'
  <2>1. h \o t = Rest /\ q \in Seq(Positions)
    BY <1>3, UnreadType DEF Joined
  <2>2. q \in Seq(Positions) /\ h \in Seq(Positions) /\ t \in Seq(Positions)
    BY <1>3, <2>1
  <2> HIDE DEF q, t, h
  <2>3. Joined(q \o h, t, q \o (h \o t))
    BY <2>2, ConcatAssociative DEF Joined
  <2>4. Unread' = (q \o h) \o t
    BY <1>2 DEF Unread, t
  <2>5. QED BY <2>1, <2>3, <2>4 DEF Unread, Joined, q
<1>7. QED BY <1>1, <1>2, <1>5, <1>6, FrameStays

\* The next payload is one of an old session: if it comes between two frames, it is skipped.
LEMMA OldFeedStep ==
  ASSUME ObjectInv, PayloadsInv, PendingInv, LoopType, FrameInv, Feed, Old(payloads[1])
  PROVE  FrameInv'
<1> DEFINE q == reassembler.pending
           h == Head(payloads)
           rem == reassembler.remaining
<1>1. /\ payloads # <<>> /\ payloads' = Tail(payloads) /\ UNCHANGED session /\ ~feeding
      /\ reassembler' = [reassembler EXCEPT !.pending = q \o h]
      /\ broken' = (broken \/ FallsInto)
      /\ safe' = IF FallsInto THEN Greater(safe, sent + rem) ELSE safe
      /\ UNCHANGED <<sent, got, audio>>
  BY DEF Feed, ObjectInv, Objects, Reassemblers
<1>2. /\ reassembler'.id = reassembler.id /\ reassembler'.session = reassembler.session
      /\ reassembler'.head = reassembler.head /\ reassembler'.remaining = rem
      /\ reassembler'.buf = reassembler.buf /\ reassembler'.pending = q \o h
  BY <1>1 DEF ObjectInv, Objects, Reassemblers
<1>3. /\ h = payloads[1] /\ h \in Seq(Positions) /\ Piece(h)
      /\ Rest = <<>> /\ Rest' = <<>>
  BY <1>1, FeedRest
<1>4. /\ q \in Seq(Positions) /\ Len(q) \in Nat /\ Len(q) < HeaderSize /\ Unread = q
      /\ rem > 0 => Len(q) = 0
      /\ rem \in Nat /\ sent \in Nat /\ safe \in Nat /\ HeaderSize \in Nat
  BY <1>1, <1>3, UnreadType, ReassemblerTypes, ConcatEmptySeq
  DEF PendingInv, Drained, Unread, LoopType
<1>5. /\ h # <<>> /\ \A i \in 1..Len(h) : h[i].session # session
  BY <1>3 DEF Piece, Old
<1> HIDE DEF q, h, rem
<1>6. Unread' = q \o h /\ q \o h \in Seq(Positions) /\ Len(q \o h) \in Nat
  <2>1. q \o h \in Seq(Positions)
    BY <1>3, <1>4, ConcatProperties
  <2>2. QED BY <1>2, <1>3, <2>1, ConcatEmptySeq, LenProperties DEF Unread
<1>7. Stretch(Unread', Len(Unread'), session', sent')
  BY <1>1, <1>3, <1>4, <1>5, <1>6, StretchOld
<1>8. PICK j \in 0..Len(q), p \in Int : Aligned(j, p)
  BY <1>4 DEF FrameInv, AlignInv
<1>9. p = sent - Len(q) + j /\ Placed(p) /\ p <= sent
  BY <1>4, <1>8 DEF Aligned
<1>0. PICK x \in Int : x = sent
  BY <1>4
<1>10. Placed(x)' /\ (rem > 0 => Torn(x)')
  <2>1. CASE ~FallsInto
    <3>1. rem = 0 /\ \A i \in 1..Len(q) : q[i].session # session
      <4>1. h[1].session # session
        BY <1>3 DEF Old
      <4>2. ~(rem > 0) /\ \A i \in DOMAIN q : q[i].session # session
        BY <2>1, <4>1 DEF FallsInto, h, q, rem
      <4>3. QED BY <1>4, <4>2, LenProperties
    <3>2. j = Len(q)
      <4>1. SUFFICES ASSUME j # Len(q) PROVE FALSE
        OBVIOUS
      <4>2. Len(q) \in (j + 1)..Len(q) /\ Len(q) \in 1..Len(q)
        BY <1>4, <1>8, <4>1
      <4>3. q[Len(q)].session = session
        BY <1>4, <1>8, <4>2, ByteFields DEF Aligned, Stretch
      <4>4. QED BY <3>1, <4>2, <4>3
    <3>3. p = x
      BY <1>0, <1>4, <1>9, <3>2
    <3>4. UNCHANGED <<session, got, safe, broken, audio>>
      BY <1>1, <2>1 DEF LoopType
    <3>5. Placed(p)'
      BY <1>2, <1>9, <3>4, PlacedStays DEF rem
    <3>6. QED BY <3>1, <3>3, <3>5
  <2>2. CASE FallsInto
    <3>1. /\ broken' /\ safe' \in Nat /\ x + rem <= safe'
      <4>1. broken' /\ safe' = Greater(safe, sent + rem)
        BY <1>1, <2>2
      <4>2. sent + rem \in Nat
        BY <1>4
      <4>3. QED BY <1>0, <1>4, <4>1, <4>2 DEF Greater
    <3>2. HeadAt(p)
      BY <1>9 DEF Placed
    <3>3. reassembler.head # 0 =>
            /\ Start[reassembler.head] \in Nat /\ Start[reassembler.head] + HeaderSize <= x
            /\ Start[reassembler.head] < safe'
      <4>1. reassembler.head # 0 =>
              Start[reassembler.head] \in Nat /\ Start[reassembler.head] + HeaderSize <= p
        BY <3>2, ReassemblerTypes DEF HeadAt
      <4>2. HeaderSize > 0
        BY ReassemblerTypes
      <4>3. QED BY <1>0, <1>4, <1>9, <3>1, <4>1, <4>2
    <3>4. rem > 0 => reassembler.head # 0
      BY <3>2 DEF HeadAt, rem
    <3>5. rem > 0 => Torn(x)'
      BY <1>1, <1>2, <3>1, <3>3, <3>4 DEF Torn
    <3>6. HeadAt(x)'
      BY <1>1, <1>2, <3>3, <3>4, <3>5 DEF HeadAt
    <3>7. Coverage(x)'
      <4>1. ASSUME NEW f \in Frames, Start[f] >= safe' PROVE Start[f] >= x + rem
        <5>1. Start[f] \in Nat
          BY ReassemblerTypes
        <5>2. QED BY <1>0, <1>4, <3>1, <4>1, <5>1
      <4>2. QED BY <1>1, <1>2, <4>1 DEF Coverage, Coming
    <3>8. Ready(x)'
      BY <3>1 DEF Ready
    <3>9. QED BY <3>5, <3>6, <3>7, <3>8 DEF Placed
  <2>3. QED BY <2>1, <2>2
<1>11. AlignInv'
  <2>1. Len(Unread') \in 0..Len(Unread') /\ x = sent' - Len(Unread') + Len(Unread')
    <3>1. PICK l \in Nat : l = Len(Unread')
      BY <1>6
    <3>2. l \in 0..l /\ x = sent' - l + l
      BY <1>0, <1>1
    <3>3. QED BY <3>1, <3>2
  <2>2. reassembler'.remaining > 0 => Torn(x)'
    BY <1>2, <1>10
  <2>3. QED BY <1>7, <1>10, <2>1, <2>2, AlignedNext
<1>12. UnreadInv'
  <2>1. \A i \in 1..(Len(q) + Len(h)) : (q \o h)[i] = IF i <= Len(q) THEN q[i] ELSE h[i - Len(q)]
    BY <1>3, <1>4, ConcatProperties
  <2>2. Len(q \o h) = Len(q) + Len(h) /\ Len(h) \in Nat
    BY <1>3, <1>4, ConcatProperties
  <2>3. ASSUME NEW i \in 1..Len(Unread'), Unread'[i].session = session
        PROVE  Unread'[i].pos < sent
    <3>1. i \in 1..(Len(q) + Len(h)) /\ Unread'[i] = (q \o h)[i]
      BY <1>6, <2>2
    <3>2. CASE i <= Len(q)
      <4>1. i \in 1..Len(q) /\ Unread'[i] = q[i]
        BY <1>4, <2>1, <3>1, <3>2
      <4>2. QED BY <1>4, <2>3, <4>1 DEF FrameInv, UnreadInv
    <3>3. CASE ~(i <= Len(q))
      <4>1. i - Len(q) \in 1..Len(h) /\ Unread'[i] = h[i - Len(q)]
        BY <1>4, <2>1, <2>2, <3>1, <3>3
      <4>2. QED BY <1>5, <2>3, <4>1
    <3>4. QED BY <3>2, <3>3
  <2>4. QED BY <1>1, <1>2, <2>3 DEF FrameInv, UnreadInv, audio
<1>13. GotInv'
  <2>1. \A i \in DOMAIN got : Start[got[i].frame] >= safe' => Start[got[i].frame] >= safe
    <3>1. TAKE i \in DOMAIN got
    <3>2. Start[got[i].frame] \in Nat
      BY GotTypes
    <3>3. safe' \in Nat /\ safe <= safe'
      BY <1>1, <1>4 DEF Greater
    <3>4. QED BY <1>4, <3>2, <3>3
  <2>2. QED BY <1>1, <1>2, <2>1 DEF FrameInv, GotInv, rem
<1>14. QED BY <1>1, <1>11, <1>12, <1>13 DEF FrameInv, OffInv, audio

\* The generator goes on with a reassembler that has been replaced.
LEMMA OldStep ==
  ASSUME ObjectInv, PayloadsInv, FrameInv, left # <<>>,
         Resync \/ ReadHeader \/ ReadPart \/ AudioFrame \/ VideoFrame
  PROVE  FrameInv'
<1>1. UNCHANGED <<session, sent, payloads, reassembler, got, safe, broken>>
  BY DEF Resync, ReadHeader, ReadPart, AudioFrame, VideoFrame, Becomes, Noted
<1>2. UNCHANGED audio \/ (crossed' /\ adpcm_owner' = reassembler.id)
  <2>1. CASE AudioFrame
    BY <2>1 DEF AudioFrame, Decode, DecodeFrame
  <2>2. CASE Resync \/ ReadHeader \/ ReadPart \/ VideoFrame
    BY <2>2 DEF Resync, ReadHeader, ReadPart, VideoFrame
  <2>3. QED BY <2>1, <2>2
<1>3. Unread' = Unread
  BY <1>1 DEF Unread, Rest, Old
<1>4. QED BY <1>1, <1>2, <1>3, FrameStays

LEMMA FrameInit == Init => FrameInv
<1> SUFFICES ASSUME Init PROVE FrameInv
  OBVIOUS
<1>1. /\ session = 1 /\ sent = 0 /\ payloads = <<>> /\ got = <<>> /\ safe = 0
      /\ adpcm_owner = 0 /\ ~offkey /\ reassembler.session = 1 /\ reassembler.id = 1
      /\ reassembler.head = 0 /\ reassembler.remaining = 0 /\ reassembler.pending = <<>>
  BY DEF Init, FrameReassembler
<1>2. Unread = <<>>
  BY <1>1 DEF Unread, Rest
<1>3. Len(Unread) = 0
  BY <1>2
<1>4. UnreadInv
  BY <1>1, <1>3 DEF UnreadInv
<1>5. Placed(0)
  <2>1. HeadAt(0)
    BY <1>1 DEF HeadAt
  <2>2. Coverage(0)
    <3>1. \A f \in Frames : Start[f] >= 0 + 0
      BY StartNext
    <3>2. QED BY <1>1, <3>1 DEF Coverage, Coming
  <2>3. Ready(0)
    BY <1>1 DEF Ready
  <2>4. QED BY <2>1, <2>2, <2>3 DEF Placed
<1>6. AlignInv
  <2>1. Stretch(Unread, 0, session, sent)
    BY <1>3 DEF Stretch
  <2>2. Aligned(0, 0)
    BY <1>1, <1>3, <1>5, <2>1 DEF Aligned
  <2>3. 0 \in 0..Len(Unread) /\ 0 \in Int
    BY <1>3
  <2>4. QED BY <2>2, <2>3 DEF AlignInv
<1>7. GotInv /\ OffInv
  BY <1>1 DEF GotInv, OffInv
<1>8. QED BY <1>4, <1>6, <1>7 DEF FrameInv

LEMMA FrameKeeps ==
  ASSUME ObjectInv, PayloadsInv, PendingInv, LoopType, FrameInv, [Next]_vars
  PROVE  FrameInv'
<1>0. ObjectInv' /\ PayloadsInv'
  BY ReassembleKeeps, ArrivalKeeps, PayloadsKeep
<1>1. CASE left # <<>> /\ (Resync \/ ReadHeader \/ ReadPart \/ AudioFrame \/ VideoFrame)
  BY <1>1, OldStep
<1>2. CASE Resync /\ left = <<>>
  BY <1>2, ResyncStep
<1>3. CASE ReadHeader /\ left = <<>>
  BY <1>3, HeaderStep
<1>4. CASE ReadPart /\ left = <<>>
  BY <1>4, ReadPartStep
<1>5. CASE AudioFrame /\ left = <<>>
  <2>1. PICK r \in {TakePart(Running)} :
          /\ Yields(r) /\ Becomes(r) /\ got' = Noted(r)
          /\ IF Script[r.head].kind = "adpcm" THEN DecodeFrame(r) ELSE UNCHANGED audio
          /\ UNCHANGED <<session, sent, payloads, safe, broken>>
    BY <1>5 DEF AudioFrame, Decode
  <2>2. QED BY <1>5, <2>1, YieldStep
<1>6. CASE VideoFrame /\ left = <<>>
  <2>1. PICK r \in {TakePart(Running)} :
          /\ Yields(r) /\ Becomes(r) /\ got' = Noted(r) /\ Script[r.head].kind = "video"
          /\ UNCHANGED <<session, sent, payloads, audio, safe, broken>>
    BY <1>6 DEF VideoFrame
  <2>2. Script[r.head].kind # "adpcm"
    BY <2>1
  <2>3. QED BY <1>6, <2>1, <2>2, YieldStep
<1>7. CASE StuckEncoder \/ StreamEnd \/ StallReconnect
  <2>1. NewSession /\ StartOver(session', 0) /\ UNCHANGED <<payloads, audio>>
    BY <1>7 DEF StuckEncoder, StreamEnd, StallReconnect
  <2>2. QED BY <2>1, NewSessionStep
<1>8. CASE ClientStarts
  BY <1>8, ClientStartsStep
<1>9. ASSUME NEW n \in 0..StreamSize, NEW k \in 0..StreamSize, Receive(n, k) PROVE FrameInv'
  <2>1. PICK c \in Nat : c = n + k
    OBVIOUS
  <2>2. /\ payloads = <<>> /\ sent' = sent + c
        /\ UNCHANGED <<session, reassembler, left, audio, got, safe, broken>>
    BY <1>9, <2>1, ReassemblerTypes DEF Receive, Waiting
  <2>3. Rest' = Bytes(session, sent, c)
    BY <1>9, <2>1, ReceivedRest
  <2>4. QED BY <2>1, <2>2, <2>3, <1>0, ReceiveStep
<1>14. ASSUME NEW n \in 1..StreamSize, NEW m \in OldSizes, ReceiveOld(n, m) PROVE FrameInv'
  <2>1. /\ n \in Nat /\ payloads = <<>> /\ sent' = sent + n
        /\ UNCHANGED <<session, reassembler, left, audio, got, safe, broken>>
    BY <1>14 DEF ReceiveOld, Waiting
  <2>2. Rest' = Bytes(session, sent, n)
    BY <1>14, ReceivedOldRest
  <2>3. QED BY <2>1, <2>2, <1>0, ReceiveStep
<1>10. ASSUME NEW n \in 1..StreamSize, Lose(n) PROVE FrameInv'
  BY <1>10, LoseStep
<1>11. CASE Feed
  BY <1>11, FeedStep, OldFeedStep
<1>12. CASE FeedDone \/ TalkStartsOrStops \/ UNCHANGED vars
  <2>1. UNCHANGED <<session, sent, payloads, reassembler, got, safe, broken, audio>>
    BY <1>12 DEF FeedDone, TalkStartsOrStops, vars
  <2>2. Unread' = Unread
    BY <2>1 DEF Unread, Rest, Old
  <2>3. QED BY <2>1, <2>2, FrameStays
<1>13. QED
  BY <1>1, <1>2, <1>3, <1>4, <1>5, <1>6, <1>7, <1>8, <1>9, <1>10, <1>11, <1>12,
     <1>14 DEF Next, Reassemble

LEMMA FrameHolds == Spec => [](ObjectInv /\ PayloadsInv /\ PendingInv /\ LoopType /\ FrameInv)
<1>1. ObjectInv /\ PayloadsInv /\ PendingInv /\ LoopType /\ FrameInv /\ [Next]_vars => FrameInv'
  BY FrameKeeps
<1>2. QED BY PayloadsHold, FrameInit, <1>1, PTL DEF Spec

-----------------------------------------------------------------------------
(* The theorems. *)

\* However the stream is cut into packets, the frames are yielded one by one and in the order
\* of the stream, and every one that begins where the stream is whole again, behind losses
\* and behind frames into which a payload of an old session fell, is intact.
THEOREM FramesComeInOrder == Spec => []FramesInOrder
<1>1. FrameInv => FramesInOrder
  BY DEF FrameInv, GotInv, FramesInOrder
<1>2. QED BY FrameHolds, <1>1, PTL

\* A frame that begins behind a loss or an old payload, and behind what the torn frame has
\* swallowed, is yielded as soon as its last byte has been fed.
THEOREM LossesAreLocal == Spec => []LossIsLocal
<1>1. ObjectInv /\ PayloadsInv /\ PendingInv /\ LoopType /\ FrameInv => LossIsLocal
  <2> SUFFICES ASSUME ObjectInv, PayloadsInv, PendingInv, LoopType, FrameInv, Waiting,
                      NEW f \in Frames, Size(f) > 0, Start[f] >= safe, Start[f + 1] <= sent
               PROVE  Has(f)
    BY DEF LossIsLocal, Has
  <2> DEFINE q == reassembler.pending
             rem == reassembler.remaining
  <2>1. /\ Unread = q /\ Len(q) \in Nat /\ Len(q) < HeaderSize
        /\ rem > 0 => Len(q) = 0
        /\ rem \in Nat /\ sent \in Nat /\ safe \in Nat
        /\ Start[f] \in Nat /\ Start[f + 1] = Start[f] + HeaderSize + Size(f)
        /\ Size(f) \in Nat /\ HeaderSize \in Nat
    BY WaitingUnread, UnreadType, ReassemblerTypes, StartNext
    DEF Waiting, PendingInv, Drained, LoopType
  <2>2. ~Has(f) => \E j \in 0..Len(q), p \in Int :
                     p = sent - Len(q) + j /\ HeadAt(p) /\ Coming(f, p)
    <3>1. PICK j \in 0..Len(Unread), p \in Int : Aligned(j, p)
      BY DEF FrameInv, AlignInv
    <3>2. QED BY <2>1, <3>1 DEF Aligned, Placed, Coverage
  <2>3. SUFFICES ASSUME NEW j \in 0..Len(q), NEW p \in Int, p = sent - Len(q) + j,
                        HeadAt(p), Coming(f, p)
                 PROVE  FALSE
    BY <2>2
  <2>4. CASE Start[f] >= p + rem
    <3> DEFINE l == Len(q)
    <3>1. l \in Nat /\ l < HeaderSize /\ j \in 0..l /\ p = sent - l + j
      BY <2>1, <2>3
    <3> HIDE DEF l, q
    <3>2. sent < Start[f] + HeaderSize
      BY <2>1, <2>4, <3>1
    <3>3. QED BY <2>1, <3>2
  <2>5. CASE rem > 0 /\ reassembler.head = f
    <3>1. p = sent
      BY <2>1, <2>3, <2>5
    <3>2. ~Torn(p)
      BY <2>1, <2>5 DEF Torn
    <3>3. p + rem = Start[f + 1]
      BY <2>3, <2>5, <3>2 DEF HeadAt, Clean
    <3>4. QED BY <2>1, <2>5, <3>1, <3>3
  <2>6. QED BY <2>3, <2>4, <2>5 DEF Coming
<1>2. QED BY FrameHolds, <1>1, PTL

\* Whatever is replaced, reconnected or muted: in a session without losses and without old
\* payloads in its frames, while no frame's end has been left out, a whole frame is decoded
\* out of step only after the audio of a replaced reassembler.
THEOREM DecoderStaysInStep == Spec => []DecoderInStepUnlessCrossed
<1>1. FrameInv => DecoderInStepUnlessCrossed
  BY DEF FrameInv, OffInv, DecoderInStepUnlessCrossed
<1>2. QED BY FrameHolds, <1>1, PTL
================================================================================
