----------------------------- MODULE ReorderBuffer -----------------------------
(***************************************************************************)
(* The receive side of the camera's audio/video channel: the sequence      *)
(* reordering of read_stream() in camera_session.py.  Each data packet     *)
(* carries a 16-bit sequence number.  _reorder_deliver() hands payloads to *)
(* the frame reassembler in sequence order, holds back what arrives early, *)
(* and gives up on a gap after a timeout or when its buffer is full.       *)
(*                                                                         *)
(* The camera numbers its packets 0, 1, 2, ... within a session: that      *)
(* number is a packet's index, and its sequence number is the index modulo *)
(* SeqMod.  A payload is identified by its session and index.  UDP may     *)
(* lose, repeat and reorder datagrams: any recent index may arrive at any  *)
(* time, any number of times, or never.                                    *)
(*                                                                         *)
(* The code keeps expected_data_seq, reorder_buffer and                    *)
(* last_seq_advance_time; everything else here is either the environment   *)
(* (session, top) or history that only the properties read.                *)
(***************************************************************************)
EXTENDS Integers, Sequences, FiniteSets, Functions

CONSTANTS
  Half,         \* half the sequence space: 0x8000 in the code
  MaxBuffer,    \* REORDER_MAX_BUFFER: 64 in the code
  MaxDelay,     \* how far behind the newest packet a late or repeated one may be
  StartIndexes, \* where the camera's numbering may stand when reading begins
  MaxPackets,   \* bound: indexes stay below it
  MaxSession,   \* bound: sessions stay at or below it
  MaxDelivered, \* bound: a reassembler that has been fed this much is fed no more
  StarveBound   \* bound: starved is counted up to it, 0 to count nothing

ASSUME ReorderAssumption ==
  /\ Half \in Nat \ {0}
  /\ MaxBuffer \in Nat \ {0} /\ MaxBuffer < Half
  /\ MaxDelay \in Nat /\ MaxDelay <= Half
  /\ MaxPackets \in Nat
  /\ StartIndexes \subseteq 0..MaxPackets
  /\ MaxSession \in Nat /\ MaxDelivered \in Nat /\ StarveBound \in Nat

SeqMod == 2 * Half

\* No packet has arrived since the last reset: expected_data_seq is None.
NoSeq == -1

VARIABLES
  expected,  \* expected_data_seq, or NoSeq
  buffer,    \* reorder_buffer: sequence number -> payload
  gapOld,    \* time.time() - last_seq_advance_time > REORDER_STALL_TIMEOUT
  delivered, \* what the current FrameReassembler has been fed, in order
  session,   \* the camera session the socket is in
  top,       \* one more than the newest index received in this session
  head,      \* history: the index that expected stands for, 0 once InSync is lost
  gaveUp,    \* history: a gap was skipped since the last reset
  leaked,    \* history: a packet has been left in buffer behind expected
  mixed,     \* history: the session changed and the buffer was not reset
  starved    \* history: new packets received since one was last delivered

codeVars == <<expected, buffer, gapOld, delivered>>
history  == <<head, gaveUp, leaked, mixed, starved>>
vars     == <<codeVars, session, top, history>>

Seqs == 0..(SeqMod - 1)

Packets == [session : 0..MaxSession, index : 0..(MaxPackets - 1)]

TypeOK ==
  /\ expected \in Seqs \cup {NoSeq}
  /\ DOMAIN buffer \subseteq Seqs
  /\ \A s \in DOMAIN buffer : buffer[s] \in Packets
  /\ Cardinality(DOMAIN buffer) <= MaxBuffer
  /\ delivered \in Seq(Packets)
  /\ session \in 0..MaxSession /\ top \in 0..MaxPackets
  /\ head \in Nat
  /\ gapOld \in BOOLEAN /\ gaveUp \in BOOLEAN
  /\ leaked \in BOOLEAN /\ mixed \in BOOLEAN
  /\ starved \in 0..StarveBound

-----------------------------------------------------------------------------
(* Sequence arithmetic. *)

SeqOf(i) == i % SeqMod

\* Mutant: the difference is not mapped to a signed range.
UnsignedDelta(a, b) == (a - b) % SeqMod

\* Mutant: the numbers are compared as if they never wrapped around.
PlainDelta(a, b) == a - b

\* How far a is ahead of b on the circle of sequence numbers.
SeqDelta(a, b) ==
  LET d == (a - b) % SeqMod
  IN  IF d >= Half THEN d - SeqMod ELSE d

-----------------------------------------------------------------------------
\* The cursor still stands for a known packet, and nothing is left behind it.
InSync == ~leaked /\ ~mixed

Tracked(x) == IF InSync THEN x ELSE 0

(* One call of _reorder_deliver for the packet with index i. *)

Received(i) == [session |-> session, index |-> i]

\* min(reorder_buffer.keys()): the smallest number, not the oldest packet.
LowestKey == CHOOSE s \in DOMAIN buffer : \A t \in DOMAIN buffer : s <= t

\* Mutant: one packet more than the cap is let in.
HasRoomOffByOne == Cardinality(DOMAIN buffer) <= MaxBuffer

HasRoom == Cardinality(DOMAIN buffer) < MaxBuffer

Skipping == gapOld /\ DOMAIN buffer # {}

\* What the call waits for once it has adopted a first packet or skipped a gap.
Cursor(i) ==
  CASE Skipping -> [seq |-> LowestKey, index |-> buffer[LowestKey].index]
    [] ~Skipping /\ expected = NoSeq -> [seq |-> SeqOf(i), index |-> i]
    [] OTHER -> [seq |-> expected, index |-> head]

\* The keys of a run of n buffered packets that directly follow sequence number s.
Run(s, n) == {SeqOf(s + k) : k \in 1..n}

\* Mutant: the cursor stops one short of what was delivered.
DeliverShort(i, c) ==
  \E n \in 0..Cardinality(DOMAIN buffer) :
    /\ Run(c.seq, n) \subseteq DOMAIN buffer
    /\ SeqOf(c.seq + n + 1) \notin DOMAIN buffer
    /\ delivered' = delivered \o <<Received(i)>>
                              \o [k \in 1..n |-> buffer[SeqOf(c.seq + k)]]
    /\ buffer' = Restrict(buffer, DOMAIN buffer \ Run(c.seq, n))
    /\ expected' = SeqOf(c.seq + n)
    /\ head' = Tracked(c.index + n)
    /\ gapOld' = FALSE
    /\ gaveUp' = (gaveUp \/ Skipping)
    /\ starved' = 0

\* delta = 0: the packet and the run of buffered packets right behind it are ready.
Deliver(i, c) ==
  \E n \in 0..Cardinality(DOMAIN buffer) :
    /\ Run(c.seq, n) \subseteq DOMAIN buffer
    /\ SeqOf(c.seq + n + 1) \notin DOMAIN buffer
    /\ delivered' = delivered \o <<Received(i)>>
                              \o [k \in 1..n |-> buffer[SeqOf(c.seq + k)]]
    /\ buffer' = Restrict(buffer, DOMAIN buffer \ Run(c.seq, n))
    /\ expected' = SeqOf(c.seq + n + 1)
    /\ head' = Tracked(c.index + n + 1)
    /\ gapOld' = FALSE
    /\ gaveUp' = (gaveUp \/ Skipping)
    /\ starved' = 0

Starve(i) ==
  starved' = IF i >= top /\ starved < StarveBound THEN starved + 1 ELSE starved

\* delta > 0 and there is room: keep the packet for later.
Hold(i, c) ==
  /\ buffer' = [s \in DOMAIN buffer \cup {SeqOf(i)} |->
                  IF s = SeqOf(i) THEN Received(i) ELSE buffer[s]]
  /\ expected' = c.seq /\ head' = Tracked(c.index)
  /\ gaveUp' = (gaveUp \/ Skipping)
  /\ Starve(i)
  /\ UNCHANGED <<gapOld, delivered>>

\* delta > 0 and the buffer is full: forget it and wait at this very packet.
JumpTo(i) ==
  /\ buffer' = [s \in {SeqOf(i)} |-> Received(i)]
  /\ expected' = SeqOf(i) /\ head' = Tracked(i)
  /\ gaveUp' = TRUE
  /\ Starve(i)
  /\ UNCHANGED <<gapOld, delivered>>

\* delta < 0: a duplicate of something delivered or skipped, as long as the cursor is one of
\* this session; behind a cursor of an older one, new packets come here too.
Drop(i, c) ==
  /\ expected' = c.seq /\ head' = Tracked(c.index)
  /\ gaveUp' = (gaveUp \/ Skipping)
  /\ Starve(i)
  /\ UNCHANGED <<gapOld, delivered, buffer>>

ReorderDeliver(i) ==
  LET c == Cursor(i)
      d == SeqDelta(SeqOf(i), c.seq)
  IN  \/ d = 0 /\ Deliver(i, c)
      \/ d > 0 /\ HasRoom /\ Hold(i, c)
      \/ d > 0 /\ ~HasRoom /\ JumpTo(i)
      \/ d < 0 /\ Drop(i, c)

-----------------------------------------------------------------------------
(* The read loop. *)

\* A datagram of the data channel arrives.  It is at most MaxDelay older than the
\* newest one, and fewer than Half packets ahead of the one waited for.
Receive(i) ==
  /\ i + MaxDelay >= top /\ Len(delivered) < MaxDelivered
  /\ InSync /\ expected # NoSeq => i - head < Half
  /\ ReorderDeliver(i)
  /\ top' = IF i >= top THEN i + 1 ELSE top
  /\ leaked' = (leaked \/ \E s \in DOMAIN buffer' : buffer'[s].index < head')
  /\ UNCHANGED <<session, mixed>>

\* More than REORDER_STALL_TIMEOUT passes without expected_data_seq moving on.
TimePasses ==
  /\ gapOld' = TRUE
  /\ UNCHANGED <<expected, buffer, delivered, session, top, history>>

\* Mutant: reorder_buffer is not cleared.
StartOverKeepsBuffer ==
  /\ expected' = NoSeq /\ gapOld' = FALSE
  /\ delivered' = <<>>
  /\ gaveUp' = FALSE /\ leaked' = FALSE /\ mixed' = FALSE
  /\ head' = 0 /\ starved' = 0
  /\ UNCHANGED buffer

\* A new FrameReassembler and a reset of the reordering state.
StartOver ==
  /\ expected' = NoSeq /\ buffer' = <<>> /\ gapOld' = FALSE
  /\ delivered' = <<>>
  /\ gaveUp' = FALSE /\ leaked' = FALSE /\ mixed' = FALSE
  /\ head' = 0 /\ starved' = 0

\* _on_client_connect starts the stream again within the same session.
ClientStart == StartOver /\ UNCHANGED <<session, top>>

NewSession ==
  /\ session < MaxSession
  /\ session' = session + 1
  /\ top' \in StartIndexes

\* The camera ended the session, or its encoder is stuck.
Reconnect == NewSession /\ StartOver

\* No video for three checks in a row: reconnect and replace the reassembler only.  The
\* cursor and the held packets of the old session stay.
StallReconnect ==
  /\ NewSession
  /\ delivered' = <<>>
  /\ mixed' = TRUE /\ starved' = 0
  /\ UNCHANGED <<expected, buffer, gapOld, head, gaveUp, leaked>>

Init ==
  /\ expected = NoSeq /\ buffer = <<>> /\ gapOld = FALSE
  /\ delivered = <<>>
  /\ session = 0 /\ top \in StartIndexes
  /\ head = 0 /\ gaveUp = FALSE /\ leaked = FALSE /\ mixed = FALSE
  /\ starved = 0

Next ==
  \/ \E i \in 0..(MaxPackets - 1) : Receive(i)
  \/ TimePasses
  \/ ClientStart
  \/ Reconnect
  \/ StallReconnect

Spec == Init /\ [][Next]_vars

-----------------------------------------------------------------------------
(* Properties. *)

\* The reassembler is never fed a packet twice or out of order, across wrap-around of
\* the sequence number, skipped gaps and overflows, as long as no packet has been left
\* behind in the buffer and no reconnect has skipped the reset.
InOrder ==
  InSync => \A j, k \in DOMAIN delivered :
              j < k => delivered[j].index < delivered[k].index

\* Unless a gap was given up, the reassembler has been fed every packet from the first
\* one on: reordering, repetition and late retransmission leave no hole in the stream.
NoHole ==
  ~gaveUp /\ ~mixed =>
    \A k \in 1..(Len(delivered) - 1) :
      delivered[k + 1].index = delivered[k].index + 1

\* A packet stays behind in the buffer, where it holds one of the places for good, only
\* after a gap was given up: ordinary delivery leaves nothing behind.
LeakNeedsGiveUp == leaked /\ ~mixed => gaveUp

\* The comments on the timeout and the overflow: a gap never holds up the video forever.
\* StarveBound new packets (several times what the buffer holds) do not arrive with
\* none delivered.
NoEndlessStall == starved < StarveBound

\* As long as no gap was given up and no reconnect has kept the cursor of another session,
\* new packets that bring no delivery are at most as many as the buffer holds: they wait for
\* one that is missing, whatever wraps around, comes late or comes again.
StallNeedsCause == starved > MaxBuffer => gaveUp \/ mixed

\* What an abandoned session left in the buffer reaches the new session's reassembler
\* through one door only, the reconnect after three stalls: the other resets leave nothing
\* behind, wherever they fall between an early packet and the one it waits for.
OneSession == ~mixed => \A k \in DOMAIN delivered : delivered[k].session = session
=============================================================================
