-------------------------- MODULE ReorderBufferProofs --------------------------
(***************************************************************************)
(* Proofs about ReorderBuffer, for every size of the sequence space, of    *)
(* the buffer and of the network's delay:                                  *)
(*   - its type invariant, with the bound on the buffer;                   *)
(*   - InOrder, NoHole and LeakNeedsGiveUp, from one inductive invariant;  *)
(*   - StallNeedsCause, which adds how many packets wait, and OneSession.  *)
(* The arithmetic of sequence numbers comes first: for packets less than   *)
(* half a lap apart, SeqDelta is the difference of their indexes.          *)
(***************************************************************************)
EXTENDS ReorderBuffer, FiniteSetTheorems, WellFoundedInduction,
        NaturalsInduction, TLAPS

-----------------------------------------------------------------------------
(* Arithmetic modulo SeqMod. *)

\* Division with remainder: every integer is a multiple of m plus its residue.
LEMMA DivMod ==
  ASSUME NEW m \in Nat \ {0}, NEW a \in Int
  PROVE  \E q \in Int, r \in 0..(m - 1) : a = m * q + r /\ a % m = r
<1>1. a \div m \in Int /\ a % m \in 0..(m - 1) /\ a = m * (a \div m) + (a % m)
  BY SMT
<1>2. QED BY <1>1

\* A remainder in range is the residue.
LEMMA ModIs ==
  ASSUME NEW m \in Nat \ {0}, NEW q \in Int, NEW r \in 0..(m - 1)
  PROVE  (m * q + r) % m = r
  BY SMT

\* Multiplication by m distributes over sums and differences.
LEMMA Distribute ==
  ASSUME NEW m \in Int, NEW p \in Int, NEW q \in Int
  PROVE  /\ m * (p + q) = m * p + m * q
         /\ m * (p - q) = m * p - m * q
         /\ m * p \in Int
  BY SMT

\* Adding a multiple of m leaves the residue alone.
LEMMA ModPlus ==
  ASSUME NEW m \in Nat \ {0}, NEW b \in Int, NEW k \in Int
  PROVE  (m * k + b) % m = b % m
<1>1. PICK q \in Int, r \in 0..(m - 1) : b = m * q + r /\ b % m = r
  BY DivMod
<1>2. m * k + b = m * (k + q) + r
  BY <1>1, Distribute
<1>3. k + q \in Int
  OBVIOUS
<1>4. QED BY <1>1, <1>2, <1>3, ModIs

\* The only multiple of m strictly between -m and m is 0.
LEMMA SmallMultiple ==
  ASSUME NEW m \in Nat \ {0}, NEW q \in Int, -m < m * q, m * q < m
  PROVE  q = 0
  BY SMT

\* The sequence space is not empty, and its size is twice Half.
LEMMA SeqModNat ==
  /\ SeqMod \in Nat \ {0} /\ SeqMod = 2 * Half
  /\ Half \in Nat \ {0} /\ MaxBuffer \in Nat \ {0} /\ MaxBuffer < Half
  /\ MaxDelay \in Nat /\ MaxDelay <= Half /\ MaxPackets \in Nat
  BY ReorderAssumption DEF SeqMod

\* SeqOf yields a sequence number.
LEMMA SeqOfType ==
  ASSUME NEW a \in Int
  PROVE  SeqOf(a) \in Seqs
<1>1. PICK q \in Int, r \in 0..(SeqMod - 1) : a % SeqMod = r
  BY SeqModNat, DivMod
<1>2. QED BY <1>1 DEF SeqOf, Seqs

\* Two packets less than a lap apart with the same sequence number are the same.
LEMMA SameSeq ==
  ASSUME NEW a \in Int, NEW b \in Int,
         SeqOf(a) = SeqOf(b), a - b < SeqMod, b - a < SeqMod
  PROVE  a = b
<1>1. PICK p \in Int, r \in 0..(SeqMod - 1) : a = SeqMod * p + r /\ SeqOf(a) = r
  BY SeqModNat, DivMod DEF SeqOf
<1>2. PICK q \in Int, t \in 0..(SeqMod - 1) : b = SeqMod * q + t /\ SeqOf(b) = t
  BY SeqModNat, DivMod DEF SeqOf
<1>3. a - b = SeqMod * (p - q)
  BY <1>1, <1>2, SeqModNat, Distribute
<1>4. p - q = 0
  BY <1>3, SeqModNat, SmallMultiple
<1>5. QED BY <1>1, <1>2, <1>4

\* Counting on from a sequence number is counting on from the index.
LEMMA SeqOfPlus ==
  ASSUME NEW a \in Int, NEW k \in Int
  PROVE  SeqOf(SeqOf(a) + k) = SeqOf(a + k)
<1>1. PICK p \in Int, r \in 0..(SeqMod - 1) : a = SeqMod * p + r /\ SeqOf(a) = r
  BY SeqModNat, DivMod DEF SeqOf
<1>2. a + k = SeqMod * p + (r + k)
  BY <1>1, SeqModNat, Distribute
<1>3. (SeqMod * p + (r + k)) % SeqMod = (r + k) % SeqMod
  <2>1. r + k \in Int /\ SeqMod \in Nat \ {0}
    BY SeqModNat
  <2>2. QED BY <2>1, ModPlus
<1>4. QED BY <1>1, <1>2, <1>3 DEF SeqOf

\* Within half a lap, SeqDelta is the signed distance between two packets.
LEMMA SeqDeltaIs ==
  ASSUME NEW a \in Int, NEW b \in Int, a - b < Half, b - a <= Half
  PROVE  SeqDelta(SeqOf(a), SeqOf(b)) = a - b
<1>1. PICK p \in Int, r \in 0..(SeqMod - 1) : a = SeqMod * p + r /\ SeqOf(a) = r
  BY SeqModNat, DivMod DEF SeqOf
<1>2. PICK q \in Int, t \in 0..(SeqMod - 1) : b = SeqMod * q + t /\ SeqOf(b) = t
  BY SeqModNat, DivMod DEF SeqOf
<1>3. r - t = SeqMod * (q - p) + (a - b)
  BY <1>1, <1>2, SeqModNat, Distribute
<1>4. (r - t) % SeqMod = (a - b) % SeqMod
  <2>1. a - b \in Int /\ q - p \in Int /\ SeqMod \in Nat \ {0}
    BY SeqModNat
  <2>2. QED BY <1>3, <2>1, ModPlus, ZenonT(30)
<1>5. CASE a >= b
  <2>1. a - b \in 0..(SeqMod - 1) /\ a - b = SeqMod * 0 + (a - b)
    BY <1>5, SeqModNat
  <2>2. (a - b) % SeqMod = a - b
    BY <2>1, SeqModNat, ModIs
  <2>3. ~(a - b >= Half)
    BY SeqModNat
  <2>4. QED BY <1>1, <1>2, <1>4, <2>2, <2>3 DEF SeqDelta
<1>6. CASE a < b
  <2>1. /\ a - b + SeqMod \in 0..(SeqMod - 1)
        /\ a - b = SeqMod * (-1) + (a - b + SeqMod)
    BY <1>6, SeqModNat
  <2>2. (a - b) % SeqMod = a - b + SeqMod
    BY <2>1, SeqModNat, ModIs
  <2>3. a - b + SeqMod >= Half
    BY SeqModNat
  <2>4. QED BY <1>1, <1>2, <1>4, <2>2, <2>3, SeqModNat DEF SeqDelta
<1>7. QED BY <1>5, <1>6

-----------------------------------------------------------------------------
(* Type correctness. *)

\* A set of sequence numbers that is not empty has a smallest element.
LEMMA SmallestSeq ==
  ASSUME NEW S, S \subseteq Seqs, S # {}
  PROVE  \E s \in S : \A t \in S : s <= t
<1>1. S \subseteq Nat
  BY SeqModNat DEF Seqs
<1>2. PICK s \in S : \A t \in S : ~(<<t, s>> \in OpToRel(<, Nat))
  BY <1>1, NatLessThanWellFounded, WFMin
<1>3. \A t \in S : ~(t < s)
  BY <1>1, <1>2 DEF OpToRel
<1>4. QED BY <1>1, <1>3

\* While packets are buffered, LowestKey is the key of one of them.
LEMMA LowestKeyIn ==
  ASSUME TypeOK, DOMAIN buffer # {}
  PROVE  LowestKey \in DOMAIN buffer
<1>1. \E s \in DOMAIN buffer : \A t \in DOMAIN buffer : s <= t
  BY SmallestSeq DEF TypeOK
<1>2. QED BY <1>1 DEF LowestKey

\* The keys of the buffer are a finite set.
LEMMA BufferFinite ==
  ASSUME TypeOK
  PROVE  IsFiniteSet(DOMAIN buffer) /\ Cardinality(DOMAIN buffer) \in Nat
<1>1. IsFiniteSet(Seqs)
  BY SeqModNat, FS_Interval DEF Seqs
<1>2. DOMAIN buffer \subseteq Seqs
  BY DEF TypeOK
<1>3. QED BY <1>1, <1>2, FS_Subset, FS_CardinalityType

\* The cursor is a sequence number and an index.
LEMMA CursorType ==
  ASSUME TypeOK, NEW i \in 0..(MaxPackets - 1)
  PROVE  Cursor(i).seq \in Seqs /\ Cursor(i).index \in Nat
<1>1. CASE Skipping
  <2>1. LowestKey \in DOMAIN buffer
    BY <1>1, LowestKeyIn DEF Skipping
  <2>2. LowestKey \in Seqs /\ buffer[LowestKey].index \in Nat
    BY <2>1, SeqModNat DEF TypeOK, Packets
  <2>3. QED BY <1>1, <2>2 DEF Cursor
<1>2. CASE ~Skipping /\ expected = NoSeq
  BY <1>2, SeqOfType, SeqModNat DEF Cursor
<1>3. CASE ~Skipping /\ expected # NoSeq
  <2>1. Cursor(i) = [seq |-> expected, index |-> head]
    BY <1>3 DEF Cursor
  <2>2. QED BY <1>3, <2>1 DEF TypeOK
<1>4. QED BY <1>1, <1>2, <1>3

\* The packet that arrives is a packet of the current session.
LEMMA ReceivedType ==
  ASSUME TypeOK, NEW i \in 0..(MaxPackets - 1)
  PROVE  Received(i) \in Packets
  BY DEF Received, TypeOK, Packets

\* The part of TypeOK that _reorder_deliver is responsible for.
BufferOK ==
  /\ expected \in Seqs \cup {NoSeq}
  /\ DOMAIN buffer \subseteq Seqs
  /\ \A s \in DOMAIN buffer : buffer[s] \in Packets
  /\ Cardinality(DOMAIN buffer) <= MaxBuffer
  /\ delivered \in Seq(Packets)
  /\ head \in Nat
  /\ gapOld \in BOOLEAN /\ gaveUp \in BOOLEAN
  /\ starved \in 0..StarveBound

\* Counting an undelivered packet keeps the count within its bound.
LEMMA StarveType ==
  ASSUME TypeOK, NEW i, Starve(i)
  PROVE  starved' \in 0..StarveBound
  BY ReorderAssumption DEF Starve, TypeOK

\* A call that holds the packet back keeps the types, and the buffer within its cap.
LEMMA HoldType ==
  ASSUME TypeOK, NEW i \in 0..(MaxPackets - 1), NEW c,
         c.seq \in Seqs, c.index \in Nat, HasRoom, Hold(i, c)
  PROVE  BufferOK'
<1>1. DOMAIN buffer' = DOMAIN buffer \cup {SeqOf(i)}
  BY DEF Hold
<1>2. DOMAIN buffer' \subseteq Seqs
  BY <1>1, SeqOfType, SeqModNat DEF TypeOK
<1>3. \A s \in DOMAIN buffer' : buffer'[s] \in Packets
  BY ReceivedType DEF Hold, TypeOK
<1>4. Cardinality(DOMAIN buffer') <= MaxBuffer
  <2>1. IsFiniteSet(DOMAIN buffer) /\ Cardinality(DOMAIN buffer) \in Nat
    BY BufferFinite
  <2>2. /\ Cardinality(DOMAIN buffer \cup {SeqOf(i)}) \in Nat
        /\ Cardinality(DOMAIN buffer \cup {SeqOf(i)}) <= Cardinality(DOMAIN buffer) + 1
    BY <2>1, FS_AddElement
  <2>3. Cardinality(DOMAIN buffer) < MaxBuffer
    BY DEF HasRoom
  <2>4. Cardinality(DOMAIN buffer \cup {SeqOf(i)}) <= MaxBuffer
    BY <2>1, <2>2, <2>3, SeqModNat
  <2>5. QED BY <1>1, <2>4
<1>5. starved' \in 0..StarveBound
  BY StarveType DEF Hold
<1>6. /\ expected' \in Seqs \cup {NoSeq} /\ head' \in Nat
      /\ delivered' \in Seq(Packets)
  BY DEF Hold, Tracked, TypeOK
<1>7. gapOld' \in BOOLEAN /\ gaveUp' \in BOOLEAN
  BY DEF Hold, TypeOK, Skipping
<1>8. QED BY <1>2, <1>3, <1>4, <1>5, <1>6, <1>7 DEF BufferOK

\* So does a call that forgets the buffer and waits at the packet.
LEMMA JumpType ==
  ASSUME TypeOK, NEW i \in 0..(MaxPackets - 1), JumpTo(i)
  PROVE  BufferOK'
<1>1. DOMAIN buffer' = {SeqOf(i)}
  BY DEF JumpTo
<1>2. SeqOf(i) \in Seqs
  BY SeqOfType, SeqModNat
<1>3. \A s \in DOMAIN buffer' : buffer'[s] \in Packets
  BY ReceivedType DEF JumpTo
<1>4. Cardinality(DOMAIN buffer') <= MaxBuffer
  BY <1>1, FS_Singleton, SeqModNat
<1>5. starved' \in 0..StarveBound
  BY StarveType DEF JumpTo
<1>6. /\ expected' \in Seqs \cup {NoSeq} /\ head' \in Nat
      /\ delivered' \in Seq(Packets)
      /\ gapOld' \in BOOLEAN /\ gaveUp' \in BOOLEAN
  BY <1>2 DEF JumpTo, Tracked, TypeOK
<1>7. QED BY <1>1, <1>2, <1>3, <1>4, <1>5, <1>6 DEF BufferOK

\* So does a call that drops the packet.
LEMMA DropType ==
  ASSUME TypeOK, NEW i \in 0..(MaxPackets - 1), NEW c,
         c.seq \in Seqs, c.index \in Nat, Drop(i, c)
  PROVE  BufferOK'
<1>1. /\ expected' \in Seqs \cup {NoSeq} /\ head' \in Nat
      /\ delivered' \in Seq(Packets)
  BY DEF Drop, Tracked, TypeOK
<1>2. starved' \in 0..StarveBound
  BY StarveType DEF Drop
<1>3. buffer' = buffer
  BY DEF Drop
<1>4. /\ DOMAIN buffer' \subseteq Seqs
      /\ \A s \in DOMAIN buffer' : buffer'[s] \in Packets
      /\ Cardinality(DOMAIN buffer') <= MaxBuffer
  BY <1>3 DEF TypeOK
<1>5. gapOld' \in BOOLEAN /\ gaveUp' \in BOOLEAN
  BY DEF Drop, TypeOK, Skipping
<1>6. QED BY <1>1, <1>2, <1>4, <1>5 DEF BufferOK

\* So does a call that delivers the packet and the run behind it.
LEMMA DeliverType ==
  ASSUME TypeOK, NEW i \in 0..(MaxPackets - 1), NEW c,
         c.seq \in Seqs, c.index \in Nat, Deliver(i, c)
  PROVE  BufferOK'
<1>1. PICK n \in 0..Cardinality(DOMAIN buffer) :
        /\ Run(c.seq, n) \subseteq DOMAIN buffer
        /\ delivered' = delivered \o <<Received(i)>>
                                  \o [k \in 1..n |-> buffer[SeqOf(c.seq + k)]]
        /\ buffer' = Restrict(buffer, DOMAIN buffer \ Run(c.seq, n))
        /\ expected' = SeqOf(c.seq + n + 1)
        /\ head' = Tracked(c.index + n + 1)
        /\ gapOld' = FALSE
        /\ gaveUp' = (gaveUp \/ Skipping)
        /\ starved' = 0
  BY DEF Deliver
<1>2. n \in Nat
  BY BufferFinite
<1>3. DOMAIN buffer' \subseteq DOMAIN buffer
      /\ \A s \in DOMAIN buffer' : buffer'[s] = buffer[s]
  BY <1>1 DEF Restrict
<1>4. Cardinality(DOMAIN buffer') <= MaxBuffer
  <2>1. Cardinality(DOMAIN buffer') <= Cardinality(DOMAIN buffer)
        /\ Cardinality(DOMAIN buffer') \in Nat
    BY <1>3, BufferFinite, FS_Subset, FS_CardinalityType
  <2>2. QED BY <2>1, BufferFinite, SeqModNat DEF TypeOK
<1>5. delivered' \in Seq(Packets)
  <2>1. \A k \in 1..n : buffer[SeqOf(c.seq + k)] \in Packets
    BY <1>1 DEF Run, TypeOK
  <2>2. [k \in 1..n |-> buffer[SeqOf(c.seq + k)]] \in Seq(Packets)
    BY <1>2, <2>1
  <2>3. <<Received(i)>> \in Seq(Packets)
    BY ReceivedType
  <2>4. QED BY <1>1, <2>2, <2>3 DEF TypeOK
<1>6. expected' \in Seqs
  <2>1. c.seq + n + 1 \in Int
    BY <1>2, SeqModNat DEF Seqs
  <2>2. QED BY <1>1, <2>1, SeqOfType
<1>7. head' \in Nat
  <2>1. c.index + n + 1 \in Nat
    BY <1>2
  <2>2. QED BY <1>1, <2>1 DEF Tracked
<1>8. gapOld' \in BOOLEAN /\ gaveUp' \in BOOLEAN
  BY <1>1 DEF TypeOK, Skipping
<1>9. starved' \in 0..StarveBound
  BY <1>1, ReorderAssumption
<1>10. \A s \in DOMAIN buffer' : buffer'[s] \in Packets
  BY <1>3 DEF TypeOK
<1>11. DOMAIN buffer' \subseteq Seqs
  BY <1>3 DEF TypeOK
<1>12. QED BY <1>4, <1>5, <1>6, <1>7, <1>8, <1>9, <1>10,
              <1>11 DEF BufferOK

\* Every call of _reorder_deliver keeps the types.
LEMMA ReorderDeliverType ==
  ASSUME TypeOK, NEW i \in 0..(MaxPackets - 1), ReorderDeliver(i)
  PROVE  BufferOK'
<1>1. Cursor(i).seq \in Seqs /\ Cursor(i).index \in Nat
  BY CursorType
<1>2. CASE Deliver(i, Cursor(i))
  BY <1>1, <1>2, DeliverType
<1>3. CASE HasRoom /\ Hold(i, Cursor(i))
  BY <1>1, <1>3, HoldType
<1>4. CASE JumpTo(i)
  BY <1>4, JumpType
<1>5. CASE Drop(i, Cursor(i))
  BY <1>1, <1>5, DropType
<1>6. QED BY <1>2, <1>3, <1>4, <1>5 DEF ReorderDeliver

\* A reset of the reordering state, whoever does it.
LEMMA StartOverType ==
  ASSUME TypeOK, StartOver
  PROVE  BufferOK' /\ leaked' \in BOOLEAN /\ mixed' \in BOOLEAN
<1>1. DOMAIN buffer' = {}
  BY DEF StartOver
<1>2. Cardinality(DOMAIN buffer') <= MaxBuffer
  BY <1>1, FS_EmptySet, SeqModNat
<1>3. delivered' \in Seq(Packets) /\ expected' = NoSeq /\ head' \in Nat
      /\ starved' \in 0..StarveBound
  BY ReorderAssumption DEF StartOver
<1>4. gapOld' \in BOOLEAN /\ gaveUp' \in BOOLEAN /\ leaked' \in BOOLEAN
      /\ mixed' \in BOOLEAN
  BY DEF StartOver
<1>5. QED BY <1>1, <1>2, <1>3, <1>4 DEF BufferOK

\* Initially nothing is buffered or delivered.
LEMMA InitType == Init => TypeOK
<1>1. SUFFICES ASSUME Init PROVE TypeOK
  OBVIOUS
<1>2. DOMAIN buffer = {} /\ Cardinality(DOMAIN buffer) = 0
  BY <1>1, FS_EmptySet DEF Init
<1>3. top \in 0..MaxPackets /\ session \in 0..MaxSession /\ starved \in 0..StarveBound
  BY <1>1, ReorderAssumption DEF Init
<1>4. delivered \in Seq(Packets) /\ expected \in Seqs \cup {NoSeq} /\ head \in Nat
  BY <1>1 DEF Init
<1>5. gapOld \in BOOLEAN /\ gaveUp \in BOOLEAN /\ leaked \in BOOLEAN /\ mixed \in BOOLEAN
  BY <1>1 DEF Init
<1>6. QED BY <1>2, <1>3, <1>4, <1>5, SeqModNat DEF TypeOK

\* Every step keeps the types.
LEMMA NextType == TypeOK /\ [Next]_vars => TypeOK'
<1>1. SUFFICES ASSUME TypeOK, [Next]_vars PROVE TypeOK'
  OBVIOUS
<1>2. ASSUME NEW i \in 0..(MaxPackets - 1), Receive(i) PROVE TypeOK'
  <2>1. BufferOK'
    BY <1>1, <1>2, ReorderDeliverType DEF Receive
  <2>2. top' \in 0..MaxPackets /\ session' \in 0..MaxSession
    BY <1>1, <1>2, SeqModNat DEF Receive, TypeOK
  <2>3. leaked' \in BOOLEAN /\ mixed' \in BOOLEAN
    BY <1>1, <1>2 DEF Receive, TypeOK
  <2>4. QED BY <2>1, <2>2, <2>3 DEF TypeOK, BufferOK
<1>3. CASE TimePasses
  BY <1>1, <1>3 DEF TimePasses, history, TypeOK
<1>4. CASE ClientStart
  <2>1. session' \in 0..MaxSession /\ top' \in 0..MaxPackets
    BY <1>1, <1>4 DEF ClientStart, TypeOK
  <2>2. QED BY <1>1, <1>4, <2>1, StartOverType DEF ClientStart, TypeOK, BufferOK
<1>5. ASSUME NewSession
      PROVE  session' \in 0..MaxSession /\ top' \in 0..MaxPackets
  BY <1>1, <1>5, ReorderAssumption DEF NewSession, TypeOK
<1>6. CASE Reconnect
  BY <1>1, <1>5, <1>6, StartOverType DEF Reconnect, TypeOK, BufferOK
<1>7. CASE StallReconnect
  BY <1>1, <1>5, <1>7, ReorderAssumption DEF StallReconnect, TypeOK
<1>8. CASE UNCHANGED vars
  BY <1>1, <1>8 DEF vars, codeVars, history, TypeOK
<1>9. QED BY <1>1, <1>2, <1>3, <1>4, <1>6, <1>7, <1>8 DEF Next

\* The reordering state has the types the code gives it, and the buffer never holds more
\* than MaxBuffer packets.
THEOREM TypeCorrect == Spec => []TypeOK
<1>1. QED BY InitType, NextType, PTL DEF Spec

-----------------------------------------------------------------------------
(* The order of what is delivered. *)

\* expected stands for the packet with index head.
CursorSync ==
  IF expected = NoSeq
  THEN DOMAIN buffer = {} /\ delivered = <<>>
  ELSE expected = SeqOf(head) /\ head <= top

\* Every buffered packet is at most half a lap ahead of the cursor.
BufferSync ==
  \A s \in DOMAIN buffer :
    /\ expected # NoSeq
    /\ SeqOf(buffer[s].index) = s
    /\ head <= buffer[s].index /\ buffer[s].index - head < Half
    /\ buffer[s].index < top
    /\ ~gaveUp => buffer[s].index # head

\* What was delivered is increasing and lies before the cursor.
DeliveredSync ==
  /\ \A k \in DOMAIN delivered : delivered[k].index < head
  /\ \A j, k \in DOMAIN delivered : j < k => delivered[j].index < delivered[k].index

\* Until a gap is given up, what was delivered ends right before the cursor.
DenseSync ==
  ~gaveUp =>
    /\ ~leaked
    /\ delivered # <<>> => delivered[Len(delivered)].index = head - 1
    /\ \A k \in 1..(Len(delivered) - 1) :
         delivered[k + 1].index = delivered[k].index + 1

SyncInv == InSync => CursorSync /\ BufferSync /\ DeliveredSync

IInv == TypeOK /\ SyncInv /\ (~mixed => DenseSync)

\* What the network promises about the packet with index i when it arrives.
Timely(i) ==
  /\ i + MaxDelay >= top
  /\ expected # NoSeq => i - head < Half

\* What was delivered is a sequence of packets.
LEMMA DeliveredIndexes ==
  ASSUME TypeOK
  PROVE  /\ Len(delivered) \in Nat /\ DOMAIN delivered = 1..Len(delivered)
         /\ \A k \in DOMAIN delivered : delivered[k].index \in Nat
<1>1. delivered \in Seq(Packets)
  BY DEF TypeOK
<1>2. Len(delivered) \in Nat /\ DOMAIN delivered = 1..Len(delivered)
  BY <1>1
<1>3. \A k \in 1..Len(delivered) : delivered[k] \in Packets
  BY <1>1
<1>4. QED BY <1>2, <1>3 DEF Packets

\* In sync, the cursor stands for a packet within half a lap of the arriving packet and
\* of every buffered one, and after every delivered one.
LEMMA CursorFacts ==
  ASSUME TypeOK, SyncInv, InSync, NEW i \in 0..(MaxPackets - 1), Timely(i)
  PROVE  /\ Cursor(i).index \in Nat /\ Cursor(i).seq = SeqOf(Cursor(i).index)
         /\ i - Cursor(i).index < Half /\ Cursor(i).index - i <= Half
         /\ Cursor(i).index <= top \/ Cursor(i).index = i
         /\ \A s \in DOMAIN buffer :
              /\ buffer[s].index - Cursor(i).index < Half
              /\ Cursor(i).index - buffer[s].index < Half
         /\ \A k \in DOMAIN delivered : delivered[k].index < Cursor(i).index
         /\ ~gaveUp /\ ~Skipping =>
              /\ \A s \in DOMAIN buffer : buffer[s].index > Cursor(i).index
              /\ delivered # <<>> => Cursor(i).index = head
<1>0. /\ head \in Nat /\ top \in Nat /\ CursorSync /\ BufferSync /\ DeliveredSync
      /\ \A s \in DOMAIN buffer : buffer[s].index \in Nat
      /\ Half \in Nat \ {0} /\ MaxDelay \in Nat /\ MaxDelay <= Half
  BY SeqModNat DEF SyncInv, TypeOK, Packets
<1>1. CASE Skipping
  <2>1. LowestKey \in DOMAIN buffer
    BY <1>1, LowestKeyIn DEF Skipping
  <2>2. /\ Cursor(i).seq = LowestKey
        /\ Cursor(i).index = buffer[LowestKey].index
    BY <1>1 DEF Cursor
  <2>3. /\ expected # NoSeq /\ SeqOf(buffer[LowestKey].index) = LowestKey
        /\ head <= buffer[LowestKey].index /\ buffer[LowestKey].index - head < Half
        /\ buffer[LowestKey].index < top
    BY <1>0, <2>1 DEF BufferSync
  <2>4. /\ i - buffer[LowestKey].index < Half
        /\ buffer[LowestKey].index - i <= Half
    BY <1>0, <2>1, <2>3 DEF Timely
  <2>5. \A s \in DOMAIN buffer :
          /\ buffer[s].index - buffer[LowestKey].index < Half
          /\ buffer[LowestKey].index - buffer[s].index < Half
    BY <1>0, <2>1, <2>3 DEF BufferSync
  <2>6. \A k \in DOMAIN delivered : delivered[k].index < buffer[LowestKey].index
    BY <1>0, <2>1, <2>3, DeliveredIndexes DEF DeliveredSync
  <2>7. QED BY <1>0, <1>1, <2>1, <2>2, <2>3, <2>4, <2>5, <2>6
<1>2. CASE ~Skipping /\ expected = NoSeq
  <2>1. Cursor(i).seq = SeqOf(i) /\ Cursor(i).index = i
    BY <1>2 DEF Cursor
  <2>2. DOMAIN buffer = {} /\ delivered = <<>>
    BY <1>0, <1>2 DEF CursorSync
  <2>3. QED BY <1>0, <2>1, <2>2
<1>3. CASE ~Skipping /\ expected # NoSeq
  <2>1. Cursor(i).seq = expected /\ Cursor(i).index = head
    BY <1>3 DEF Cursor
  <2>2. expected = SeqOf(head) /\ head <= top
    BY <1>0, <1>3 DEF CursorSync
  <2>3. i - head < Half /\ head - i <= Half
    BY <1>0, <1>3, <2>2 DEF Timely
  <2>4. \A s \in DOMAIN buffer :
          /\ buffer[s].index - head < Half /\ head - buffer[s].index < Half
          /\ ~gaveUp => buffer[s].index > head
    BY <1>0 DEF BufferSync
  <2>5. \A k \in DOMAIN delivered : delivered[k].index < head
    BY <1>0 DEF DeliveredSync
  <2>6. QED BY <1>0, <2>1, <2>2, <2>3, <2>4, <2>5
<1>4. QED BY <1>1, <1>2, <1>3

\* So the code's comparison of sequence numbers is a comparison of packets.
LEMMA DeltaFacts ==
  ASSUME TypeOK, SyncInv, InSync, NEW i \in 0..(MaxPackets - 1), Timely(i)
  PROVE  SeqDelta(SeqOf(i), Cursor(i).seq) = i - Cursor(i).index
<1>1. /\ Cursor(i).index \in Int /\ i \in Int
      /\ Cursor(i).seq = SeqOf(Cursor(i).index)
      /\ i - Cursor(i).index < Half /\ Cursor(i).index - i <= Half
  BY CursorFacts
<1>2. QED BY <1>1, SeqDeltaIs

\* A buffered packet that is filed k places after the cursor is the k-th packet after it.
LEMMA RunIndex ==
  ASSUME TypeOK, SyncInv, InSync, NEW i \in 0..(MaxPackets - 1), Timely(i),
         NEW k \in 0..MaxBuffer, SeqOf(Cursor(i).seq + k) \in DOMAIN buffer
  PROVE  buffer[SeqOf(Cursor(i).seq + k)].index = Cursor(i).index + k
<1> DEFINE c == Cursor(i)
           b == buffer[SeqOf(c.seq + k)].index
<1>1. c.index \in Int /\ c.seq = SeqOf(c.index) /\ k \in Int
  BY CursorFacts, SeqModNat
<1>2. SeqOf(c.seq + k) = SeqOf(c.index + k)
  BY <1>1, SeqOfPlus
<1>3. SeqOf(b) = SeqOf(c.index + k) /\ b \in Int
  BY <1>2 DEF SyncInv, BufferSync, TypeOK, Packets
<1>4. b - c.index < Half /\ c.index - b < Half
  BY CursorFacts
<1>5. b - (c.index + k) < SeqMod /\ (c.index + k) - b < SeqMod /\ c.index + k \in Int
  BY <1>1, <1>3, <1>4, SeqModNat
<1>6. b = c.index + k
  BY <1>3, <1>5, SameSeq
<1>7. QED BY <1>6

\* The parts of a concatenation.
LEMMA ConcatParts ==
  ASSUME NEW S, NEW a \in Seq(S), NEW b \in Seq(S)
  PROVE  /\ a \o b \in Seq(S) /\ Len(a \o b) = Len(a) + Len(b)
         /\ Len(a) \in Nat /\ Len(b) \in Nat
         /\ DOMAIN (a \o b) = 1..(Len(a) + Len(b))
         /\ \A j \in 1..Len(a) : (a \o b)[j] = a[j]
         /\ \A j \in (Len(a) + 1)..(Len(a) + Len(b)) : (a \o b)[j] = b[j - Len(a)]
<1>1. a \o b \in Seq(S) /\ Len(a \o b) = Len(a) + Len(b)
      /\ Len(a) \in Nat /\ Len(b) \in Nat
  OBVIOUS
<1>2. DOMAIN (a \o b) = 1..(Len(a) + Len(b))
  BY <1>1
<1>3. \A j \in 1..Len(a) : (a \o b)[j] = a[j]
  OBVIOUS
<1>4. \A j \in (Len(a) + 1)..(Len(a) + Len(b)) : (a \o b)[j] = b[j - Len(a)]
  OBVIOUS
<1>5. QED BY <1>1, <1>2, <1>3, <1>4

\* The packets and the cursor that a delivery leaves behind.
LEMMA DeliverShape ==
  ASSUME TypeOK, SyncInv, InSync, NEW i \in 0..(MaxPackets - 1), Timely(i),
         Deliver(i, Cursor(i)), i = Cursor(i).index
  PROVE  \E n \in 0..MaxBuffer :
           /\ Len(delivered') = Len(delivered) + 1 + n
           /\ DOMAIN delivered' = 1..(Len(delivered) + 1 + n)
           /\ \A j \in 1..Len(delivered) : delivered'[j] = delivered[j]
           /\ \A j \in (Len(delivered) + 1)..(Len(delivered) + 1 + n) :
                delivered'[j].index = i + (j - Len(delivered) - 1)
           /\ head' = i + n + 1 /\ expected' = SeqOf(i + n + 1)
           /\ n > 0 => i + n < top
           /\ DOMAIN buffer' \subseteq DOMAIN buffer
           /\ \A s \in DOMAIN buffer' :
                /\ buffer'[s] = buffer[s]
                /\ \A k \in 1..(n + 1) : buffer[s].index # i + k
           /\ gaveUp' = (gaveUp \/ Skipping)
<1> DEFINE c == Cursor(i)
           L == Len(delivered)
<1>1. PICK n \in 0..Cardinality(DOMAIN buffer) :
        /\ Run(c.seq, n) \subseteq DOMAIN buffer
        /\ SeqOf(c.seq + n + 1) \notin DOMAIN buffer
        /\ delivered' = delivered \o <<Received(i)>>
                                  \o [k \in 1..n |-> buffer[SeqOf(c.seq + k)]]
        /\ buffer' = Restrict(buffer, DOMAIN buffer \ Run(c.seq, n))
        /\ expected' = SeqOf(c.seq + n + 1)
        /\ head' = Tracked(c.index + n + 1)
        /\ gaveUp' = (gaveUp \/ Skipping)
  BY DEF Deliver
<1>2. n \in Nat /\ n <= MaxBuffer /\ MaxBuffer \in Nat
  BY BufferFinite, SeqModNat DEF TypeOK
<1>3. c.index = i /\ c.index \in Int /\ c.seq = SeqOf(i) /\ i \in Nat
  BY CursorFacts
<1>4. \A k \in 1..n : buffer[SeqOf(c.seq + k)].index = i + k
                      /\ SeqOf(c.seq + k) \in DOMAIN buffer
  <2>1. TAKE k \in 1..n
  <2>2. SeqOf(c.seq + k) \in DOMAIN buffer /\ k \in 0..MaxBuffer
    BY <1>1, <1>2 DEF Run
  <2>3. QED BY <1>3, <2>2, RunIndex
<1>5. c.seq + n + 1 = c.seq + (n + 1) /\ SeqOf(c.seq + (n + 1)) = SeqOf(i + (n + 1))
  BY <1>2, <1>3, SeqOfPlus, SeqOfType DEF Seqs
<1>6. head' = i + n + 1 /\ expected' = SeqOf(i + n + 1)
  BY <1>1, <1>2, <1>3, <1>5 DEF Tracked
<1>7. ASSUME n > 0 PROVE i + n < top
  <2>1. n \in 1..n
    BY <1>2, <1>7
  <2>2. buffer[SeqOf(c.seq + n)].index < top
    BY <1>4, <2>1 DEF SyncInv, BufferSync
  <2>3. QED BY <1>4, <2>1, <2>2
<1>8. DOMAIN buffer' = DOMAIN buffer \ Run(c.seq, n)
      /\ \A s \in DOMAIN buffer' : buffer'[s] = buffer[s]
  BY <1>1 DEF Restrict
<1>9. ASSUME NEW s \in DOMAIN buffer', NEW k \in 1..(n + 1), buffer[s].index = i + k
      PROVE  FALSE
  <2>1. s \in DOMAIN buffer /\ s \notin Run(c.seq, n) /\ SeqOf(i + k) = s
    BY <1>8, <1>9 DEF SyncInv, BufferSync
  <2>2. SeqOf(c.seq + k) = s
    BY <1>2, <1>3, <2>1, SeqOfPlus
  <2>3. CASE k \in 1..n
    BY <2>1, <2>2, <2>3 DEF Run
  <2>4. CASE k = n + 1
    BY <1>1, <1>5, <2>1, <2>2, <2>4
  <2>5. QED BY <1>2, <2>3, <2>4
<1>10. /\ L \in Nat /\ delivered \in Seq(Packets) /\ Received(i) \in Packets
       /\ [k \in 1..n |-> buffer[SeqOf(c.seq + k)]] \in Seq(Packets)
  <2>1. \A k \in 1..n : buffer[SeqOf(c.seq + k)] \in Packets
    BY <1>4 DEF TypeOK
  <2>2. QED BY <1>2, <2>1, ReceivedType, DeliveredIndexes DEF TypeOK
<1> DEFINE run == [k \in 1..n |-> buffer[SeqOf(c.seq + k)]]
<1>11. run \in Seq(Packets) /\ Len(run) = n /\ \A k \in 1..n : run[k].index = i + k
  BY <1>2, <1>4, <1>10
<1>12. delivered' = delivered \o <<Received(i)>> \o run
  BY <1>1
<1> HIDE DEF run, L
<1>13. PICK front : front = delivered \o <<Received(i)>>
  OBVIOUS
<1>14. /\ front \in Seq(Packets) /\ Len(front) = L + 1
       /\ \A j \in 1..L : front[j] = delivered[j]
       /\ front[L + 1] = Received(i)
  <2>1. <<Received(i)>> \in Seq(Packets) /\ Len(<<Received(i)>>) = 1
        /\ <<Received(i)>>[1] = Received(i)
    BY <1>10
  <2>2. L + 1 \in (L + 1)..(L + 1) /\ (L + 1) - L = 1
    BY <1>10
  <2>3. QED BY <1>10, <1>13, <2>1, <2>2, ConcatParts DEF L
<1>15. /\ Len(front \o run) = L + 1 + n
       /\ DOMAIN (front \o run) = 1..(L + 1 + n)
       /\ \A j \in 1..(L + 1) : (front \o run)[j] = front[j]
       /\ \A j \in (L + 2)..(L + 1 + n) : (front \o run)[j] = run[j - (L + 1)]
  <2>1. /\ Len(front \o run) = Len(front) + Len(run)
        /\ DOMAIN (front \o run) = 1..(Len(front) + Len(run))
        /\ \A j \in 1..Len(front) : (front \o run)[j] = front[j]
        /\ \A j \in (Len(front) + 1)..(Len(front) + Len(run)) :
             (front \o run)[j] = run[j - Len(front)]
    BY <1>11, <1>14, ZenonT(30), ConcatParts
  <2>2. Len(front) = L + 1 /\ Len(run) = n /\ L + 1 + 1 = L + 2
    BY <1>10, <1>11, <1>14
  <2>3. QED BY <2>1, <2>2
<1>16. delivered' = front \o run
  BY <1>12, <1>13
<1>17. \A j \in 1..L : delivered'[j] = delivered[j]
  BY <1>10, <1>14, <1>15, <1>16
<1>18. ASSUME NEW j \in (L + 1)..(L + 1 + n)
       PROVE  delivered'[j].index = i + (j - L - 1)
  <2>1. CASE j = L + 1
    <3>1. delivered'[j] = Received(i)
      BY <1>10, <1>14, <1>15, <1>16, <2>1
    <3>2. QED BY <1>3, <1>10, <2>1, <3>1 DEF Received
  <2>2. CASE j # L + 1
    <3>1. j \in (L + 2)..(L + 1 + n) /\ j - (L + 1) \in 1..n
      BY <1>2, <1>10, <2>2
    <3>2. (front \o run)[j] = run[j - (L + 1)]
      BY <1>15, <3>1
    <3>3. run[j - (L + 1)].index = i + (j - (L + 1))
      BY <1>11, <3>1
    <3>4. QED BY <1>3, <1>10, <1>16, <3>2, <3>3
  <2>3. QED BY <2>1, <2>2
<1>19. n \in 0..MaxBuffer
  BY <1>2
<1>20. QED
  BY <1>1, <1>6, <1>7, <1>8, <1>9, <1>15, <1>16, <1>17, <1>18, <1>19 DEF L

\* In sync, the branch a call takes is decided by how the packet compares to the cursor.
LEMMA Outcomes ==
  ASSUME TypeOK, SyncInv, InSync, NEW i \in 0..(MaxPackets - 1), Receive(i)
  PROVE  /\ Timely(i)
         /\ \/ i = Cursor(i).index /\ Deliver(i, Cursor(i))
            \/ i > Cursor(i).index /\ Hold(i, Cursor(i))
            \/ i > Cursor(i).index /\ JumpTo(i)
            \/ i < Cursor(i).index /\ Drop(i, Cursor(i))
<1>1. Timely(i)
  BY DEF Receive, Timely
<1>2. SeqDelta(SeqOf(i), Cursor(i).seq) = i - Cursor(i).index
      /\ Cursor(i).index \in Nat
  BY <1>1, DeltaFacts, CursorFacts
<1>3. QED BY <1>1, <1>2 DEF Receive, ReorderDeliver

\* What Receive does beside the call.
LEMMA ReceiveFrame ==
  ASSUME TypeOK, NEW i \in 0..(MaxPackets - 1), Receive(i)
  PROVE  /\ top' \in Nat /\ top <= top' /\ i < top' /\ mixed' = mixed
         /\ leaked' = (leaked \/ \E s \in DOMAIN buffer' : buffer'[s].index < head')
  BY DEF Receive, TypeOK

\* The call neither delivers nor jumps.
KeepsCursor(i) ==
  \/ i > Cursor(i).index /\ Hold(i, Cursor(i))
  \/ i < Cursor(i).index /\ Drop(i, Cursor(i))

\* Holding a packet back or dropping it leaves a buffer in sync with the cursor.
LEMMA KeepSync ==
  ASSUME TypeOK, SyncInv, InSync, NEW i \in 0..(MaxPackets - 1), Receive(i), InSync',
         KeepsCursor(i)
  PROVE  CursorSync' /\ BufferSync' /\ DeliveredSync'
<1> DEFINE c == Cursor(i)
<1>1. /\ c.index \in Nat /\ c.seq = SeqOf(c.index) /\ c.seq \in Seqs
      /\ i - c.index < Half
      /\ c.index <= top \/ c.index = i
      /\ \A s \in DOMAIN buffer : buffer[s].index - c.index < Half
      /\ \A k \in DOMAIN delivered : delivered[k].index < c.index
      /\ ~gaveUp /\ ~Skipping => \A s \in DOMAIN buffer : buffer[s].index > c.index
  BY Outcomes, CursorFacts, CursorType
<1>2. /\ expected' = c.seq /\ head' = c.index /\ delivered' = delivered
      /\ gaveUp' = (gaveUp \/ Skipping)
  BY DEF KeepsCursor, Hold, Drop, Tracked
<1>3. /\ top' \in Nat /\ top <= top' /\ i < top'
      /\ \A s \in DOMAIN buffer' : ~(buffer'[s].index < head')
  BY ReceiveFrame DEF InSync
<1>4. c.seq # NoSeq
  BY <1>1, SeqModNat DEF Seqs, NoSeq
<1>5. CursorSync'
  BY <1>1, <1>2, <1>3, <1>4 DEF CursorSync, TypeOK
<1>6. DeliveredSync'
  BY <1>1, <1>2 DEF DeliveredSync, SyncInv
<1>7. ASSUME NEW s \in DOMAIN buffer'
      PROVE  /\ SeqOf(buffer'[s].index) = s
             /\ buffer'[s].index \in Nat
             /\ buffer'[s].index - c.index < Half /\ buffer'[s].index < top'
             /\ ~gaveUp' => buffer'[s].index # c.index
  <2>1. CASE s \in DOMAIN buffer /\ buffer'[s] = buffer[s]
    <3>1. SeqOf(buffer[s].index) = s /\ buffer[s].index < top /\ buffer[s].index \in Nat
      BY <2>1 DEF SyncInv, BufferSync, TypeOK, Packets
    <3>2. top \in Nat
      BY DEF TypeOK
    <3>3. buffer[s].index - c.index < Half /\ buffer[s].index < top'
      BY <1>1, <1>3, <2>1, <3>1, <3>2
    <3>4. ASSUME ~gaveUp' PROVE buffer[s].index # c.index
      <4>1. ~gaveUp /\ ~Skipping
        BY <1>2, <3>4
      <4>2. buffer[s].index > c.index
        BY <1>1, <2>1, <4>1
      <4>3. QED BY <1>1, <3>1, <4>2
    <3>5. QED BY <2>1, <3>1, <3>3, <3>4
  <2>2. CASE i > c.index /\ s = SeqOf(i) /\ buffer'[s] = Received(i)
    BY <1>1, <1>3, <2>2 DEF Received
  <2>3. \/ i > c.index /\ s = SeqOf(i) /\ buffer'[s] = Received(i)
        \/ s \in DOMAIN buffer /\ buffer'[s] = buffer[s]
    <3>1. CASE i > c.index /\ Hold(i, c)
      BY <3>1 DEF Hold
    <3>2. CASE Drop(i, c)
      BY <3>2 DEF Drop
    <3>3. QED BY <3>1, <3>2 DEF KeepsCursor
  <2>4. QED BY <2>1, <2>2, <2>3
<1>8. ASSUME NEW s \in DOMAIN buffer'
      PROVE  head' <= buffer'[s].index
  BY <1>1, <1>2, <1>3, <1>7, <1>8
<1>9. BufferSync'
  BY <1>2, <1>4, <1>7, <1>8 DEF BufferSync
<1>10. QED BY <1>5, <1>6, <1>9

\* Jumping to a packet leaves that packet alone in the buffer, at the cursor.
LEMMA JumpSync ==
  ASSUME TypeOK, SyncInv, InSync, NEW i \in 0..(MaxPackets - 1), Receive(i),
         i > Cursor(i).index, JumpTo(i)
  PROVE  CursorSync' /\ BufferSync' /\ DeliveredSync'
<1>1. /\ Cursor(i).index \in Nat
      /\ \A k \in DOMAIN delivered : delivered[k].index < Cursor(i).index
  BY Outcomes, CursorFacts
<1>2. /\ expected' = SeqOf(i) /\ head' = i /\ delivered' = delivered /\ gaveUp' = TRUE
      /\ DOMAIN buffer' = {SeqOf(i)} /\ buffer'[SeqOf(i)].index = i
  BY DEF JumpTo, Tracked, Received
<1>3. SeqOf(i) # NoSeq /\ top' \in Nat /\ i < top'
  BY ReceiveFrame, SeqOfType, SeqModNat DEF Seqs, NoSeq
<1>4. CursorSync'
  BY <1>2, <1>3 DEF CursorSync
<1>5. BufferSync'
  BY <1>2, <1>3, SeqModNat DEF BufferSync
<1>6. DeliveredSync'
  <2>1. \A k \in DOMAIN delivered : delivered[k].index < i
    BY <1>1, DeliveredIndexes
  <2>2. QED BY <1>2, <2>1 DEF DeliveredSync, SyncInv
<1>7. QED BY <1>4, <1>5, <1>6

\* Delivering a run leaves the cursor right after it.
LEMMA DeliverSync ==
  ASSUME TypeOK, SyncInv, InSync, NEW i \in 0..(MaxPackets - 1), Receive(i), InSync',
         i = Cursor(i).index, Deliver(i, Cursor(i))
  PROVE  CursorSync' /\ BufferSync' /\ DeliveredSync'
<1> DEFINE L == Len(delivered)
<1>1. PICK n \in 0..MaxBuffer :
        /\ DOMAIN delivered' = 1..(L + 1 + n)
        /\ \A j \in 1..L : delivered'[j] = delivered[j]
        /\ \A j \in (L + 1)..(L + 1 + n) : delivered'[j].index = i + (j - L - 1)
        /\ head' = i + n + 1 /\ expected' = SeqOf(i + n + 1)
        /\ n > 0 => i + n < top
        /\ DOMAIN buffer' \subseteq DOMAIN buffer
        /\ \A s \in DOMAIN buffer' :
             /\ buffer'[s] = buffer[s]
             /\ \A k \in 1..(n + 1) : buffer[s].index # i + k
  BY Outcomes, DeliverShape
<1>2. n \in Nat /\ L \in Nat /\ i \in Nat /\ DOMAIN delivered = 1..L /\ top \in Nat
  BY DeliveredIndexes, SeqModNat DEF TypeOK
<1>3. /\ top' \in Nat /\ top <= top' /\ i < top'
      /\ \A s \in DOMAIN buffer' : ~(buffer'[s].index < head')
  BY ReceiveFrame DEF InSync
<1>4. \A s \in DOMAIN buffer :
        SeqOf(buffer[s].index) = s /\ buffer[s].index < top /\ buffer[s].index \in Nat
        /\ buffer[s].index - i < Half
  BY Outcomes, CursorFacts DEF SyncInv, BufferSync, TypeOK, Packets
<1>5. expected' # NoSeq
  BY <1>1, <1>2, SeqOfType, SeqModNat DEF Seqs, NoSeq
<1>6. CursorSync'
  BY <1>1, <1>2, <1>3, <1>5 DEF CursorSync
<1>7. BufferSync'
  <2>1. SUFFICES ASSUME NEW s \in DOMAIN buffer'
                 PROVE  /\ SeqOf(buffer'[s].index) = s
                        /\ head' <= buffer'[s].index /\ buffer'[s].index - head' < Half
                        /\ buffer'[s].index < top'
                        /\ buffer'[s].index # head'
    BY <1>5 DEF BufferSync
  <2>2. buffer'[s] = buffer[s] /\ s \in DOMAIN buffer
    BY <1>1
  <2>3. buffer[s].index # i + (n + 1)
    BY <1>1, <1>2
  <2>4. QED BY <1>1, <1>2, <1>3, <1>4, <2>2, <2>3, SeqModNat
<1>8. \A k \in 1..L : delivered[k].index < i /\ delivered[k].index \in Nat
  BY <1>2, Outcomes, CursorFacts, DeliveredIndexes
<1>9. \A k \in DOMAIN delivered' : delivered'[k].index < head'
  <2>1. TAKE k \in DOMAIN delivered'
  <2>2. CASE k \in 1..L
    BY <1>1, <1>2, <1>8, <2>2
  <2>3. CASE k \in (L + 1)..(L + 1 + n)
    BY <1>1, <1>2, <2>3
  <2>4. QED BY <1>1, <1>2, <2>2, <2>3
<1>10. ASSUME NEW j \in DOMAIN delivered', NEW k \in DOMAIN delivered', j < k
       PROVE  delivered'[j].index < delivered'[k].index
  <2>1. CASE k \in 1..L
    <3>1. j \in 1..L
      BY <1>1, <1>2, <1>10, <2>1
    <3>2. QED BY <1>1, <1>2, <1>10, <2>1, <3>1 DEF SyncInv, DeliveredSync
  <2>2. CASE j \in 1..L /\ k \in (L + 1)..(L + 1 + n)
    BY <1>1, <1>2, <1>8, <2>2
  <2>3. CASE j \in (L + 1)..(L + 1 + n) /\ k \in (L + 1)..(L + 1 + n)
    BY <1>1, <1>2, <1>10, <2>3
  <2>4. QED BY <1>1, <1>2, <1>10, <2>1, <2>2, <2>3
<1>11. DeliveredSync'
  BY <1>9, <1>10 DEF DeliveredSync
<1>12. QED BY <1>6, <1>7, <1>11

\* A call keeps the sync invariant.
LEMMA ReceiveSync ==
  ASSUME TypeOK, SyncInv, NEW i \in 0..(MaxPackets - 1), Receive(i)
  PROVE  SyncInv'
<1>1. SUFFICES ASSUME InSync' PROVE CursorSync' /\ BufferSync' /\ DeliveredSync'
  BY DEF SyncInv
<1>2. InSync
  BY <1>1, ReceiveFrame DEF InSync, TypeOK
<1>3. CASE i = Cursor(i).index /\ Deliver(i, Cursor(i))
  BY <1>1, <1>2, <1>3, DeliverSync
<1>4. CASE i > Cursor(i).index /\ JumpTo(i)
  BY <1>1, <1>2, <1>4, JumpSync
<1>5. CASE KeepsCursor(i)
  BY <1>1, <1>2, <1>5, KeepSync
<1>6. QED BY <1>2, <1>3, <1>4, <1>5, Outcomes DEF KeepsCursor

\* Before a gap is given up, a call leaves nothing behind and no hole.
LEMMA ReceiveDense ==
  ASSUME TypeOK, SyncInv, ~mixed => DenseSync,
         NEW i \in 0..(MaxPackets - 1), Receive(i)
  PROVE  ~mixed' => DenseSync'
<1>1. SUFFICES ASSUME ~mixed, ~gaveUp' PROVE DenseSync'
  BY ReceiveFrame DEF DenseSync
<1>2. gaveUp' = (gaveUp \/ Skipping) \/ gaveUp' = TRUE
  BY DEF Receive, ReorderDeliver, Deliver, Hold, JumpTo, Drop
<1>3. ~gaveUp /\ ~Skipping
  BY <1>1, <1>2
<1>4. ~leaked /\ InSync
  BY <1>1, <1>3 DEF DenseSync, InSync
<1>5. /\ delivered # <<>> => delivered[Len(delivered)].index = head - 1
      /\ \A k \in 1..(Len(delivered) - 1) :
           delivered[k + 1].index = delivered[k].index + 1
  BY <1>1, <1>3 DEF DenseSync
<1> DEFINE c == Cursor(i)
           L == Len(delivered)
<1>6. /\ c.index \in Nat /\ i \in Nat /\ head \in Nat
      /\ \A s \in DOMAIN buffer : buffer[s].index > c.index /\ buffer[s].index \in Nat
      /\ delivered # <<>> => c.index = head
  BY <1>3, <1>4, Outcomes, CursorFacts DEF TypeOK, Packets
<1>7. (\A s \in DOMAIN buffer' : buffer'[s].index >= head' /\ buffer'[s].index \in Nat)
        /\ head' \in Nat => ~leaked'
  <2>1. ASSUME \A s \in DOMAIN buffer' : buffer'[s].index >= head' /\ buffer'[s].index \in Nat,
               head' \in Nat
        PROVE  ~ \E s \in DOMAIN buffer' : buffer'[s].index < head'
    BY <2>1
  <2>2. QED BY <1>4, <2>1, ReceiveFrame
<1>8. CASE (i > c.index /\ Hold(i, c)) \/ Drop(i, c)
  <2>1. head' = c.index /\ delivered' = delivered
    BY <1>4, <1>8 DEF Hold, Drop, Tracked
  <2>2. ASSUME NEW s \in DOMAIN buffer'
        PROVE  buffer'[s].index >= head' /\ buffer'[s].index \in Nat
    <3>1. CASE s \in DOMAIN buffer /\ buffer'[s] = buffer[s]
      BY <1>6, <2>1, <3>1
    <3>2. CASE i > c.index /\ buffer'[s] = Received(i)
      BY <1>6, <2>1, <3>2 DEF Received
    <3>3. QED BY <1>8, <3>1, <3>2 DEF Hold, Drop
  <2>3. ~leaked'
    BY <1>6, <1>7, <2>1, <2>2
  <2>4. QED BY <1>5, <1>6, <2>1, <2>3 DEF DenseSync
<1>9. CASE i = c.index /\ Deliver(i, c)
  <2>1. PICK n \in 0..MaxBuffer :
          /\ Len(delivered') = L + 1 + n
          /\ \A j \in 1..L : delivered'[j] = delivered[j]
          /\ \A j \in (L + 1)..(L + 1 + n) : delivered'[j].index = i + (j - L - 1)
          /\ head' = i + n + 1
          /\ DOMAIN buffer' \subseteq DOMAIN buffer
          /\ \A s \in DOMAIN buffer' :
               /\ buffer'[s] = buffer[s]
               /\ \A k \in 1..(n + 1) : buffer[s].index # i + k
    BY <1>4, <1>9, Outcomes, DeliverShape
  <2>2. n \in Nat /\ L \in Nat
    BY DeliveredIndexes, SeqModNat
  <2>3. ASSUME NEW s \in DOMAIN buffer'
        PROVE  buffer'[s].index >= head' /\ buffer'[s].index \in Nat
    <3>1. buffer'[s].index > i /\ buffer'[s].index \in Nat
      BY <1>6, <1>9, <2>1
    <3>2. ASSUME NEW k \in 1..(n + 1) PROVE buffer'[s].index # i + k
      BY <2>1, <3>2
    <3>3. ASSUME buffer'[s].index < head' PROVE FALSE
      <4>1. /\ buffer'[s].index - i \in 1..(n + 1)
            /\ buffer'[s].index = i + (buffer'[s].index - i)
        BY <1>6, <2>1, <2>2, <3>1, <3>3
      <4>2. QED BY <3>2, <4>1
    <3>4. QED BY <1>6, <2>1, <2>2, <3>1, <3>3
  <2>4. ~leaked'
    BY <1>6, <1>7, <2>1, <2>2, <2>3
  <2>5. delivered'[Len(delivered')].index = head' - 1
    BY <1>6, <2>1, <2>2
  <2>6. ASSUME NEW k \in 1..(Len(delivered') - 1)
        PROVE  delivered'[k + 1].index = delivered'[k].index + 1
    <3>1. CASE k \in 1..(L - 1)
      <4>1. k \in 1..L /\ k + 1 \in 1..L
        BY <2>2, <3>1
      <4>2. delivered'[k] = delivered[k] /\ delivered'[k + 1] = delivered[k + 1]
        BY <2>1, <4>1
      <4>3. QED BY <1>5, <3>1, <4>2
    <3>2. CASE k = L
      <4>1. delivered # <<>> /\ L \in 1..L
        BY <2>1, <2>2, <3>2
      <4>2. delivered[L].index = i - 1
        BY <1>5, <1>6, <1>9, <4>1
      <4>3. delivered'[L + 1].index = i
        BY <1>6, <2>1, <2>2, SMTT(30)
      <4>4. delivered'[L] = delivered[L]
        BY <2>1, <4>1
      <4>5. QED BY <1>6, <3>2, <4>2, <4>3, <4>4, SMTT(30)
    <3>3. CASE k \in (L + 1)..(L + n)
      <4>1. k \in (L + 1)..(L + 1 + n) /\ k + 1 \in (L + 1)..(L + 1 + n)
        BY <2>2, <3>3
      <4>2. QED BY <1>6, <2>1, <2>2, <3>3, <4>1
    <3>4. QED BY <2>1, <2>2, <3>1, <3>2, <3>3
  <2>7. QED BY <2>4, <2>5, <2>6 DEF DenseSync
<1>10. ~JumpTo(i)
  BY <1>1 DEF JumpTo
<1>11. QED BY <1>4, <1>8, <1>9, <1>10, Outcomes

\* The inductive invariant holds initially.
LEMMA InitInv == Init => IInv
<1>1. SUFFICES ASSUME Init PROVE IInv
  OBVIOUS
<1>2. DOMAIN buffer = {} /\ delivered = <<>> /\ expected = NoSeq /\ ~leaked
  BY <1>1 DEF Init
<1>3. CursorSync /\ BufferSync /\ DeliveredSync
  BY <1>2 DEF CursorSync, BufferSync, DeliveredSync
<1>4. DenseSync
  BY <1>2 DEF DenseSync
<1>5. QED BY <1>1, <1>3, <1>4, InitType DEF IInv, SyncInv

\* After a reset nothing is buffered or delivered.
LEMMA StartOverInv ==
  ASSUME StartOver
  PROVE  SyncInv' /\ DenseSync'
<1>1. DOMAIN buffer' = {} /\ delivered' = <<>> /\ expected' = NoSeq /\ ~leaked'
  BY DEF StartOver
<1>2. CursorSync' /\ BufferSync' /\ DeliveredSync'
  BY <1>1 DEF CursorSync, BufferSync, DeliveredSync
<1>3. DenseSync'
  BY <1>1 DEF DenseSync
<1>4. QED BY <1>2, <1>3 DEF SyncInv

\* Every step keeps the inductive invariant.
LEMMA NextInv == IInv /\ [Next]_vars => IInv'
<1>1. SUFFICES ASSUME IInv, [Next]_vars PROVE SyncInv' /\ (~mixed' => DenseSync')
  BY NextType DEF IInv
<1>2. TypeOK /\ SyncInv /\ (~mixed => DenseSync)
  BY <1>1 DEF IInv
<1>3. ASSUME NEW i \in 0..(MaxPackets - 1), Receive(i)
      PROVE  SyncInv' /\ (~mixed' => DenseSync')
  BY <1>2, <1>3, ReceiveSync, ReceiveDense
<1>4. CASE TimePasses
  BY <1>2, <1>4 DEF TimePasses, history, SyncInv, InSync, CursorSync, BufferSync,
                    DeliveredSync, DenseSync
<1>5. CASE ClientStart
  BY <1>5, StartOverInv DEF ClientStart
<1>6. CASE Reconnect
  BY <1>6, StartOverInv DEF Reconnect
<1>7. CASE StallReconnect
  BY <1>7 DEF StallReconnect, SyncInv, InSync
<1>8. CASE UNCHANGED vars
  BY <1>2, <1>8 DEF vars, codeVars, history, SyncInv, InSync, CursorSync, BufferSync,
                    DeliveredSync, DenseSync
<1>9. QED BY <1>1, <1>3, <1>4, <1>5, <1>6, <1>7, <1>8 DEF Next

LEMMA InvHolds == Spec => []IInv
<1>1. QED BY InitInv, NextInv, PTL DEF Spec

\* In sync, the reassembler is fed packets in order and none twice, for every delay the
\* network may add up to MaxDelay, through wrap-around, skipped gaps and overflows.
THEOREM DeliveredInOrder == Spec => []InOrder
<1>1. IInv => InOrder
  BY DEF IInv, SyncInv, DeliveredSync, InOrder
<1>2. QED BY <1>1, InvHolds, PTL

\* Until a gap is given up, the reassembler is fed every packet from the first one on.
THEOREM DeliveredWithoutHole == Spec => []NoHole
<1>1. IInv => NoHole
  BY DEF IInv, DenseSync, NoHole
<1>2. QED BY <1>1, InvHolds, PTL

\* A packet is left behind in the buffer only after a gap was given up.
THEOREM LeakOnlyAfterGivingUp == Spec => []LeakNeedsGiveUp
<1>1. IInv => LeakNeedsGiveUp
  BY DEF IInv, DenseSync, LeakNeedsGiveUp
<1>2. QED BY <1>1, InvHolds, PTL

-----------------------------------------------------------------------------
(* How long new packets wait. *)

\* Each new packet that waits for a missing one has a place of its own in the buffer.
WaitInv == ~gaveUp /\ ~mixed => starved <= Cardinality(DOMAIN buffer)

\* A new packet's number is not in use in the buffer.
LEMMA NewNumber ==
  ASSUME TypeOK, SyncInv, InSync, NEW i \in 0..(MaxPackets - 1), Timely(i), i >= top
  PROVE  SeqOf(i) \notin DOMAIN buffer
<1>1. SUFFICES ASSUME SeqOf(i) \in DOMAIN buffer PROVE FALSE
  OBVIOUS
<1>2. PICK b : b = buffer[SeqOf(i)].index
  OBVIOUS
<1>3. /\ b \in Nat /\ top \in Nat /\ head \in Nat /\ i \in Nat
      /\ SeqOf(b) = SeqOf(i) /\ head <= b /\ b < top /\ i - head < Half
  BY <1>1, <1>2, SeqModNat DEF TypeOK, Packets, SyncInv, BufferSync, Timely
<1>4. i - b < SeqMod /\ b - i < SeqMod
  BY <1>3, SeqModNat
<1>5. i = b
  BY <1>3, <1>4, SameSeq
<1>6. QED BY <1>3, <1>5

LEMMA ReceiveWait ==
  ASSUME IInv, WaitInv, NEW i \in 0..(MaxPackets - 1), Receive(i)
  PROVE  WaitInv'
<1>1. SUFFICES ASSUME ~gaveUp', ~mixed' PROVE starved' <= Cardinality(DOMAIN buffer')
  BY DEF WaitInv
<1>2. TypeOK /\ SyncInv /\ BufferOK'
  BY ReorderDeliverType DEF IInv, Receive
<1>3. ~gaveUp /\ ~mixed /\ ~JumpTo(i)
  BY <1>1, <1>2 DEF Receive, ReorderDeliver, Deliver, Hold, JumpTo, Drop, TypeOK
<1>4. InSync
  BY <1>3 DEF IInv, DenseSync, InSync
<1>5. /\ starved \in Nat /\ starved <= Cardinality(DOMAIN buffer) /\ top \in Nat /\ i \in Nat
      /\ IsFiniteSet(DOMAIN buffer) /\ Cardinality(DOMAIN buffer) \in Nat
  BY <1>2, <1>3, BufferFinite, SeqModNat, ReorderAssumption DEF WaitInv, TypeOK
<1>6. CASE Deliver(i, Cursor(i))
  <2>1. starved' = 0
    BY <1>6 DEF Deliver
  <2>2. DOMAIN buffer' \subseteq DOMAIN buffer
    BY <1>6 DEF Deliver, Restrict
  <2>3. Cardinality(DOMAIN buffer') \in Nat
    BY <1>5, <2>2, FS_Subset, FS_CardinalityType
  <2>4. QED BY <2>1, <2>3
<1>7. CASE Hold(i, Cursor(i))
  <2>1. DOMAIN buffer' = DOMAIN buffer \cup {SeqOf(i)} /\ Starve(i)
    BY <1>7 DEF Hold
  <2>2. Cardinality(DOMAIN buffer') =
          IF SeqOf(i) \in DOMAIN buffer THEN Cardinality(DOMAIN buffer)
                                        ELSE Cardinality(DOMAIN buffer) + 1
    BY <1>5, <2>1, FS_AddElement
  <2>3. CASE i >= top
    <3>1. SeqOf(i) \notin DOMAIN buffer
      BY <1>2, <1>4, <2>3, Outcomes, NewNumber
    <3>2. starved' <= starved + 1 /\ starved' \in Nat
      BY <1>5, <2>1 DEF Starve
    <3>3. QED BY <1>5, <2>2, <3>1, <3>2
  <2>4. CASE ~(i >= top)
    <3>1. starved' = starved
      BY <2>1, <2>4 DEF Starve
    <3>2. QED BY <1>5, <2>2, <3>1
  <2>5. QED BY <2>3, <2>4
<1>8. CASE i < Cursor(i).index /\ Drop(i, Cursor(i))
  <2>1. ~(i >= top)
    BY <1>2, <1>4, <1>5, <1>8, Outcomes, CursorFacts
  <2>2. starved' = starved /\ buffer' = buffer
    BY <1>8, <2>1 DEF Drop, Starve
  <2>3. QED BY <1>5, <2>2
<1>9. QED BY <1>2, <1>3, <1>4, <1>6, <1>7, <1>8, Outcomes

\* New packets are kept from the reassembler beyond what the buffer holds only after a gap
\* was given up, or behind a cursor of another session, for every size of the number space.
THEOREM StallHasCause == Spec => []StallNeedsCause
<1>1. Init => WaitInv
  <2>1. Init => DOMAIN buffer = {} /\ starved = 0
    BY DEF Init
  <2>2. QED BY <2>1, FS_EmptySet DEF WaitInv
<1>2. IInv /\ WaitInv /\ [Next]_vars => WaitInv'
  <2>1. SUFFICES ASSUME IInv, WaitInv, [Next]_vars PROVE WaitInv'
    OBVIOUS
  <2>2. ASSUME NEW i \in 0..(MaxPackets - 1), Receive(i) PROVE WaitInv'
    BY <2>1, <2>2, ReceiveWait
  <2>3. CASE TimePasses
    BY <2>1, <2>3 DEF TimePasses, history, WaitInv
  <2>4. CASE ClientStart \/ Reconnect
    <3>1. DOMAIN buffer' = {} /\ starved' = 0
      BY <2>4 DEF ClientStart, Reconnect, StartOver
    <3>2. QED BY <3>1, FS_EmptySet DEF WaitInv
  <2>5. CASE StallReconnect
    BY <2>5 DEF StallReconnect, WaitInv
  <2>6. CASE UNCHANGED vars
    BY <2>1, <2>6 DEF vars, codeVars, history, WaitInv
  <2>7. QED BY <2>1, <2>2, <2>3, <2>4, <2>5, <2>6 DEF Next
<1>3. IInv /\ WaitInv => StallNeedsCause
  <2>1. SUFFICES ASSUME IInv, WaitInv, starved > MaxBuffer, ~gaveUp, ~mixed PROVE FALSE
    BY DEF StallNeedsCause
  <2>2. /\ starved <= Cardinality(DOMAIN buffer) /\ Cardinality(DOMAIN buffer) <= MaxBuffer
        /\ starved \in Nat
    BY <2>1, ReorderAssumption DEF IInv, WaitInv, TypeOK
  <2>3. Cardinality(DOMAIN buffer) \in Nat
    BY <2>1, BufferFinite DEF IInv
  <2>4. QED BY <2>1, <2>2, <2>3, SeqModNat
<1>4. QED BY <1>1, <1>2, <1>3, InvHolds, PTL DEF Spec

-----------------------------------------------------------------------------
(* One session. *)

\* What is buffered, too, is of the session the socket is in.
SessionInv ==
  ~mixed =>
    /\ \A s \in DOMAIN buffer : buffer[s].session = session
    /\ \A k \in DOMAIN delivered : delivered[k].session = session

\* Delivering takes the packet received and what is buffered.
LEMMA DeliverSession ==
  ASSUME TypeOK, SessionInv, NEW i \in Nat, NEW c, Deliver(i, c),
         session' = session, ~mixed
  PROVE  /\ \A s \in DOMAIN buffer' : buffer'[s].session = session
         /\ \A k \in DOMAIN delivered' : delivered'[k].session = session
<1>1. PICK n \in 0..Cardinality(DOMAIN buffer) :
        /\ Run(c.seq, n) \subseteq DOMAIN buffer
        /\ delivered' = delivered \o <<Received(i)>>
                                  \o [k \in 1..n |-> buffer[SeqOf(c.seq + k)]]
        /\ buffer' = Restrict(buffer, DOMAIN buffer \ Run(c.seq, n))
  BY DEF Deliver
<1>2. n \in Nat
  BY FS_CardinalityType, BufferFinite
<1> DEFINE taken == [k \in 1..n |-> buffer[SeqOf(c.seq + k)]]
<1>3. ASSUME NEW k \in 1..n PROVE taken[k] \in Packets /\ taken[k].session = session
  <2>1. SeqOf(c.seq + k) \in DOMAIN buffer
    BY <1>1 DEF Run
  <2>2. QED BY <2>1 DEF TypeOK, SessionInv
<1>4. taken \in Seq(Packets) /\ Len(taken) = n
  BY <1>2, <1>3
<1>5. Received(i).session = session
  BY DEF Received
<1>6. \A s \in DOMAIN buffer' : buffer'[s].session = session
  BY <1>1 DEF Restrict, SessionInv
<1>7. ASSUME NEW k \in DOMAIN delivered' PROVE delivered'[k].session = session
  <2> DEFINE first == delivered \o <<Received(i)>>
  <2>1. delivered \in Seq(Packets)
    BY DEF TypeOK
  <2>2. delivered' = (delivered \o <<Received(i)>>) \o taken
    BY <1>1
  <2> HIDE DEF taken
  <2> DEFINE S == Packets \cup {Received(i)}
  <2>3. delivered \in Seq(S) /\ <<Received(i)>> \in Seq(S) /\ taken \in Seq(S)
    BY <2>1, <1>4
  <2> HIDE DEF S
  <2>4. CASE k \in 1..Len(delivered)
    <3>1. delivered'[k] = delivered[k]
      BY <2>2, <2>3, <2>4
    <3>2. QED BY <2>1, <2>4, <3>1 DEF SessionInv
  <2>5. CASE k = Len(delivered) + 1
    <3>1. delivered'[k] = Received(i)
      BY <2>2, <2>3, <2>5
    <3>2. QED BY <1>5, <3>1
  <2>6. CASE k - Len(delivered) - 1 \in 1..n
    <3>1. delivered'[k] = taken[k - Len(delivered) - 1]
      BY <1>2, <1>4, <2>2, <2>3, <2>6
    <3>2. QED BY <1>3, <2>6, <3>1 DEF taken
  <2>7. k \in 1..(Len(delivered) + 1 + n)
    BY <1>2, <1>4, <2>2, <2>3
  <2>8. Len(delivered) \in Nat
    BY <2>1
  <2>9. QED BY <1>2, <2>4, <2>5, <2>6, <2>7, <2>8
<1>8. QED BY <1>6, <1>7

LEMMA ReceiveSession ==
  ASSUME TypeOK, SessionInv, NEW i \in 0..(MaxPackets - 1), Receive(i)
  PROVE  SessionInv'
<1>1. SUFFICES ASSUME ~mixed
               PROVE  /\ \A s \in DOMAIN buffer' : buffer'[s].session = session
                      /\ \A k \in DOMAIN delivered' : delivered'[k].session = session
  BY DEF Receive, SessionInv
<1>2. PICK c : Deliver(i, c) \/ Hold(i, c) \/ JumpTo(i) \/ Drop(i, c)
  BY DEF Receive, ReorderDeliver
<1>3. CASE Deliver(i, c)
  BY <1>1, <1>3, DeliverSession DEF Receive
<1>4. CASE Hold(i, c)
  BY <1>1, <1>4 DEF Hold, Received, SessionInv
<1>5. CASE JumpTo(i)
  BY <1>1, <1>5 DEF JumpTo, Received, SessionInv
<1>6. CASE Drop(i, c)
  BY <1>1, <1>6 DEF Drop, SessionInv
<1>7. QED BY <1>2, <1>3, <1>4, <1>5, <1>6

\* Only the stall reconnect lets an old session's packet through to the new reassembler.
THEOREM OneSessionFed == Spec => []OneSession
<1>1. Init => SessionInv
  BY DEF Init, SessionInv
<1>2. TypeOK /\ SessionInv /\ [Next]_vars => SessionInv'
  <2>1. SUFFICES ASSUME TypeOK, SessionInv, [Next]_vars PROVE SessionInv'
    OBVIOUS
  <2>2. ASSUME NEW i \in 0..(MaxPackets - 1), Receive(i) PROVE SessionInv'
    BY <2>1, <2>2, ReceiveSession
  <2>3. CASE TimePasses
    BY <2>1, <2>3 DEF TimePasses, history, SessionInv
  <2>4. CASE ClientStart \/ Reconnect
    BY <2>4 DEF ClientStart, Reconnect, StartOver, SessionInv
  <2>5. CASE StallReconnect
    BY <2>5 DEF StallReconnect, SessionInv
  <2>6. CASE UNCHANGED vars
    BY <2>1, <2>6 DEF vars, codeVars, history, SessionInv
  <2>7. QED BY <2>1, <2>2, <2>3, <2>4, <2>5, <2>6 DEF Next
<1>3. SessionInv => OneSession
  BY DEF SessionInv, OneSession
<1>4. QED BY <1>1, <1>2, <1>3, TypeCorrect, PTL DEF Spec
=============================================================================
