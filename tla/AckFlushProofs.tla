---------------------------- MODULE AckFlushProofs -----------------------------
(***************************************************************************)
(* Theorems about AckFlush, for any size of a batch and any number of      *)
(* packets, sessions and starts.  FlushInv adds where the main loop stands *)
(* when it has taken a batch, and that it does not read on with a full     *)
(* list.                                                                   *)
(***************************************************************************)
EXTENDS AckFlush, FiniteSetTheorems, TLAPS

Small(b) == IsFiniteSet(b) /\ Cardinality(b) <= Batch

FlushInv ==
  /\ Small(pending) /\ Small(mainBatch) /\ Small(threadBatch)
  /\ mainBatch # {} => main = "send"
  /\ main # "full" => Cardinality(pending) < Batch

\* The other types.
Types ==
  /\ main \in Reading \cup {"locate", "connect"}
  /\ pending \subseteq Packets /\ mainBatch \subseteq Packets /\ threadBatch \subseteq Packets
  /\ session \in 1..MaxSession /\ located \in BOOLEAN /\ resets \in BOOLEAN
  /\ starts \in 0..MaxStarts /\ arrived \in 0..MaxPackets
  /\ origin \in [Packets -> 0..MaxSession]
  /\ acked \subseteq Packets /\ dropped \subseteq Packets /\ kept \in BOOLEAN

\* Accounted, with its places by name.
Apart(a, b) == a \cap b = {}

Places5 ==
  /\ 1..arrived = pending \cup mainBatch \cup threadBatch \cup acked \cup dropped
  /\ Apart(pending, mainBatch) /\ Apart(pending, threadBatch) /\ Apart(pending, acked)
  /\ Apart(pending, dropped) /\ Apart(mainBatch, threadBatch) /\ Apart(mainBatch, acked)
  /\ Apart(mainBatch, dropped) /\ Apart(threadBatch, acked)
  /\ Apart(threadBatch, dropped) /\ Apart(acked, dropped)

-----------------------------------------------------------------------------
LEMMA SmallEmpty == Small({})
  BY FS_EmptySet, AckAssumption DEF Small

LEMMA TypesInit == Init => Types
<1>1. SUFFICES ASSUME Init PROVE Types
  OBVIOUS
<1>2. located \in BOOLEAN /\ resets \in BOOLEAN /\ kept \in BOOLEAN
  BY <1>1, Zenon DEF Init
<1>3. /\ session \in 1..MaxSession /\ starts \in 0..MaxStarts /\ arrived \in 0..MaxPackets
      /\ origin \in [Packets -> 0..MaxSession]
  BY <1>1, AckAssumption DEF Init
<1>4. QED BY <1>1, <1>2, <1>3 DEF Init, Types, Reading

LEMMA TypesStep == Types /\ [Next]_vars => Types'
<1>1. SUFFICES ASSUME Types, [Next]_vars PROVE Types'
  OBVIOUS
<1>2. CASE Receive
  <2>1. arrived + 1 \in Packets /\ arrived' \in 0..MaxPackets
    BY <1>1, <1>2, AckAssumption DEF Receive, Types, Packets
  <2>2. origin' \in [Packets -> 0..MaxSession]
    BY <1>1, <1>2, <2>1, AckAssumption DEF Receive, Types
  <2>3. pending' \subseteq Packets
    BY <1>1, <1>2, <2>1 DEF Receive, Types
  <2>4. QED BY <1>1, <1>2, <2>1, <2>2, <2>3 DEF Receive, Types, Reading, counts
<1>3. CASE FullTake
  BY <1>1, <1>3 DEF FullTake, Take, Types, Reading, counts
<1>4. CASE FullSend
  BY <1>1, <1>4 DEF FullSend, Send, Types, Reading, counts
<1>5. CASE TimedTake
  BY <1>1, <1>5 DEF TimedTake, Take, Types, counts
<1>6. CASE TimedSend
  BY <1>1, <1>6 DEF TimedSend, Send, Types, counts
<1>7. CASE TimedSendFails
  BY <1>1, <1>7 DEF TimedSendFails, Types, counts
<1>8. CASE ClientStarts
  <2>1. kept' \in BOOLEAN
    BY <1>8, Zenon DEF ClientStarts, Clear
  <2>2. starts' \in 0..MaxStarts
    BY <1>1, <1>8, AckAssumption DEF ClientStarts, Types
  <2>3. QED BY <1>1, <1>8, <2>1, <2>2 DEF ClientStarts, Clear, Types
<1>9. ASSUME NEW reset \in BOOLEAN, BeginReconnect(reset) PROVE Types'
  <2>1. located' \in BOOLEAN /\ resets' \in BOOLEAN
    BY <1>9, Zenon DEF BeginReconnect
  <2>2. session' \in 1..MaxSession
    BY <1>1, <1>9, AckAssumption DEF BeginReconnect, Types
  <2>3. QED BY <1>1, <1>9, <2>1, <2>2 DEF BeginReconnect, Types
<1>10. CASE Locate
  BY <1>1, <1>10 DEF Locate, Types
<1>11. CASE Finish
  <2>1. kept' \in BOOLEAN /\ pending' \subseteq Packets /\ dropped' \subseteq Packets
    BY <1>1, <1>11 DEF Finish, Clear, Types
  <2>2. QED BY <1>1, <1>11, <2>1 DEF Finish, Types, Reading, counts
<1>12. CASE UNCHANGED vars
  BY <1>1, <1>12 DEF vars, counts, Types
<1>13. QED
  BY <1>1, <1>2, <1>3, <1>4, <1>5, <1>6, <1>7, <1>8, <1>9, <1>10, <1>11, <1>12
  DEF Next, FlushThread

-----------------------------------------------------------------------------
LEMMA FlushInit == Init => FlushInv
  BY SmallEmpty, FS_EmptySet, AckAssumption DEF Init, FlushInv

LEMMA FlushStep == Types /\ FlushInv /\ [Next]_vars => FlushInv'
<1>1. SUFFICES ASSUME Types, FlushInv, [Next]_vars PROVE FlushInv'
  OBVIOUS
<1>2. Small({}) /\ Cardinality({}) < Batch
  BY SmallEmpty, FS_EmptySet, AckAssumption
<1>3. CASE Receive
  <2>1. IsFiniteSet(pending) /\ Cardinality(pending) < Batch
    BY <1>1, <1>3 DEF Receive, FlushInv, Small
  <2>2. Cardinality(pending) \in Nat
    BY <2>1, FS_CardinalityType
  <2>3. /\ IsFiniteSet(pending')
        /\ Cardinality(pending') \in {Cardinality(pending), Cardinality(pending) + 1}
    BY <1>3, <2>1, FS_AddElement DEF Receive
  <2>4. Small(pending')
    BY <2>1, <2>2, <2>3, AckAssumption DEF Small
  <2>5. main' # "full" => Cardinality(pending') < Batch
    BY <1>3, <2>2, <2>3, AckAssumption DEF Receive, Full
  <2>6. mainBatch' = mainBatch /\ threadBatch' = threadBatch /\ mainBatch = {}
    BY <1>1, <1>3 DEF Receive, FlushInv
  <2>7. QED BY <1>1, <2>4, <2>5, <2>6 DEF FlushInv
<1>4. CASE FullTake
  BY <1>1, <1>2, <1>4 DEF FullTake, Take, FlushInv
<1>5. CASE FullSend
  BY <1>1, <1>2, <1>5 DEF FullSend, Send, FlushInv
<1>6. CASE TimedTake
  BY <1>1, <1>2, <1>6 DEF TimedTake, Take, FlushInv
<1>7. CASE TimedSend \/ TimedSendFails
  BY <1>1, <1>2, <1>7 DEF TimedSend, TimedSendFails, Send, FlushInv
<1>8. CASE ClientStarts
  BY <1>1, <1>2, <1>8 DEF ClientStarts, Clear, FlushInv
<1>9. ASSUME NEW reset \in BOOLEAN, BeginReconnect(reset) PROVE FlushInv'
  BY <1>1, <1>9 DEF BeginReconnect, FlushInv
<1>10. CASE Locate \/ Finish
  BY <1>1, <1>2, <1>10 DEF Locate, Finish, Clear, FlushInv
<1>11. CASE UNCHANGED vars
  BY <1>1, <1>11 DEF vars, FlushInv
<1>12. QED
  BY <1>1, <1>3, <1>4, <1>5, <1>6, <1>7, <1>8, <1>9, <1>10, <1>11 DEF Next, FlushThread

\* The variables keep their types, and neither thread ever takes more than a batch.
THEOREM AckTypeCorrect == Spec => []TypeOK
<1>1. Types /\ FlushInv => TypeOK
  BY DEF Types, FlushInv, Small, TypeOK
<1>2. QED BY TypesInit, TypesStep, FlushInit, FlushStep, <1>1, PTL DEF Spec

-----------------------------------------------------------------------------
LEMMA PlacesNamed == Accounted <=> Places5
<1> DEFINE all == UNION {Places[i] : i \in DOMAIN Places}
<1>1. DOMAIN Places = 1..5
  BY DEF Places
<1>2. /\ Places[1] = pending /\ Places[2] = mainBatch /\ Places[3] = threadBatch
      /\ Places[4] = acked /\ Places[5] = dropped
  BY DEF Places
<1>3. all = pending \cup mainBatch \cup threadBatch \cup acked \cup dropped
  BY <1>1, <1>2
<1>4. ASSUME Accounted PROVE Places5
  BY <1>1, <1>2, <1>3, <1>4 DEF Accounted, Places5, Apart
<1>5. ASSUME Places5 PROVE Accounted
  <2>1. 1..arrived = all
    BY <1>3, <1>5 DEF Places5
  <2>2. ASSUME NEW i \in 1..5, NEW j \in 1..5, i # j PROVE Places[i] \cap Places[j] = {}
    <3>1. i \in {1, 2, 3, 4, 5} /\ j \in {1, 2, 3, 4, 5}
      OBVIOUS
    <3>2. QED BY <1>2, <1>5, <2>2, <3>1 DEF Places5, Apart
  <2>3. QED BY <1>1, <2>1, <2>2 DEF Accounted
<1>6. QED BY <1>4, <1>5

LEMMA PlacesStep == Types /\ FlushInv /\ Places5 /\ [Next]_vars => Places5'
<1>1. SUFFICES ASSUME Types, FlushInv, Places5, [Next]_vars PROVE Places5'
  OBVIOUS
<1>2. CASE Receive
  <2>1. arrived \in Nat /\ arrived' = arrived + 1 /\ pending' = pending \cup {arrived + 1}
    BY <1>1, <1>2, AckAssumption DEF Receive, Types
  <2>2. 1..arrived' = 1..arrived \cup {arrived + 1} /\ arrived + 1 \notin 1..arrived
    BY <2>1
  <2>3. /\ arrived + 1 \notin mainBatch /\ arrived + 1 \notin threadBatch
        /\ arrived + 1 \notin acked /\ arrived + 1 \notin dropped
    BY <1>1, <2>2 DEF Places5
  <2>4. QED BY <1>1, <1>2, <2>1, <2>2, <2>3 DEF Receive, Places5, Apart
<1>3. CASE FullTake
  <2>1. UNCHANGED <<arrived, threadBatch, acked, dropped>>
    BY <1>3 DEF FullTake
  <2>2. mainBatch' = pending /\ pending' = {}
    BY <1>3 DEF FullTake, Take
  <2>3. mainBatch = {}
    BY <1>1, <1>3 DEF FullTake, FlushInv
  <2>4. QED BY <1>1, <2>1, <2>2, <2>3 DEF Places5, Apart
<1>4. CASE FullSend
  BY <1>1, <1>4 DEF FullSend, Send, Places5, Apart
<1>5. CASE TimedTake
  BY <1>1, <1>5 DEF TimedTake, Take, Places5, Apart
<1>6. CASE TimedSend
  BY <1>1, <1>6 DEF TimedSend, Send, Places5, Apart
<1>7. CASE TimedSendFails
  BY <1>1, <1>7 DEF TimedSendFails, Places5, Apart
<1>8. CASE ClientStarts
  BY <1>1, <1>8 DEF ClientStarts, Clear, Places5, Apart
<1>9. ASSUME NEW reset \in BOOLEAN, BeginReconnect(reset) PROVE Places5'
  BY <1>1, <1>9 DEF BeginReconnect, Places5, Apart
<1>10. CASE Locate
  BY <1>1, <1>10 DEF Locate, Places5, Apart
<1>11. CASE Finish
  BY <1>1, <1>11 DEF Finish, Clear, Places5, Apart
<1>12. CASE UNCHANGED vars
  BY <1>1, <1>12 DEF vars, Places5, Apart
<1>13. QED
  BY <1>1, <1>2, <1>3, <1>4, <1>5, <1>6, <1>7, <1>8, <1>9, <1>10, <1>11, <1>12
  DEF Next, FlushThread

LEMMA PlacesHold == Spec => [](Types /\ FlushInv /\ Places5)
<1>1. Init => Places5
  BY DEF Init, Places5, Apart
<1>2. QED BY <1>1, TypesInit, TypesStep, FlushInit, FlushStep, PlacesStep, PTL DEF Spec

\* No packet is acknowledged twice and none is forgotten, however the two threads that
\* flush, the resets and the reconnects interleave.
THEOREM AllAccounted == Spec => []Accounted
<1>1. QED BY PlacesHold, PlacesNamed, PTL

-----------------------------------------------------------------------------
\* After a reconnect that empties the list, the list holds the new session's packets only.
THEOREM ListCurrent == Spec => []ListIsCurrent
<1>1. Init => ListIsCurrent
  BY DEF Init, ListIsCurrent
<1>2. Types /\ FlushInv /\ Places5 /\ ListIsCurrent /\ [Next]_vars => ListIsCurrent'
  <2>1. SUFFICES ASSUME Types, Places5, ListIsCurrent, [Next]_vars PROVE ListIsCurrent'
    OBVIOUS
  <2>2. CASE Receive
    <3>1. arrived \in Nat /\ arrived + 1 \in Packets
      BY <2>1, <2>2, AckAssumption DEF Receive, Types, Packets
    <3>2. ASSUME NEW p \in pending', ~kept' PROVE origin'[p] = session'
      <4>1. CASE p = arrived + 1
        BY <2>1, <2>2, <3>1, <4>1 DEF Receive, Types, counts
      <4>2. CASE p \in pending
        <5>1. p \in 1..arrived /\ p \in Packets
          BY <2>1, <4>2 DEF Places5, Types
        <5>2. p # arrived + 1 /\ ~kept /\ main \in Reading /\ session' = session
          BY <2>2, <3>1, <3>2, <5>1 DEF Receive, Reading, counts
        <5>3. origin'[p] = origin[p]
          BY <2>1, <2>2, <5>1, <5>2 DEF Receive, Types
        <5>4. QED BY <2>1, <4>2, <5>2, <5>3 DEF ListIsCurrent
      <4>3. QED BY <2>2, <3>2, <4>1, <4>2 DEF Receive
    <3>3. QED BY <3>2 DEF ListIsCurrent
  <2>3. CASE FullTake \/ TimedTake
    BY <2>3 DEF FullTake, TimedTake, Take, ListIsCurrent
  <2>4. CASE FullSend
    BY <2>1, <2>4 DEF FullSend, counts, Reading, ListIsCurrent
  <2>5. CASE TimedSend \/ TimedSendFails
    BY <2>1, <2>5 DEF TimedSend, TimedSendFails, counts, ListIsCurrent
  <2>6. CASE ClientStarts
    BY <2>6 DEF ClientStarts, Clear, ListIsCurrent
  <2>7. ASSUME NEW reset \in BOOLEAN, BeginReconnect(reset) PROVE ListIsCurrent'
    BY <2>7 DEF BeginReconnect, Reading, ListIsCurrent
  <2>8. CASE Locate
    BY <2>8 DEF Locate, Reading, ListIsCurrent
  <2>9. CASE Finish
    BY <2>9 DEF Finish, Clear, ListIsCurrent
  <2>10. CASE UNCHANGED vars
    BY <2>1, <2>10 DEF vars, counts, ListIsCurrent
  <2>11. QED
    BY <2>1, <2>2, <2>3, <2>4, <2>5, <2>6, <2>7, <2>8, <2>9, <2>10 DEF Next, FlushThread
<1>3. QED BY <1>1, <1>2, PlacesHold, PTL DEF Spec
================================================================================
