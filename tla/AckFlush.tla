-------------------------------- MODULE AckFlush -------------------------------
(***************************************************************************)
(* The batched acknowledgements of read_stream() (camera_session.py): the  *)
(* main loop notes what arrives and flushes a full list, a thread flushes  *)
(* what has waited for 40 ms, the RTSP thread and the reconnects empty the *)
(* list.  Taking the list happens under ack_lock, sending what was taken   *)
(* does not.                                                               *)
(*                                                                         *)
(* A packet stands for one arrival of a datagram, numbered as they come;   *)
(* the number it carries is left out.                                      *)
(***************************************************************************)
EXTENDS Integers, FiniteSets

CONSTANTS
  Batch,       \* how many acknowledgements are flushed at once: 17
  MaxPackets,  \* bound: how many packets arrive
  MaxSession,  \* bound: the sessions are 1..MaxSession
  MaxStarts    \* bound: how often a first client starts the stream

ASSUME AckAssumption ==
  /\ Batch \in Nat \ {0}
  /\ MaxPackets \in Nat /\ MaxSession \in Nat \ {0} /\ MaxStarts \in Nat

Packets == 1..MaxPackets

VARIABLES
  main,         \* where the main loop stands
  pending,      \* pending_ack_ids
  mainBatch,    \* ids of _flush_acks() in the main loop
  threadBatch,  \* ids of _flush_acks() in the flush thread
  session,      \* session_epoch
  located,      \* camera_ip is known
  resets,       \* the reconnect under way will empty the list
  starts,
  arrived,      \* history: the number of packets that have arrived
  origin,       \* history: the session each of them arrived in
  acked,        \* history: the packets whose acknowledgement was sent
  dropped,      \* history: those for which none will be sent
  kept          \* history: a reconnect has left the list as it was

counts == <<session, located, resets, starts>>
vars   == <<main, pending, mainBatch, threadBatch, counts, arrived, origin, acked, dropped,
            kept>>

Reading == {"read", "full", "send"}

TypeOK ==
  /\ main \in Reading \cup {"locate", "connect"}
  /\ pending \subseteq Packets /\ mainBatch \subseteq Packets /\ threadBatch \subseteq Packets
  /\ \A b \in {pending, mainBatch, threadBatch} : Cardinality(b) <= Batch
  /\ session \in 1..MaxSession /\ located \in BOOLEAN /\ resets \in BOOLEAN
  /\ starts \in 0..MaxStarts /\ arrived \in 0..MaxPackets
  /\ origin \in [Packets -> 0..MaxSession]
  /\ acked \subseteq Packets /\ dropped \subseteq Packets /\ kept \in BOOLEAN

-----------------------------------------------------------------------------
(* Noting and flushing. *)

\* Mutant: the list is flushed when it holds more than a batch.
FullAfter(ids) == Cardinality(ids) > Batch

Full(ids) == Cardinality(ids) >= Batch

\* _enqueue_ack() up to the release of the lock.
Receive ==
  /\ main = "read" /\ arrived < MaxPackets
  /\ arrived' = arrived + 1
  /\ origin' = [origin EXCEPT ![arrived + 1] = session]
  /\ pending' = pending \cup {arrived + 1}
  /\ main' = IF Full(pending') THEN "full" ELSE "read"
  /\ UNCHANGED <<mainBatch, threadBatch, counts, acked, dropped, kept>>

\* Mutant: the list is copied and not cleared.
Copy(batch) == batch' = pending /\ UNCHANGED <<pending, kept>>

\* _flush_acks() under ack_lock.
Take(batch) == batch' = pending /\ pending' = {} /\ kept' = FALSE

\* _send(), which does nothing while reconnect() looks for the camera.
Send(batch) ==
  /\ batch' = {}
  /\ IF located THEN acked' = acked \cup batch /\ UNCHANGED dropped
                ELSE dropped' = dropped \cup batch /\ UNCHANGED acked

\* The list is full and the flush thread may empty it first.
FullTake ==
  /\ main = "full" /\ main' = "send"
  /\ Take(mainBatch)
  /\ UNCHANGED <<threadBatch, counts, arrived, origin, acked, dropped>>

FullSend ==
  /\ main = "send" /\ main' = "read"
  /\ Send(mainBatch)
  /\ UNCHANGED <<pending, threadBatch, counts, arrived, origin, kept>>

\* Mutant: the thread, too, waits for a full list.
TimedTakeFull ==
  /\ threadBatch = {}
  /\ IF Full(pending) THEN Take(threadBatch) ELSE UNCHANGED <<pending, threadBatch, kept>>
  /\ UNCHANGED <<main, mainBatch, counts, arrived, origin, acked, dropped>>

\* 40 ms have passed since the last flush.
TimedTake ==
  /\ threadBatch = {}
  /\ Take(threadBatch)
  /\ UNCHANGED <<main, mainBatch, counts, arrived, origin, acked, dropped>>

TimedSend ==
  /\ threadBatch # {}
  /\ Send(threadBatch)
  /\ UNCHANGED <<main, pending, mainBatch, counts, arrived, origin, kept>>

\* The send raises, and the loop catches it.
TimedSendFails ==
  /\ threadBatch # {} /\ threadBatch' = {}
  /\ dropped' = dropped \cup threadBatch
  /\ UNCHANGED <<main, pending, mainBatch, counts, arrived, origin, acked, kept>>

-----------------------------------------------------------------------------
(* Starting over. *)

Clear ==
  /\ pending' = {} /\ dropped' = dropped \cup pending /\ kept' = FALSE

\* _on_client_connect() at its end, wherever the main loop is by then.
ClientStarts ==
  /\ starts < MaxStarts /\ starts' = starts + 1
  /\ Clear
  /\ UNCHANGED <<main, mainBatch, threadBatch, session, located, resets, arrived, origin,
                 acked>>

\* reconnect() begins, or begins anew after a failure.  reset: it is not the one after
\* three stalls.
BeginReconnect(reset) ==
  /\ main = "read" \/ (main \in {"locate", "connect"} /\ reset = resets)
  /\ session < MaxSession /\ session' = session + 1
  /\ main' = "locate" /\ located' = FALSE /\ resets' = reset
  /\ UNCHANGED <<pending, mainBatch, threadBatch, starts, arrived, origin, acked, dropped,
                 kept>>

\* discover() has found the camera: what is sent from now on goes out.
Locate ==
  /\ main = "locate" /\ main' = "connect" /\ located' = TRUE
  /\ UNCHANGED <<pending, mainBatch, threadBatch, session, resets, starts, arrived, origin,
                 acked, dropped, kept>>

\* Mutant: no reconnect empties the list.
FinishUncleared ==
  /\ main = "connect" /\ main' = "read" /\ kept' = (~resets /\ pending # {})
  /\ UNCHANGED <<pending, mainBatch, threadBatch, counts, arrived, origin, acked, dropped>>

Finish ==
  /\ main = "connect" /\ main' = "read"
  /\ IF resets THEN Clear ELSE kept' = (pending # {}) /\ UNCHANGED <<pending, dropped>>
  /\ UNCHANGED <<mainBatch, threadBatch, counts, arrived, origin, acked>>

-----------------------------------------------------------------------------
Init ==
  /\ main = "read" /\ pending = {} /\ mainBatch = {} /\ threadBatch = {}
  /\ session = 1 /\ located = TRUE /\ resets = TRUE /\ starts = 0
  /\ arrived = 0 /\ origin = [p \in Packets |-> 0] /\ acked = {} /\ dropped = {}
  /\ kept = FALSE

FlushThread == TimedTake \/ TimedSend \/ TimedSendFails

Next ==
  \/ Receive \/ FullTake \/ FullSend
  \/ FlushThread
  \/ ClientStarts
  \/ \E reset \in BOOLEAN : BeginReconnect(reset)
  \/ Locate \/ Finish

Spec == Init /\ [][Next]_vars

\* Both are threads that run; nothing holds ack_lock for long.
FairSpec == Spec /\ WF_vars(FullTake \/ FullSend) /\ WF_vars(FlushThread)

-----------------------------------------------------------------------------
(* Properties. *)

Places == <<pending, mainBatch, threadBatch, acked, dropped>>

\* A packet that has arrived is at one place: it waits, or one of the two threads is about
\* to send its acknowledgement, or that was sent, or it was given up with a session.  None
\* is acknowledged twice, and none is forgotten (_flush_acks() copies and clears at once).
Accounted ==
  /\ 1..arrived = UNION {Places[i] : i \in DOMAIN Places}
  /\ \A i, j \in DOMAIN Places : i # j => Places[i] \cap Places[j] = {}

\* While packets are read, the list holds what arrived in this session, but after the
\* reconnect that follows three stalls, which does not empty it (read_stream()).
ListIsCurrent ==
  main \in Reading /\ ~kept => \A p \in pending : origin[p] = session

\* Every packet's acknowledgement is sent, unless a session or a failing send takes it
\* along: a list that is not full does not wait for the next packet (_ack_flush_loop()).
EachAnswered == \A p \in Packets : (p <= arrived) ~> (p \in acked \cup dropped)
================================================================================
