----------------------------- MODULE BitEdgeLog -----------------------------
(***************************************************************************)
(* backend/bit_edges.py: the ring of bit changes kept for the watch        *)
(* stream.  One log belongs to one client (DeviceMemory.edges of the soft  *)
(* PLC, IoBuffers.edges of the Field Network scanner); a new client brings *)
(* a new log, which is Renew here.                                         *)
(*                                                                         *)
(* Times are natural numbers of one unit of the monotonic clock.           *)
(***************************************************************************)
EXTENDS Integers, Sequences

CONSTANTS
  Key,          \* the watched bits, (device, address) in the code
  MaxLen,       \* the ring's maxlen, 16384 in the code
  MinInterval   \* min_interval_s: 0 for the soft PLC, the RPI for a scanner

ASSUME LogAssumption ==
  /\ MaxLen \in Nat \ {0}
  /\ MinInterval \in Nat

VARIABLES
  watched,      \* _watched
  edges,        \* _edges, oldest first
  seq,          \* _seq
  lastMono      \* _last_mono, Never for a key without an entry

logVars == <<watched, edges, seq, lastMono>>

Never == -1
Bit == {0, 1}
BitEdge == [seq: Nat, key: Key, value: Bit, mono: Nat]

LogTypeOK ==
  /\ watched \subseteq Key
  /\ edges \in Seq(BitEdge)
  /\ Len(edges) <= MaxLen
  /\ seq \in Nat
  /\ lastMono \in [Key -> Nat \cup {Never}]

LogInit ==
  /\ watched = {}
  /\ edges = <<>>
  /\ seq = 0
  /\ lastMono = [k \in Key |-> Never]

\* A slip: the newest edge is dropped in place of the oldest.
PushNewestLost(ring, edge) ==
  IF Len(ring) < MaxLen THEN Append(ring, edge) ELSE ring

\* The deque of bounded length: a full ring drops its oldest edge.
Push(ring, edge) ==
  IF Len(ring) < MaxLen THEN Append(ring, edge) ELSE Append(Tail(ring), edge)

\* A slip: the key's previous edge is not looked at.
StampAsCame(key, mono) == mono

\* A stamp closer than MinInterval to the key's previous edge is put off.
Stamp(key, mono) ==
  IF lastMono[key] # Never /\ mono < lastMono[key] + MinInterval /\ MinInterval > 0
  THEN lastMono[key] + MinInterval
  ELSE mono

arm(keys) ==
  /\ watched' = keys
  /\ edges' = <<>>
  /\ lastMono' = [k \in Key |-> Never]
  /\ UNCHANGED seq

record(key, value, mono) ==
  IF key \in watched
  THEN LET at == Stamp(key, mono)
       IN  /\ lastMono' = [lastMono EXCEPT ![key] = at]
           /\ seq' = seq + 1
           /\ edges' = Push(edges, [seq |-> seq + 1, key |-> key,
                                    value |-> value, mono |-> at])
           /\ UNCHANGED watched
  ELSE UNCHANGED logVars

\* The elements of q at the positions in at, in their order.
Kept(q, at) ==
  LET kept[n \in 0..Len(q)] ==
        IF n = 0 THEN <<>>
        ELSE IF n \in at THEN Append(kept[n - 1], q[n]) ELSE kept[n - 1]
  IN  kept[Len(q)]

\* A slip: the edge at the cursor is handed out again.
takeAgain(after) == Kept(edges, {i \in 1..Len(edges): edges[i].seq >= after})

\* The edges newer than a cursor.
take(after) == Kept(edges, {i \in 1..Len(edges): edges[i].seq > after})

Renew ==
  /\ watched' = {}
  /\ edges' = <<>>
  /\ seq' = 0
  /\ lastMono' = [k \in Key |-> Never]

LogNext ==
  \/ \E keys \in SUBSET Key: arm(keys)
  \/ \E k \in Key, v \in Bit, t \in Nat: record(k, v, t)
  \/ Renew

LogSpec == LogInit /\ [][LogNext]_logVars

-----------------------------------------------------------------------------

\* Two changes of one bit are never shown closer to each other than the RPI,
\* and never in the opposite order: bit_edges.py:3-5 "RPI より短い幅を出さない".
EdgesSpaced ==
  MinInterval > 0 =>
    \A i, j \in 1..Len(edges):
      i < j /\ edges[i].key = edges[j].key
        => edges[j].mono >= edges[i].mono + MinInterval

\* Sequence numbers rise through the ring, so that a cursor hands an edge out
\* once and passes none over (BitEdgeLog.take).
SeqAscends ==
  /\ \A i, j \in 1..Len(edges): i < j => edges[i].seq < edges[j].seq
  /\ \A i \in 1..Len(edges): edges[i].seq <= seq

\* What the first rests on: lastMono is the time of a key's newest edge.  (With
\* MinInterval = 0 it need not be: a frame's stamp may precede a later write's.)
LastMonoIsNewest ==
  MinInterval > 0 => \A i \in 1..Len(edges): edges[i].mono <= lastMono[edges[i].key]

=============================================================================
