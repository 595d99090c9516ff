----------------------------- MODULE WatchStream -----------------------------
(***************************************************************************)
(* The high-speed watch: the /ws/watch endpoint (backend/main.py), its     *)
(* sampling loop (backend/watch_stream.py) and the bits it watches.        *)
(*                                                                         *)
(* Bits change on the event loop, either by a write of the program itself  *)
(* or by a frame or packet of the device that a receiving thread stamped   *)
(* on arrival and queued.  A stream is one WebSocket: starting it arms the *)
(* log of the client in use, its loop takes the new edges and a snapshot   *)
(* without an await in between, stopping it cancels the loop, waits, and   *)
(* disarms the log it had armed.                                           *)
(***************************************************************************)
EXTENDS BitEdgeLog

CONSTANTS
  Stream,        \* the WebSocket connections
  ProgramKey,    \* bits the program writes (trigger, ESI/PLI ports)
  DeviceKey,     \* bits the device writes (BUSY, ESO/PLO ports)
  MaxLag,        \* bound: age of a stamp when its frame is handled
  MaxTime,       \* bound: the clock of the model
  MaxSeq,        \* bound: edges numbered in one log
  MaxOwed,       \* bound: changes a stream is owed at once
  MaxGeneration  \* bound: clients, and so logs

ASSUME WatchAssumption ==
  /\ ProgramKey \cup DeviceKey = Key
  /\ MaxLag \in Nat
  /\ {MaxTime, MaxSeq, MaxOwed, MaxGeneration} \subseteq Nat

NoLog == 0       \* armed_edges is None; logs are numbered from 1

VARIABLES
  now,           \* perf_counter
  bit,           \* the device memory or the I/O buffers
  frameAt,       \* stamp of the newest frame handled
  client,        \* is there a client in use, read_once working
  generation,    \* number of the log of that client
  phase,         \* per stream: "idle", "running", "ended", "stopping"
  items,         \* the bits the stream asked for
  armed,         \* armed_edges, as the number of the log
  cursor,        \* edge_cursor["seq"]
  previous,      \* run_watch_loop's previous
  sample,        \* the newest sample sent
  view,          \* what the browser shows: state.watchValues
  owed           \* history: changes of the items since they were last taken

streamVars == <<phase, items, armed, cursor, previous, sample, view, owed>>
plantVars == <<now, bit, frameAt, client, generation>>
vars == <<logVars, plantVars, streamVars>>

Unknown == -1    \* a bit the browser or the loop has not seen
NoSample == [mono |-> 0, edges |-> <<>>]
Unseen == [k \in Key |-> Unknown]

TypeOK ==
  /\ LogTypeOK
  /\ now \in 0..MaxTime
  /\ bit \in [Key -> Bit]
  /\ frameAt \in 0..now
  /\ client \in BOOLEAN
  /\ generation \in Nat
  /\ phase \in [Stream -> {"idle", "running", "ended", "stopping"}]
  /\ items \in [Stream -> SUBSET Key]
  /\ armed \in [Stream -> 0..generation]
  /\ cursor \in [Stream -> Nat]
  /\ previous \in [Stream -> [Key -> Bit \cup {Unknown}]]
  /\ sample \in [Stream -> [mono: Nat, edges: Seq(BitEdge)]]
  /\ view \in [Stream -> [Key -> Bit \cup {Unknown}]]
  /\ owed \in [Stream -> Seq(Key \X Bit)]

Init ==
  /\ LogInit
  /\ now = 0
  /\ bit = [k \in Key |-> 0]
  /\ frameAt = 0
  /\ client = TRUE
  /\ generation = 1
  /\ phase = [s \in Stream |-> "idle"]
  /\ items = [s \in Stream |-> {}]
  /\ armed = [s \in Stream |-> NoLog]
  /\ cursor = [s \in Stream |-> 0]
  /\ previous = [s \in Stream |-> Unseen]
  /\ sample = [s \in Stream |-> NoSample]
  /\ view = [s \in Stream |-> Unseen]
  /\ owed = [s \in Stream |-> <<>>]

-----------------------------------------------------------------------------
(* The plant.                                                              *)

Tick ==
  /\ now < MaxTime
  /\ now' = now + 1
  /\ UNCHANGED <<logVars, bit, frameAt, client, generation, streamVars>>

Change(k, stamp) ==
  /\ seq < MaxSeq
  /\ \A s \in Stream: Len(owed[s]) < MaxOwed
  /\ bit' = [bit EXCEPT ![k] = 1 - @]
  /\ record(k, 1 - bit[k], stamp)
  /\ owed' = [s \in Stream |->
                IF phase[s] = "running" /\ k \in items[s]
                THEN Append(owed[s], <<k, 1 - bit[k]>>) ELSE owed[s]]
  /\ UNCHANGED <<now, client, generation, phase, items, armed, cursor,
                 previous, sample, view>>

\* set_bit, write_output, set_output_bit: resolve_mono gives the time of now.
ProgramWrite(k) ==
  /\ client
  /\ k \in ProgramKey
  /\ Change(k, now)
  /\ UNCHANGED frameAt

\* _consume_frames and _drain_rx: the stamp is the time of arrival, and frames
\* are handled in the order they arrived.
DeviceWrite(k, arrived) ==
  /\ client
  /\ k \in DeviceKey
  /\ arrived >= frameAt
  /\ frameAt' = arrived
  /\ Change(k, arrived)

\* A change of the settings closes the client; the next one has a new memory
\* and a new log.
CloseClient ==
  /\ client
  /\ client' = FALSE
  /\ UNCHANGED <<logVars, now, bit, frameAt, generation, streamVars>>

OpenClient ==
  /\ ~client
  /\ generation < MaxGeneration
  /\ client' = TRUE
  /\ generation' = generation + 1
  /\ Renew
  /\ bit' = [k \in Key |-> 0]
  /\ UNCHANGED <<now, frameAt, streamVars>>

-----------------------------------------------------------------------------
(* A stream.                                                               *)

\* The start message after stop_loop: the log of the client in use is armed.
Start(s, keys) ==
  /\ phase[s] = "idle"
  /\ phase' = [phase EXCEPT ![s] = "running"]
  /\ items' = [items EXCEPT ![s] = keys]
  /\ IF client
     THEN /\ arm(keys)
          /\ armed' = [armed EXCEPT ![s] = generation]
          /\ cursor' = [cursor EXCEPT ![s] = seq]
     ELSE /\ UNCHANGED <<logVars, armed>>
          /\ cursor' = [cursor EXCEPT ![s] = 0]
  /\ previous' = [previous EXCEPT ![s] = Unseen]
  /\ owed' = [owed EXCEPT ![s] = <<>>]
  /\ UNCHANGED <<plantVars, sample, view>>

\* The rows sent: all of them, or those that differ from previous.
Rows(s, full) == {k \in items[s]: full \/ bit[k] # previous[s][k]}

\* A slip: a sample of differences leaves previous as it was.
SeenInFull(s, full) ==
  [k \in Key |-> IF ~full THEN previous[s][k]
                ELSE IF k \in items[s] THEN bit[k] ELSE Unknown]

\* previous after the sample, full or not.
Seen(s, full) == [k \in Key |-> IF k \in items[s] THEN bit[k] ELSE Unknown]

Latest(monos) == CHOOSE m \in monos: \A n \in monos: n <= m

\* A slip: a sample with edges is stamped with the newest of them.
NewestEdge(monos, t) == IF monos = {} THEN t ELSE Latest(monos)

\* mono_ms of a sample: the time of sending, or of an edge put off beyond it.
Newest(monos, t) == Latest(monos \cup {t})

\* Those of the edges taken that are of the stream's items.
OfItems(s, fresh) ==
  Kept(fresh, {i \in 1..Len(fresh): fresh[i].key \in items[s]})

\* One pass of the loop: take, snapshot, difference, send.
Sample(s, full) ==
  /\ phase[s] = "running"
  /\ client
  /\ full \/ previous[s] # Unseen
  /\ LET shown == OfItems(s, take(cursor[s]))
     IN  /\ cursor' = [cursor EXCEPT ![s] = seq]
         /\ sample' = [sample EXCEPT ![s] =
              [mono |-> Newest({shown[i].mono: i \in 1..Len(shown)}, now),
               edges |-> shown]]
  /\ previous' = [previous EXCEPT ![s] = Seen(s, full)]
  /\ view' = [view EXCEPT ![s] =
       [k \in Key |-> IF k \in Rows(s, full) THEN bit[k]
                      ELSE IF full THEN Unknown ELSE @[k]]]
  /\ owed' = [owed EXCEPT ![s] = <<>>]
  /\ UNCHANGED <<logVars, plantVars, phase, items, armed>>

\* read_once raises without a client: an error is sent and the loop ends.
FailSample(s) ==
  /\ phase[s] = "running"
  /\ ~client
  /\ phase' = [phase EXCEPT ![s] = "ended"]
  /\ UNCHANGED <<logVars, plantVars, items, armed, cursor, previous, sample,
                 view, owed>>

\* disarm_edges: the log that was armed, which may be in use by another.
Disarm(s) ==
  /\ armed' = [armed EXCEPT ![s] = NoLog]
  /\ IF armed[s] = generation /\ client THEN arm({}) ELSE UNCHANGED logVars

\* stop_loop on a stop, a new start or a lost connection: the loop is told to
\* stop and cancelled ...
BeginStop(s) ==
  /\ phase[s] = "running"
  /\ phase' = [phase EXCEPT ![s] = "stopping"]
  /\ UNCHANGED <<logVars, plantVars, items, armed, cursor, previous, sample,
                 view, owed>>

\* ... and when it is gone the log is disarmed.
FinishStop(s) ==
  /\ phase[s] \in {"stopping", "ended"}
  /\ phase' = [phase EXCEPT ![s] = "idle"]
  /\ Disarm(s)
  /\ items' = [items EXCEPT ![s] = {}]
  /\ cursor' = [cursor EXCEPT ![s] = 0]
  /\ previous' = [previous EXCEPT ![s] = Unseen]
  /\ sample' = [sample EXCEPT ![s] = NoSample]
  /\ owed' = [owed EXCEPT ![s] = <<>>]
  /\ UNCHANGED <<plantVars, view>>

-----------------------------------------------------------------------------

Next ==
  \/ Tick
  \/ \E k \in Key: ProgramWrite(k)
  \/ \E k \in Key, lag \in 0..MaxLag: now >= lag /\ DeviceWrite(k, now - lag)
  \/ CloseClient
  \/ OpenClient
  \/ \E s \in Stream, keys \in SUBSET Key \ {{}}: Start(s, keys)
  \/ \E s \in Stream, full \in BOOLEAN: Sample(s, full)
  \/ \E s \in Stream: FailSample(s) \/ BeginStop(s) \/ FinishStop(s)

Spec == Init /\ [][Next]_vars

-----------------------------------------------------------------------------

\* What take_edges would hand the stream now.
Pending(s) == OfItems(s, take(cursor[s]))

NewestOf(q) ==
  IF Len(q) <= MaxLen THEN q ELSE SubSeq(q, Len(q) - MaxLen + 1, Len(q))

\* No change is lost on the way to a stream whose log is armed, except the
\* oldest ones when more of them come between two samples than the ring holds:
\* the pulse shorter than the poll, for which the log was written.
EdgesReachStream ==
  \A s \in Stream: phase[s] = "running" /\ client /\ armed[s] = generation =>
    LET got == Pending(s)
    IN  [i \in 1..Len(got) |-> <<got[i].key, got[i].value>>] = NewestOf(owed[s])

\* The last point a sample's edges draw for a bit, in the order of
\* format_bit_edges (mono, then seq), is the level the browser shows for it.
IsLast(es, i) ==
  \A j \in 1..Len(es): es[j].key = es[i].key
    => \/ es[j].mono < es[i].mono
       \/ es[j].mono = es[i].mono /\ es[j].seq <= es[i].seq

LevelsAgree ==
  \A s \in Stream: LET es == sample[s].edges IN
    \A i \in 1..Len(es): IsLast(es, i) => view[s][es[i].key] = es[i].value

\* Merging the differences sent gives the browser the snapshot of the moment,
\* whether the sample is a full one or not (diff_values, watchValues).
ViewFollows ==
  [][\A s \in Stream, full \in BOOLEAN:
       Sample(s, full) => \A k \in items[s]: view'[s][k] = bit[k]]_vars

\* The time axis of one stream never runs back from a sample to the next
\* (watch_stream.py:155), but for a sample that an edge put off by the RPI had
\* stamped ahead of the time it was sent at: the next one may fall behind that.
SampleClockMonotone ==
  [][\A s \in Stream, full \in BOOLEAN:
       Sample(s, full) => \/ sample'[s].mono >= sample[s].mono
                          \/ MinInterval > 0 /\ sample[s].mono > now]_vars

=============================================================================
