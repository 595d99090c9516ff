------------------------- MODULE WatchStream_proofs -------------------------
(***************************************************************************)
(* Proofs about WatchStream and BitEdgeLog, for any sets of bits and       *)
(* streams, any ring and any RPI: first the log, whose promises hold       *)
(* whatever the streams do, then the types, what a page shows after a      *)
(* sample, the level its edges end at, the time axis, and that no change   *)
(* is lost on the way.                                                     *)
(*                                                                         *)
(* The invariant of the log adds to its two promises that lastMono is the  *)
(* time of a key's newest edge (LastMonoIsNewest), without which a stamp   *)
(* could be put off from the wrong edge, and the types.                    *)
(***************************************************************************)
EXTENDS WatchStream, WellFoundedInduction, TLAPS

USE DEF Never, Bit

\* The invariant of the log.
LogInv == LogTypeOK /\ EdgesSpaced /\ SeqAscends /\ LastMonoIsNewest

\* What a write hands to the log.
PlantOK == now \in Nat /\ frameAt \in Nat /\ bit \in [Key -> Bit]

\* Pushing keeps all of the old edges but the oldest, in their order, and puts
\* the new one last.
LEMMA PushIs ==
  ASSUME NEW ring \in Seq(BitEdge), NEW edge \in BitEdge, Len(ring) <= MaxLen
  PROVE  LET new == Push(ring, edge) IN
         /\ new \in Seq(BitEdge)
         /\ Len(new) \in 1..MaxLen
         /\ new[Len(new)] = edge
         /\ \E d \in {0, 1}:
              /\ Len(new) - 1 + d = Len(ring) /\ (d = 1 => Len(new) = MaxLen)
              /\ \A i \in 1..(Len(new) - 1): new[i] = ring[i + d]
<1> USE LogAssumption
<1>1. CASE Len(ring) < MaxLen
  <2>1. Push(ring, edge) = Append(ring, edge)
    BY <1>1 DEF Push
  <2> DEFINE new == Append(ring, edge)
  <2>2. /\ new \in Seq(BitEdge) /\ Len(new) = Len(ring) + 1
        /\ new[Len(new)] = edge
        /\ \A i \in 1..Len(ring): new[i] = ring[i]
    OBVIOUS
  <2>3. \A i \in 1..(Len(new) - 1): new[i] = ring[i + 0]
    BY <2>2
  <2>4. Len(new) \in 1..MaxLen
    BY <1>1, <2>2
  <2> QED
    BY <2>1, <2>2, <2>3, <2>4
<1>2. CASE ~(Len(ring) < MaxLen)
  <2>1. Push(ring, edge) = Append(Tail(ring), edge)
    BY <1>2 DEF Push
  <2>2. ring # <<>> /\ Len(ring) = MaxLen
    BY <1>2
  <2> DEFINE new == Append(Tail(ring), edge)
  <2>3. /\ Tail(ring) \in Seq(BitEdge) /\ Len(Tail(ring)) = Len(ring) - 1
        /\ \A i \in 1..(Len(ring) - 1): Tail(ring)[i] = ring[i + 1]
    BY <2>2
  <2>4. /\ new \in Seq(BitEdge) /\ Len(new) = Len(ring)
        /\ new[Len(new)] = edge
        /\ \A i \in 1..(Len(ring) - 1): new[i] = Tail(ring)[i]
    BY <2>2, <2>3
  <2>5. \A i \in 1..(Len(new) - 1): new[i] = ring[i + 1]
    BY <2>3, <2>4
  <2> QED
    BY <2>1, <2>2, <2>4, <2>5
<1> QED
  BY <1>1, <1>2

LEMMA InitLog == LogInit => LogInv
  BY LogAssumption DEF LogInit, LogInv, LogTypeOK, EdgesSpaced, SeqAscends,
                       LastMonoIsNewest

LEMMA ArmKeeps ==
  ASSUME LogInv, NEW keys \in SUBSET Key, arm(keys)
  PROVE  LogInv'
  BY LogAssumption DEF LogInv, LogTypeOK, EdgesSpaced, SeqAscends,
                       LastMonoIsNewest, arm

LEMMA RenewKeeps ==
  ASSUME LogInv, Renew
  PROVE  LogInv'
  BY LogAssumption DEF LogInv, LogTypeOK, EdgesSpaced, SeqAscends,
                       LastMonoIsNewest, Renew

LEMMA RecordKeeps ==
  ASSUME LogInv, NEW k \in Key, NEW v \in Bit, NEW t \in Nat, record(k, v, t)
  PROVE  LogInv'
<1> USE LogAssumption
<1>1. CASE k \notin watched
  BY <1>1 DEF LogInv, LogTypeOK, EdgesSpaced, SeqAscends, LastMonoIsNewest,
              record, logVars
<1>2. CASE k \in watched
  <2> DEFINE at == Stamp(k, t)
             edge == [seq |-> seq + 1, key |-> k, value |-> v, mono |-> at]
  <2>1. /\ lastMono' = [lastMono EXCEPT ![k] = at]
        /\ seq' = seq + 1
        /\ edges' = Push(edges, edge)
        /\ watched' = watched
    BY <1>2 DEF record
  <2>2. /\ at \in Nat /\ lastMono[k] \in Nat \cup {Never}
        /\ MinInterval > 0 => at >= lastMono[k]
        /\ MinInterval > 0 /\ lastMono[k] # Never => at >= lastMono[k] + MinInterval
    BY DEF Stamp, LogInv, LogTypeOK
  <2> HIDE DEF at
  <2>3. /\ edge \in BitEdge
        /\ edge.key = k /\ edge.mono = at /\ edge.seq = seq + 1
    BY <2>2 DEF LogInv, LogTypeOK, BitEdge
  <2>4. edges \in Seq(BitEdge) /\ Len(edges) \in Nat /\ Len(edges) <= MaxLen
    BY DEF LogInv, LogTypeOK
  <2> HIDE DEF edge
  <2>5. /\ edges' \in Seq(BitEdge) /\ Len(edges') \in 1..MaxLen
        /\ edges'[Len(edges')] = edge
        /\ \E d \in {0, 1}:
              /\ Len(edges') - 1 + d = Len(edges)
              /\ \A i \in 1..(Len(edges') - 1): edges'[i] = edges[i + d]
    <3>1. LET new == Push(edges, edge) IN
          /\ new \in Seq(BitEdge)
          /\ Len(new) \in 1..MaxLen
          /\ new[Len(new)] = edge
          /\ \E d \in {0, 1}:
               /\ Len(new) - 1 + d = Len(edges)
               /\ \A i \in 1..(Len(new) - 1): new[i] = edges[i + d]
      BY <2>3, <2>4, PushIs
    <3> QED
      BY <3>1, <2>1
  <2>6. PICK d \in {0, 1}:
              /\ Len(edges') - 1 + d = Len(edges)
              /\ \A i \in 1..(Len(edges') - 1): edges'[i] = edges[i + d]
    BY <2>5
  <2>7. \A i \in 1..(Len(edges') - 1): i + d \in 1..Len(edges)
    BY <2>5, <2>6, <2>4
  <2>8. \A i \in 1..Len(edges):
          edges[i].seq \in Nat /\ edges[i].key \in Key /\ edges[i].mono \in Nat
    <3> TAKE i \in 1..Len(edges)
    <3>1. edges[i] \in BitEdge
      BY <2>4
    <3> QED
      BY <3>1 DEF BitEdge
  <2>9. LogTypeOK'
    BY <2>1, <2>2, <2>5 DEF LogInv, LogTypeOK
  <2>10. LastMonoIsNewest'
    <3> SUFFICES ASSUME MinInterval > 0, NEW i \in 1..Len(edges')
                 PROVE  edges'[i].mono <= lastMono'[edges'[i].key]
      BY DEF LastMonoIsNewest
    <3>1. CASE i = Len(edges')
      BY <3>1, <2>1, <2>2, <2>3, <2>5 DEF LogInv, LogTypeOK
    <3>2. CASE i \in 1..(Len(edges') - 1)
      <4>1. /\ edges'[i] = edges[i + d] /\ i + d \in 1..Len(edges)
            /\ edges[i + d].key \in Key /\ edges[i + d].mono \in Nat
            /\ edges[i + d].mono <= lastMono[edges[i + d].key]
        BY <3>2, <2>6, <2>7, <2>8 DEF LogInv, LastMonoIsNewest
      <4>2. lastMono[edges[i + d].key] <= lastMono'[edges[i + d].key]
        BY <4>1, <2>1, <2>2 DEF LogInv, LogTypeOK
      <4>3. /\ lastMono[edges[i + d].key] \in Int
            /\ lastMono'[edges[i + d].key] \in Int
        BY <4>1, <2>1, <2>2 DEF LogInv, LogTypeOK, Never
      <4> QED
        BY <4>1, <4>2, <4>3
    <3> QED
      BY <3>1, <3>2, <2>5
  <2>11. EdgesSpaced'
    <3> SUFFICES ASSUME MinInterval > 0,
                        NEW i \in 1..Len(edges'), NEW j \in 1..Len(edges'),
                        i < j, edges'[i].key = edges'[j].key
                 PROVE  edges'[j].mono >= edges'[i].mono + MinInterval
      BY DEF EdgesSpaced
    <3>1. /\ i \in 1..(Len(edges') - 1) /\ edges'[i] = edges[i + d]
          /\ i + d \in 1..Len(edges) /\ edges[i + d].mono \in Nat
      BY <2>5, <2>6, <2>7, <2>8
    <3>2. CASE j = Len(edges')
      <4>1. edges[i + d].key = k /\ edges[i + d].mono <= lastMono[k]
        BY <3>1, <3>2, <2>3, <2>5 DEF LogInv, LastMonoIsNewest
      <4>2. lastMono[k] # Never
        BY <4>1, <3>1, <2>2
      <4>3. edges'[j].mono = at /\ edges'[i].mono = edges[i + d].mono
        BY <3>1, <3>2, <2>3, <2>5
      <4>4. at >= lastMono[k] + MinInterval /\ lastMono[k] \in Nat /\ at \in Nat
        BY <4>2, <2>2
      <4> DEFINE m == edges[i + d].mono
      <4>5. m \in Nat /\ m <= lastMono[k] /\ MinInterval \in Nat
        BY <4>1, <3>1, LogAssumption
      <4>6. at >= m + MinInterval
        BY <4>4, <4>5
      <4> QED
        BY <4>3, <4>6
    <3>3. CASE j \in 1..(Len(edges') - 1)
      <4>1. edges'[j] = edges[j + d] /\ j + d \in 1..Len(edges)
        BY <3>3, <2>6, <2>7
      <4>2. i + d < j + d
        BY <3>1, <3>3
      <4> QED
        BY <4>1, <4>2, <3>1 DEF LogInv, EdgesSpaced
    <3> QED
      BY <3>2, <3>3, <2>5
  <2>12. SeqAscends'
    <3>1. \A i \in 1..(Len(edges') - 1): edges'[i].seq <= seq /\ edges'[i].seq \in Nat
      BY <2>6, <2>7, <2>8 DEF LogInv, SeqAscends
    <3>2. edges'[Len(edges')].seq = seq + 1 /\ seq \in Nat
      BY <2>3, <2>5 DEF LogInv, LogTypeOK
    <3>3. ASSUME NEW i \in 1..Len(edges'), NEW j \in 1..Len(edges'), i < j
          PROVE  edges'[i].seq < edges'[j].seq
      <4>1. CASE j = Len(edges')
        BY <4>1, <3>1, <3>2, <3>3, <2>5
      <4>2. CASE j \in 1..(Len(edges') - 1)
        <5>1. /\ i \in 1..(Len(edges') - 1)
              /\ edges'[i] = edges[i + d] /\ edges'[j] = edges[j + d]
              /\ i + d \in 1..Len(edges) /\ j + d \in 1..Len(edges)
              /\ i + d < j + d
          BY <4>2, <3>3, <2>5, <2>6, <2>7
        <5> QED
          BY <5>1 DEF LogInv, SeqAscends
      <4> QED
        BY <4>1, <4>2, <2>5
    <3>4. ASSUME NEW i \in 1..Len(edges')
          PROVE  edges'[i].seq <= seq'
      BY <3>1, <3>2, <2>1, <2>5
    <3> QED
      BY <3>3, <3>4 DEF SeqAscends
  <2> QED
    BY <2>9, <2>10, <2>11, <2>12 DEF LogInv
<1> QED
  BY <1>1, <1>2

-----------------------------------------------------------------------------

LEMMA InitStream == Init => LogInv /\ PlantOK
  BY InitLog DEF Init, PlantOK

LEMMA PlantStep == PlantOK /\ [Next]_vars => PlantOK'
<1> SUFFICES ASSUME PlantOK, [Next]_vars PROVE PlantOK'
  OBVIOUS
<1>1. CASE UNCHANGED vars
  BY <1>1 DEF vars, plantVars, PlantOK
<1>2. CASE Tick
  BY <1>2 DEF Tick, PlantOK
<1>3. ASSUME NEW k \in Key, ProgramWrite(k) PROVE PlantOK'
  BY <1>3 DEF ProgramWrite, Change, PlantOK
<1>4. ASSUME NEW k \in Key, NEW lag \in 0..MaxLag, now >= lag,
             DeviceWrite(k, now - lag)
      PROVE PlantOK'
  BY <1>4, WatchAssumption DEF DeviceWrite, Change, PlantOK
<1>5. CASE CloseClient
  BY <1>5 DEF CloseClient, PlantOK
<1>6. CASE OpenClient
  BY <1>6 DEF OpenClient, PlantOK
<1>7. ASSUME NEW s \in Stream, NEW keys \in SUBSET Key, Start(s, keys)
      PROVE PlantOK'
  BY <1>7 DEF Start, plantVars, PlantOK
<1>8. ASSUME NEW s \in Stream, NEW full \in BOOLEAN, Sample(s, full)
      PROVE PlantOK'
  BY <1>8 DEF Sample, plantVars, PlantOK
<1>9. ASSUME NEW s \in Stream, FailSample(s) \/ BeginStop(s) \/ FinishStop(s)
      PROVE PlantOK'
  BY <1>9 DEF FailSample, BeginStop, FinishStop, plantVars, PlantOK
<1> QED
  BY <1>1, <1>2, <1>3, <1>4, <1>5, <1>6, <1>7, <1>8, <1>9 DEF Next

LEMMA LogStep == LogInv /\ PlantOK /\ [Next]_vars => LogInv'
<1> SUFFICES ASSUME LogInv, PlantOK, [Next]_vars PROVE LogInv'
  OBVIOUS
<1>1. ASSUME UNCHANGED logVars PROVE LogInv'
  BY <1>1 DEF LogInv, LogTypeOK, EdgesSpaced, SeqAscends, LastMonoIsNewest,
              logVars
<1>2. CASE UNCHANGED vars
  BY <1>1, <1>2 DEF vars
<1>3. CASE Tick
  BY <1>1, <1>3 DEF Tick
<1>4. ASSUME NEW k \in Key, ProgramWrite(k) PROVE LogInv'
  <2>1. 1 - bit[k] \in Bit /\ now \in Nat /\ record(k, 1 - bit[k], now)
    BY <1>4 DEF ProgramWrite, Change, PlantOK
  <2> QED
    BY <2>1, RecordKeeps
<1>5. ASSUME NEW k \in Key, NEW lag \in 0..MaxLag, now >= lag,
             DeviceWrite(k, now - lag)
      PROVE LogInv'
  <2>1. 1 - bit[k] \in Bit /\ now - lag \in Nat
    BY <1>5, WatchAssumption DEF PlantOK
  <2>2. record(k, 1 - bit[k], now - lag)
    BY <1>5 DEF DeviceWrite, Change
  <2> QED
    BY <2>1, <2>2, RecordKeeps
<1>6. CASE CloseClient
  BY <1>1, <1>6 DEF CloseClient
<1>7. CASE OpenClient
  BY <1>7, RenewKeeps DEF OpenClient
<1>8. ASSUME NEW s \in Stream, NEW keys \in SUBSET Key, Start(s, keys)
      PROVE LogInv'
  <2>1. arm(keys) \/ UNCHANGED logVars
    BY <1>8 DEF Start
  <2> QED
    BY <2>1, <1>1, ArmKeeps
<1>9. ASSUME NEW s \in Stream, NEW full \in BOOLEAN, Sample(s, full)
      PROVE LogInv'
  BY <1>1, <1>9 DEF Sample
<1>10. ASSUME NEW s \in Stream, FailSample(s) \/ BeginStop(s) \/ FinishStop(s)
       PROVE LogInv'
  <2>1. arm({}) \/ UNCHANGED logVars
    BY <1>10 DEF FailSample, BeginStop, FinishStop, Disarm
  <2> QED
    BY <2>1, <1>1, ArmKeeps
<1> QED
  BY <1>2, <1>3, <1>4, <1>5, <1>6, <1>7, <1>8, <1>9, <1>10 DEF Next

\* The inductive invariant holds throughout.
THEOREM LogInvariant == Spec => [](LogInv /\ PlantOK)
<1>1. Init => LogInv /\ PlantOK
  BY InitStream
<1>2. LogInv /\ PlantOK /\ [Next]_vars => (LogInv /\ PlantOK)'
  BY LogStep, PlantStep
<1> QED
  BY <1>1, <1>2, PTL DEF Spec

\* Two changes of one bit are never shown closer than the RPI nor in the
\* opposite order (BitEdgeLog.record), whatever the streams do.
THEOREM PulsesKeepTheirWidth == Spec => []EdgesSpaced
<1>1. LogInv => EdgesSpaced
  BY DEF LogInv
<1> QED
  BY <1>1, LogInvariant, PTL

\* A cursor hands every edge out at most once (BitEdgeLog.take).
THEOREM EdgesAreNumbered == Spec => []SeqAscends
<1>1. LogInv => SeqAscends
  BY DEF LogInv
<1> QED
  BY <1>1, LogInvariant, PTL

-----------------------------------------------------------------------------
(***************************************************************************)
(* The browser merges differences into what it shows.                      *)
(***************************************************************************)

\* Types of what a sample reads, and what makes a difference enough: once the
\* loop has sent a sample, the browser shows its previous.
ViewInv ==
  /\ phase \in [Stream -> {"idle", "running", "ended", "stopping"}]
  /\ items \in [Stream -> SUBSET Key]
  /\ previous \in [Stream -> [Key -> Bit \cup {Unknown}]]
  /\ view \in [Stream -> [Key -> Bit \cup {Unknown}]]
  /\ \A s \in Stream: phase[s] = "running" /\ previous[s] # Unseen =>
       \A k \in items[s]: view[s][k] = previous[s][k]

\* A sample, full or not, brings the browser to the snapshot.
LEMMA SampleShows ==
  ASSUME ViewInv, PlantOK, NEW s \in Stream, NEW full \in BOOLEAN,
         Sample(s, full)
  PROVE  /\ \A k \in items[s]: view'[s][k] = bit[k] /\ previous'[s][k] = bit[k]
         /\ view'[s] \in [Key -> Bit \cup {Unknown}]
         /\ previous'[s] \in [Key -> Bit \cup {Unknown}]
         /\ \A r \in Stream \ {s}: view'[r] = view[r] /\ previous'[r] = previous[r]
<1>1. /\ items[s] \subseteq Key /\ bit \in [Key -> Bit]
      /\ previous'[s] = Seen(s, full)
      /\ view'[s] = [k \in Key |-> IF k \in Rows(s, full) THEN bit[k]
                                  ELSE IF full THEN Unknown ELSE view[s][k]]
      /\ view[s] \in [Key -> Bit \cup {Unknown}]
  BY DEF Sample, ViewInv, PlantOK
<1>2. ASSUME NEW k \in items[s] PROVE view'[s][k] = bit[k]
  <2>1. CASE full
    BY <1>1, <1>2, <2>1 DEF Rows
  <2>2. CASE ~full
    <3>1. view[s][k] = previous[s][k]
      BY <1>2, <2>2 DEF Sample, ViewInv
    <3> QED
      BY <1>1, <1>2, <2>2, <3>1 DEF Rows
  <2> QED
    BY <2>1, <2>2
<1>3. \A k \in items[s]: previous'[s][k] = bit[k]
  BY <1>1 DEF Seen
<1>4. previous'[s] \in [Key -> Bit \cup {Unknown}]
  BY <1>1 DEF Seen, Unknown
<1>5. view'[s] \in [Key -> Bit \cup {Unknown}]
  BY <1>1 DEF Unknown
<1>6. \A r \in Stream \ {s}: view'[r] = view[r] /\ previous'[r] = previous[r]
  BY DEF Sample, ViewInv
<1> QED
  BY <1>2, <1>3, <1>4, <1>5, <1>6

LEMMA ViewStep == ViewInv /\ PlantOK /\ [Next]_vars => ViewInv'
<1> SUFFICES ASSUME ViewInv, PlantOK, [Next]_vars PROVE ViewInv'
  OBVIOUS
<1>1. ASSUME UNCHANGED <<phase, items, previous, view>> PROVE ViewInv'
  BY <1>1 DEF ViewInv
<1>2. CASE UNCHANGED vars
  BY <1>1, <1>2 DEF vars, streamVars
<1>3. CASE Tick \/ CloseClient \/ OpenClient
  BY <1>1, <1>3 DEF Tick, CloseClient, OpenClient, streamVars
<1>4. ASSUME NEW k \in Key, ProgramWrite(k) \/ (\E t : DeviceWrite(k, t))
      PROVE ViewInv'
  BY <1>1, <1>4 DEF ProgramWrite, DeviceWrite, Change
<1>5. ASSUME NEW s \in Stream, NEW keys \in SUBSET Key, Start(s, keys)
      PROVE ViewInv'
  <2>1. Unseen \in [Key -> Bit \cup {Unknown}]
    BY DEF Unseen, Unknown
  <2> QED
    BY <1>5, <2>1 DEF Start, ViewInv
<1>6. ASSUME NEW s \in Stream, NEW full \in BOOLEAN, Sample(s, full)
      PROVE ViewInv'
  <2> DEFINE Shown == [Key -> Bit \cup {Unknown}]
  <2>1. phase' = phase /\ items' = items
    BY <1>6 DEF Sample
  <2>2. PICK v: view' = [view EXCEPT ![s] = v]
    BY <1>6 DEF Sample
  <2>3. PICK p: previous' = [previous EXCEPT ![s] = p]
    BY <1>6 DEF Sample
  <2>4. v = view'[s] /\ p = previous'[s]
    BY <2>2, <2>3 DEF ViewInv
  <2>5. v \in Shown /\ p \in Shown
    BY <1>6, <2>4, SampleShows
  <2>6. view' \in [Stream -> Shown] /\ previous' \in [Stream -> Shown]
    BY <2>2, <2>3, <2>5 DEF ViewInv
  <2>7. ASSUME NEW r \in Stream, phase[r] = "running", previous'[r] # Unseen,
               NEW k \in items[r]
        PROVE  view'[r][k] = previous'[r][k]
    BY <1>6, <2>7, SampleShows DEF ViewInv
  <2> QED
    BY <2>1, <2>6, <2>7 DEF ViewInv, Unseen
<1>7. ASSUME NEW s \in Stream, FailSample(s) \/ BeginStop(s) PROVE ViewInv'
  <2>1. /\ UNCHANGED <<items, previous, view>>
        /\ \E q \in {"ended", "stopping"}: phase' = [phase EXCEPT ![s] = q]
    BY <1>7 DEF FailSample, BeginStop
  <2>2. /\ phase' \in [Stream -> {"idle", "running", "ended", "stopping"}]
        /\ \A r \in Stream: phase'[r] = "running" => phase[r] = "running"
    BY <2>1 DEF ViewInv
  <2> QED
    BY <2>1, <2>2 DEF ViewInv, Unseen
<1>8. ASSUME NEW s \in Stream, FinishStop(s) PROVE ViewInv'
  <2>1. Unseen \in [Key -> Bit \cup {Unknown}]
    BY DEF Unseen, Unknown
  <2> QED
    BY <1>8, <2>1 DEF FinishStop, ViewInv
<1> QED
  BY <1>2, <1>3, <1>4, <1>5, <1>6, <1>7, <1>8 DEF Next

\* Merging the differences diff_values sends gives the browser the snapshot of
\* every sample, for any bits and streams: previous is what the browser shows
\* as long as the loop runs.
THEOREM BrowserFollows == Spec => ViewFollows
<1>1. Init => ViewInv
  BY DEF Init, ViewInv, Unseen, Unknown
<1>2. ViewInv /\ PlantOK /\ [Next]_vars =>
        [\A s \in Stream, full \in BOOLEAN:
           Sample(s, full) => \A k \in items[s]: view'[s][k] = bit[k]]_vars
  BY SampleShows
<1> QED
  BY <1>1, <1>2, ViewStep, LogInvariant, PTL DEF Spec, ViewFollows

-----------------------------------------------------------------------------
(***************************************************************************)
(* What Kept, a recursive definition, computes.  Induction is done with    *)
(* the set of the numbers a fact holds for, and a set of naturals that is  *)
(* not all of them has a least number outside.                             *)
(***************************************************************************)

LEMMA Least ==
  ASSUME NEW T, T \subseteq Nat, T # {}
  PROVE  \E n \in T: \A m \in T: n <= m
<1> DEFINE R == {ss \in Nat \X Nat: ss[1] < ss[2]}
<1>1. IsWellFoundedOn(R, Nat)
  BY NatLessThanWellFounded DEF OpToRel
<1> HIDE DEF R
<1>2. PICK n \in T: \A m \in T: <<m, n>> \notin R
  BY <1>1, WFMin
<1>3. ASSUME NEW m \in T PROVE n <= m
  <2>1. <<m, n>> \in Nat \X Nat /\ <<m, n>> \notin R
    BY <1>2
  <2>2. ~(m < n)
    BY <2>1 DEF R
  <2> QED
    BY <2>2
<1> QED
  BY <1>3

LEMMA Induction ==
  ASSUME NEW T, 0 \in T, \A n \in Nat: n \in T => n + 1 \in T
  PROVE  Nat \subseteq T
<1> SUFFICES ASSUME Nat \ T # {} PROVE FALSE
  OBVIOUS
<1>1. PICK n \in Nat \ T: \A m \in Nat \ T: n <= m
  BY Least
<1>2. n - 1 \in Nat /\ n - 1 \in T
  BY <1>1
<1> QED
  BY <1>1, <1>2

\* A recursive definition over 0..N has a solution.
Iterates(f, V, N, b, step) ==
  /\ f \in [0..N -> V] /\ f[0] = b
  /\ \A i \in 1..N: f[i] = step[i][f[i - 1]]

LEMMA Iterated ==
  ASSUME NEW V, NEW N \in Nat, NEW b \in V, NEW step \in [1..N -> [V -> V]]
  PROVE  \E f: Iterates(f, V, N, b, step)
<1> DEFINE Good(f, n) == f[0] = b /\ \A i \in 1..n: f[i] = step[i][f[i - 1]]
           T == {n \in Nat: n <= N => \E f \in [0..n -> V]: Good(f, n)}
<1>1. 0 \in T
  <2>1. [i \in 0..0 |-> b] \in [0..0 -> V] /\ Good([i \in 0..0 |-> b], 0)
    OBVIOUS
  <2> QED
    BY <2>1
<1>2. ASSUME NEW n \in Nat, n \in T PROVE n + 1 \in T
  <2> SUFFICES ASSUME n + 1 <= N PROVE \E f \in [0..(n + 1) -> V]: Good(f, n + 1)
    OBVIOUS
  <2>1. PICK f \in [0..n -> V]: Good(f, n)
    BY <1>2
  <2> DEFINE g == [i \in 0..(n + 1) |-> IF i <= n THEN f[i] ELSE step[i][f[n]]]
  <2>2. f[n] \in V /\ n + 1 \in 1..N /\ step[n + 1][f[n]] \in V
    OBVIOUS
  <2>3. g \in [0..(n + 1) -> V]
    BY <2>2
  <2>4. g[0] = b
    BY <2>1
  <2>5. ASSUME NEW i \in 1..(n + 1) PROVE g[i] = step[i][g[i - 1]]
    <3>1. CASE i <= n
      BY <2>1, <3>1
    <3>2. CASE i = n + 1
      BY <3>2
    <3> QED
      BY <3>1, <3>2
  <2>6. Good(g, n + 1)
    BY <2>4, <2>5
  <2> QED
    BY <2>3, <2>6
<1> HIDE DEF T
<1>3. N \in T
  BY <1>1, <1>2, Induction
<1> QED
  BY <1>3 DEF T, Iterates

\* The recursion of Kept.
KeptUpTo(f, q, at) ==
  f = [n \in 0..Len(q) |->
         IF n = 0 THEN <<>>
         ELSE IF n \in at THEN Append(f[n - 1], q[n]) ELSE f[n - 1]]

\* One member of the list after the other.
KeptSteps(f, E, q, at) ==
  /\ f \in [0..Len(q) -> Seq(E)] /\ f[0] = <<>>
  /\ \A n \in 1..Len(q):
       f[n] = IF n \in at THEN Append(f[n - 1], q[n]) ELSE f[n - 1]
  /\ Kept(q, at) = f[Len(q)]

LEMMA KeptRec ==
  ASSUME NEW E, NEW q \in Seq(E), NEW at
  PROVE  \E f: KeptSteps(f, E, q, at)
<1>1. Len(q) \in Nat /\ <<>> \in Seq(E) /\ \A i \in 1..Len(q): q[i] \in E
  OBVIOUS
<1>2. \E f: KeptUpTo(f, q, at)
  <2> DEFINE step == [i \in 1..Len(q) |-> [x \in Seq(E) |->
                       IF i \in at THEN Append(x, q[i]) ELSE x]]
             N == Len(q)
             V == Seq(E)
             b == <<>>
  <2>1. step \in [1..N -> [V -> V]] /\ N \in Nat /\ b \in V
    BY <1>1
  <2> HIDE DEF step, V, N, b
  <2>2. PICK f: Iterates(f, V, N, b, step)
    BY <2>1, Iterated
  <2>3. f \in [0..N -> V] /\ f[0] = b /\ \A i \in 1..N: f[i] = step[i][f[i - 1]]
    BY <2>2 DEF Iterates
  <2>4. ASSUME NEW i \in 1..N
        PROVE  f[i] = IF i \in at THEN Append(f[i - 1], q[i]) ELSE f[i - 1]
    <3>1. i - 1 \in 0..N /\ f[i - 1] \in Seq(E)
      BY <2>1, <2>3 DEF V
    <3>2. f[i] = step[i][f[i - 1]]
      BY <2>3
    <3> QED
      BY <3>1, <3>2 DEF step, N
  <2>5. f = [n \in 0..N |-> f[n]]
    BY <2>3
  <2>6. f = [n \in 0..N |->
               IF n = 0 THEN <<>>
               ELSE IF n \in at THEN Append(f[n - 1], q[n]) ELSE f[n - 1]]
    <3>1. \A n \in 0..N: n = 0 \/ n \in 1..N
      BY <2>1
    <3> QED
      BY <2>3, <2>4, <2>5, <3>1 DEF b
  <2> QED
    BY <2>6 DEF KeptUpTo, N
<1> DEFINE f == CHOOSE g: KeptUpTo(g, q, at)
<1>3. KeptUpTo(f, q, at)
  BY <1>2
<1>4. Kept(q, at) = f[Len(q)]
  BY DEF Kept, KeptUpTo
<1> HIDE DEF f
<1>5. /\ f[0] = <<>>
      /\ \A n \in 1..Len(q):
           f[n] = IF n \in at THEN Append(f[n - 1], q[n]) ELSE f[n - 1]
  <2>1. f[0] = <<>>
    BY <1>1, <1>3 DEF KeptUpTo
  <2>2. ASSUME NEW n \in 1..Len(q)
        PROVE  f[n] = IF n \in at THEN Append(f[n - 1], q[n]) ELSE f[n - 1]
    <3>1. n \in 0..Len(q) /\ n # 0
      BY <1>1
    <3> QED
      BY <3>1, <1>3 DEF KeptUpTo
  <2> QED
    BY <2>1, <2>2
<1>6. f \in [0..Len(q) -> Seq(E)]
  <2> DEFINE T == {n \in Nat: n <= Len(q) => f[n] \in Seq(E)}
  <2>1. 0 \in T
    BY <1>1, <1>5
  <2>2. ASSUME NEW n \in Nat, n \in T PROVE n + 1 \in T
    <3> SUFFICES ASSUME n + 1 <= Len(q) PROVE f[n + 1] \in Seq(E)
      OBVIOUS
    <3>1. f[n] \in Seq(E) /\ n + 1 \in 1..Len(q) /\ q[n + 1] \in E
      BY <2>2, <1>1
    <3>2. f[n + 1] = IF n + 1 \in at THEN Append(f[n], q[n + 1]) ELSE f[n]
      BY <3>1, <1>5
    <3> QED
      BY <3>1, <3>2
  <2> HIDE DEF T
  <2>3. Nat \subseteq T
    BY <2>1, <2>2, Induction
  <2>4. \A n \in 0..Len(q): f[n] \in Seq(E)
    BY <2>3, <1>1 DEF T
  <2>5. f = [n \in 0..Len(q) |-> f[n]]
    BY <1>3 DEF KeptUpTo
  <2> QED
    BY <2>4, <2>5
<1> QED
  BY <1>4, <1>5, <1>6 DEF KeptSteps

\* The positions from m + 1 on.
LEMMA KeptSuffix ==
  ASSUME NEW E, NEW q \in Seq(E), NEW m \in 0..Len(q)
  PROVE  LET got == Kept(q, (m + 1)..Len(q)) IN
         /\ got \in Seq(E) /\ Len(got) = Len(q) - m
         /\ \A i \in 1..Len(got): got[i] = q[m + i]
<1> DEFINE at == (m + 1)..Len(q)
           N == Len(q)
<1>1. PICK f: KeptSteps(f, E, q, at)
  BY KeptRec
<1>2. /\ f \in [0..N -> Seq(E)] /\ f[0] = <<>>
      /\ \A n \in 1..N:
           f[n] = IF n \in at THEN Append(f[n - 1], q[n]) ELSE f[n - 1]
      /\ Kept(q, at) = f[N]
  BY <1>1 DEF KeptSteps
<1> DEFINE P(n) == /\ Len(f[n]) = IF n <= m THEN 0 ELSE n - m
                   /\ \A i \in 1..Len(f[n]): f[n][i] = q[m + i]
           T == {n \in Nat: n <= N => P(n)}
<1>3. N \in Nat /\ m \in Nat /\ \A i \in 1..N: q[i] \in E
  OBVIOUS
<1>4. 0 \in T
  BY <1>2, <1>3
<1>5. ASSUME NEW n \in Nat, n \in T PROVE n + 1 \in T
  <2> HIDE DEF P
  <2> SUFFICES ASSUME n + 1 <= N PROVE P(n + 1)
    OBVIOUS
  <2>1. P(n)
    BY <1>3, <1>5
  <2>2. /\ n + 1 \in 1..N /\ n \in 0..N /\ f[n] \in Seq(E) /\ q[n + 1] \in E
        /\ Len(f[n]) = IF n <= m THEN 0 ELSE n - m
        /\ \A i \in 1..Len(f[n]): f[n][i] = q[m + i]
    <3>1. n \in 0..N /\ n + 1 \in 1..N
      BY <1>3
    <3>2. f[n] \in Seq(E) /\ q[n + 1] \in E
      BY <3>1, <1>2, <1>3
    <3> QED
      BY <3>1, <3>2, <2>1 DEF P
  <2>3. f[n + 1] = IF n + 1 \in at THEN Append(f[n], q[n + 1]) ELSE f[n]
    BY <2>2, <1>2, <1>3
  <2>4. CASE n + 1 <= m
    BY <2>2, <2>3, <2>4, <1>3 DEF P
  <2>5. CASE n + 1 > m
    <3>1. f[n + 1] = Append(f[n], q[n + 1]) /\ Len(f[n]) = n - m
      BY <2>2, <2>3, <2>5, <1>3
    <3>2. Len(f[n + 1]) = n + 1 - m
      BY <3>1, <2>2, <1>3
    <3>3. ASSUME NEW i \in 1..Len(f[n + 1]) PROVE f[n + 1][i] = q[m + i]
      <4>1. CASE i <= n - m
        BY <4>1, <3>1, <3>2, <3>3, <2>2, <1>3
      <4>2. CASE i = n - m + 1
        BY <4>2, <3>1, <3>2, <2>2, <1>3
      <4> QED
        BY <4>1, <4>2, <3>2, <1>3
    <3> QED
      BY <3>2, <3>3, <2>5, <1>3 DEF P
  <2> QED
    BY <2>4, <2>5, <1>3
<1> HIDE DEF T
<1>6. N \in T
  BY <1>3, <1>4, <1>5, Induction
<1> QED
  BY <1>2, <1>3, <1>6 DEF T

\* The elements, whatever the positions.
LEMMA KeptElements ==
  ASSUME NEW E, NEW q \in Seq(E), NEW at \in SUBSET (1..Len(q))
  PROVE  LET got == Kept(q, at) IN
         /\ got \in Seq(E)
         /\ \A i \in 1..Len(got): \E n \in at: got[i] = q[n]
         /\ \A n \in at: \E i \in 1..Len(got): got[i] = q[n]
<1> DEFINE N == Len(q)
<1>1. PICK f: KeptSteps(f, E, q, at)
  BY KeptRec
<1>2. /\ f \in [0..N -> Seq(E)] /\ f[0] = <<>>
      /\ \A n \in 1..N:
           f[n] = IF n \in at THEN Append(f[n - 1], q[n]) ELSE f[n - 1]
      /\ Kept(q, at) = f[N]
  BY <1>1 DEF KeptSteps
<1> DEFINE From(k) == \A i \in 1..Len(f[k]): \E n \in at: f[k][i] = q[n]
           All(k) == \A n \in at: n <= k => \E i \in 1..Len(f[k]): f[k][i] = q[n]
           T == {k \in Nat: k <= N => From(k) /\ All(k)}
<1>3. N \in Nat /\ \A i \in 1..N: q[i] \in E
  OBVIOUS
<1>4. 0 \in T
  <2>1. Len(f[0]) = 0 /\ \A i \in 1..0: FALSE
    BY <1>2
  <2>2. From(0)
    BY <2>1
  <2>3. \A n \in at: ~(n <= 0)
    OBVIOUS
  <2>4. All(0)
    BY <2>3
  <2> HIDE DEF From, All
  <2> QED
    BY <2>2, <2>4
<1>5. ASSUME NEW k \in Nat, k \in T PROVE k + 1 \in T
  <2> HIDE DEF From, All
  <2> SUFFICES ASSUME k + 1 <= N PROVE From(k + 1) /\ All(k + 1)
    OBVIOUS
  <2>1. From(k) /\ All(k)
    BY <1>3, <1>5
  <2>2. /\ k + 1 \in 1..N /\ f[k] \in Seq(E) /\ q[k + 1] \in E
        /\ \A i \in 1..Len(f[k]): \E n \in at: f[k][i] = q[n]
        /\ \A n \in at: n <= k => \E i \in 1..Len(f[k]): f[k][i] = q[n]
    <3>1. k \in 0..N /\ k + 1 \in 1..N
      BY <1>3
    <3>2. f[k] \in Seq(E) /\ q[k + 1] \in E
      BY <3>1, <1>2, <1>3
    <3> QED
      BY <3>1, <3>2, <2>1 DEF From, All
  <2>3. f[k + 1] = IF k + 1 \in at THEN Append(f[k], q[k + 1]) ELSE f[k]
    BY <2>2, <1>2, <1>3
  <2>4. CASE k + 1 \notin at
    <3>1. f[k + 1] = f[k] /\ \A n \in at: n <= k + 1 => n <= k
      BY <2>3, <2>4, <1>3
    <3> QED
      BY <2>2, <3>1 DEF From, All
  <2>5. CASE k + 1 \in at
    <3>1. /\ Len(f[k + 1]) = Len(f[k]) + 1 /\ Len(f[k]) \in Nat
          /\ \A i \in 1..Len(f[k]): f[k + 1][i] = f[k][i]
          /\ f[k + 1][Len(f[k]) + 1] = q[k + 1]
      BY <2>2, <2>3, <2>5
    <3>2. ASSUME NEW i \in 1..Len(f[k + 1]) PROVE \E n \in at: f[k + 1][i] = q[n]
      <4>1. CASE i \in 1..Len(f[k])
        BY <4>1, <3>1, <2>2
      <4>2. CASE i = Len(f[k]) + 1
        BY <4>2, <3>1, <2>5
      <4> QED
        BY <4>1, <4>2, <3>1
    <3>3. ASSUME NEW n \in at, n <= k + 1
          PROVE  \E i \in 1..Len(f[k + 1]): f[k + 1][i] = q[n]
      <4>1. CASE n <= k
        <5>1. PICK i \in 1..Len(f[k]): f[k][i] = q[n]
          BY <4>1, <2>2
        <5> QED
          BY <5>1, <3>1
      <4>2. CASE n = k + 1
        BY <4>2, <3>1
      <4> QED
        BY <4>1, <4>2, <3>3, <1>3
    <3> QED
      BY <3>2, <3>3 DEF From, All
  <2> QED
    BY <2>4, <2>5
<1> HIDE DEF T
<1>6. N \in T
  BY <1>3, <1>4, <1>5, Induction
<1>7. \A n \in at: n <= N
  BY <1>3
<1> QED
  BY <1>2, <1>3, <1>6, <1>7 DEF T

-----------------------------------------------------------------------------
(***************************************************************************)
(* Types.                                                                  *)
(***************************************************************************)

\* What the log is after a watched bit was recorded.
LEMMA RecordIs ==
  ASSUME LogTypeOK, NEW k \in watched, NEW v \in Bit, NEW t \in Nat,
         record(k, v, t)
  PROVE  /\ seq' = seq + 1 /\ watched' = watched /\ Stamp(k, t) \in Nat
         /\ edges' \in Seq(BitEdge) /\ Len(edges') \in 1..MaxLen
         /\ edges'[Len(edges')] =
              [seq |-> seq + 1, key |-> k, value |-> v, mono |-> Stamp(k, t)]
         /\ \E d \in {0, 1}:
              /\ Len(edges') - 1 + d = Len(edges)
              /\ d = 1 => Len(edges') = MaxLen
              /\ \A i \in 1..(Len(edges') - 1):
                   i + d \in 1..Len(edges) /\ edges'[i] = edges[i + d]
<1> DEFINE edge == [seq |-> seq + 1, key |-> k, value |-> v, mono |-> Stamp(k, t)]
<1>1. Stamp(k, t) \in Nat /\ k \in Key /\ seq \in Nat
  BY LogAssumption DEF LogTypeOK, Stamp
<1>2. edge \in BitEdge
  BY <1>1 DEF BitEdge
<1>3. seq' = seq + 1 /\ watched' = watched /\ edges' = Push(edges, edge)
  BY DEF record
<1>4. edges \in Seq(BitEdge) /\ Len(edges) <= MaxLen /\ Len(edges) \in Nat
  BY DEF LogTypeOK
<1> HIDE DEF edge
<1>5. /\ edges' \in Seq(BitEdge) /\ Len(edges') \in 1..MaxLen
      /\ edges'[Len(edges')] = edge
      /\ \E d \in {0, 1}:
           /\ Len(edges') - 1 + d = Len(edges) /\ (d = 1 => Len(edges') = MaxLen)
           /\ \A i \in 1..(Len(edges') - 1): edges'[i] = edges[i + d]
  <2>1. LET new == Push(edges, edge) IN
        /\ new \in Seq(BitEdge)
        /\ Len(new) \in 1..MaxLen
        /\ new[Len(new)] = edge
        /\ \E d \in {0, 1}:
             /\ Len(new) - 1 + d = Len(edges) /\ (d = 1 => Len(new) = MaxLen)
             /\ \A i \in 1..(Len(new) - 1): new[i] = edges[i + d]
    BY <1>2, <1>4, PushIs
  <2> QED
    BY <2>1, <1>3
<1>6. \A d \in {0, 1}: Len(edges') - 1 + d = Len(edges) =>
        \A i \in 1..(Len(edges') - 1): i + d \in 1..Len(edges)
  BY <1>4, <1>5, LogAssumption
<1> QED
  BY <1>1, <1>3, <1>5, <1>6 DEF edge

\* A sample is stamped with the time of sending or with an edge put off beyond it.
LEMMA NewestIs ==
  ASSUME NEW q \in Seq(BitEdge), NEW t \in Nat
  PROVE  LET monos == {q[i].mono: i \in 1..Len(q)} IN
         /\ Newest(monos, t) \in monos \cup {t}
         /\ Newest(monos, t) \in Nat
         /\ \A m \in monos \cup {t}: m <= Newest(monos, t)
<1> DEFINE M(n) == {q[i].mono: i \in 1..n} \cup {t}
           T == {n \in Nat: n <= Len(q) => \E m \in M(n): \A l \in M(n): l <= m}
<1>1. Len(q) \in Nat /\ \A i \in 1..Len(q): q[i].mono \in Nat
  <2>1. \A i \in 1..Len(q): q[i] \in BitEdge
    OBVIOUS
  <2> QED
    BY <2>1 DEF BitEdge
<1>2. 0 \in T
  <2>1. M(0) = {t}
    OBVIOUS
  <2> QED
    BY <2>1
<1>3. ASSUME NEW n \in Nat, n \in T PROVE n + 1 \in T
  <2> SUFFICES ASSUME n + 1 <= Len(q)
               PROVE  \E m \in M(n + 1): \A l \in M(n + 1): l <= m
    OBVIOUS
  <2>1. M(n + 1) = M(n) \cup {q[n + 1].mono} /\ M(n) \subseteq Nat
        /\ q[n + 1].mono \in Nat
    BY <1>1
  <2>2. PICK m \in M(n): \A l \in M(n): l <= m
    BY <1>1, <1>3
  <2> HIDE DEF M
  <2>3. m \in Nat /\ (m <= q[n + 1].mono \/ q[n + 1].mono <= m)
    BY <2>1, <2>2
  <2>4. CASE q[n + 1].mono <= m
    BY <2>1, <2>2, <2>4
  <2>5. CASE m <= q[n + 1].mono
    <3> DEFINE top == q[n + 1].mono
    <3>1. top \in Nat /\ top \in M(n + 1)
      BY <2>1
    <3>2. ASSUME NEW l \in M(n + 1) PROVE l <= top
      <4>1. CASE l \in M(n)
        BY <4>1, <2>1, <2>2, <2>3, <2>5
      <4>2. CASE l = top
        BY <4>2, <3>1
      <4> QED
        BY <4>1, <4>2, <2>1
    <3> QED
      BY <3>1, <3>2
  <2> QED
    BY <2>3, <2>4, <2>5
<1> HIDE DEF T
<1>4. Len(q) \in T
  BY <1>1, <1>2, <1>3, Induction
<1>5. \E m \in M(Len(q)): \A l \in M(Len(q)): l <= m
  BY <1>1, <1>4 DEF T
<1>6. M(Len(q)) \subseteq Nat
  BY <1>1
<1> HIDE DEF M
<1>7. Latest(M(Len(q))) \in M(Len(q)) /\ \A l \in M(Len(q)): l <= Latest(M(Len(q)))
  BY <1>5 DEF Latest
<1> QED
  BY <1>6, <1>7 DEF M, Newest

\* What a pass of the loop takes: of the edges beyond the cursor those of its bits.
LEMMA TakenIs ==
  ASSUME LogTypeOK, NEW s \in Stream, NEW after
  PROVE  LET got == OfItems(s, take(after)) IN
         /\ got \in Seq(BitEdge)
         /\ \A i \in 1..Len(got): /\ got[i].key \in items[s]
                                  /\ \E n \in 1..Len(edges):
                                       edges[n].seq > after /\ got[i] = edges[n]
         /\ \A n \in 1..Len(edges): edges[n].seq > after /\ edges[n].key \in items[s]
              => \E i \in 1..Len(got): got[i] = edges[n]
<1> DEFINE at == {i \in 1..Len(edges): edges[i].seq > after}
           fresh == take(after)
           mine == {i \in 1..Len(fresh): fresh[i].key \in items[s]}
           got == OfItems(s, fresh)
<1>1. edges \in Seq(BitEdge) /\ at \in SUBSET (1..Len(edges)) /\ fresh = Kept(edges, at)
  BY DEF LogTypeOK, take
<1> HIDE DEF at, fresh
<1>2. /\ fresh \in Seq(BitEdge)
      /\ \A i \in 1..Len(fresh): \E n \in at: fresh[i] = edges[n]
      /\ \A n \in at: \E i \in 1..Len(fresh): fresh[i] = edges[n]
  BY <1>1, KeptElements
<1>3. mine \in SUBSET (1..Len(fresh)) /\ got = Kept(fresh, mine)
  BY DEF OfItems
<1> HIDE DEF mine, got
<1>4. /\ got \in Seq(BitEdge)
      /\ \A i \in 1..Len(got): \E n \in mine: got[i] = fresh[n]
      /\ \A n \in mine: \E i \in 1..Len(got): got[i] = fresh[n]
  BY <1>2, <1>3, KeptElements
<1>5. ASSUME NEW i \in 1..Len(got)
      PROVE  got[i].key \in items[s] /\ \E n \in 1..Len(edges):
               edges[n].seq > after /\ got[i] = edges[n]
  <2>1. PICK j \in mine: got[i] = fresh[j]
    BY <1>4
  <2>2. j \in 1..Len(fresh) /\ fresh[j].key \in items[s]
    BY DEF mine
  <2> QED
    BY <2>1, <2>2, <1>2 DEF at
<1>6. ASSUME NEW n \in 1..Len(edges), edges[n].seq > after, edges[n].key \in items[s]
      PROVE  \E i \in 1..Len(got): got[i] = edges[n]
  <2>1. PICK j \in 1..Len(fresh): fresh[j] = edges[n]
    BY <1>6, <1>2 DEF at
  <2>2. j \in mine
    BY <2>1, <1>6 DEF mine
  <2> QED
    BY <2>1, <2>2, <1>4
<1> QED
  BY <1>4, <1>5, <1>6 DEF got, fresh

\* The part of TypeOK that is not the log's.
StreamTypeOK ==
  /\ now \in 0..MaxTime
  /\ bit \in [Key -> Bit]
  /\ frameAt \in 0..now
  /\ client \in BOOLEAN
  /\ generation \in Nat
  /\ phase \in [Stream -> {"idle", "running", "ended", "stopping"}]
  /\ items \in [Stream -> SUBSET Key]
  /\ armed \in [Stream -> 0..generation]
  /\ cursor \in [Stream -> Nat]
  /\ previous \in [Stream -> [Key -> Bit \cup {Unknown}]]
  /\ sample \in [Stream -> [mono: Nat, edges: Seq(BitEdge)]]
  /\ view \in [Stream -> [Key -> Bit \cup {Unknown}]]
  /\ owed \in [Stream -> Seq(Key \X Bit)]

LEMMA InitTypes == Init => TypeOK
<1> SUFFICES ASSUME Init PROVE TypeOK
  OBVIOUS
<1>1. LogTypeOK
  BY InitLog DEF Init, LogInv
<1>2. /\ now \in 0..MaxTime /\ frameAt \in 0..now
      /\ bit \in [Key -> Bit] /\ client \in BOOLEAN /\ generation \in Nat
  BY WatchAssumption DEF Init
<1>3. /\ NoSample \in [mono: Nat, edges: Seq(BitEdge)]
      /\ Unseen \in [Key -> Bit \cup {Unknown}]
      /\ <<>> \in Seq(Key \X Bit)
  BY DEF NoSample, Unseen
<1>4. /\ phase \in [Stream -> {"idle", "running", "ended", "stopping"}]
      /\ items \in [Stream -> SUBSET Key]
      /\ armed \in [Stream -> 0..generation]
      /\ cursor \in [Stream -> Nat]
      /\ previous \in [Stream -> [Key -> Bit \cup {Unknown}]]
      /\ sample \in [Stream -> [mono: Nat, edges: Seq(BitEdge)]]
      /\ view \in [Stream -> [Key -> Bit \cup {Unknown}]]
      /\ owed \in [Stream -> Seq(Key \X Bit)]
  BY <1>3 DEF Init, NoLog
<1> QED
  BY <1>1, <1>2, <1>4 DEF TypeOK

\* A change of a bit, by either side.
LEMMA ChangeTypes ==
  ASSUME TypeOK, NEW k \in Key, NEW t \in Nat, Change(k, t)
  PROVE  /\ bit' \in [Key -> Bit] /\ owed' \in [Stream -> Seq(Key \X Bit)]
         /\ UNCHANGED <<now, client, generation, phase, items, armed, cursor,
                        previous, sample, view>>
<1>1. bit \in [Key -> Bit] /\ bit[k] \in Bit /\ 1 - bit[k] \in Bit
  BY DEF TypeOK
<1>2. bit' \in [Key -> Bit]
  <2>1. bit' = [bit EXCEPT ![k] = 1 - bit[k]]
    BY DEF Change
  <2> QED
    BY <1>1, <2>1
<1>3. <<k, 1 - bit[k]>> \in Key \X Bit
  BY <1>1
<1>4. \A s \in Stream: /\ owed[s] \in Seq(Key \X Bit)
                       /\ Append(owed[s], <<k, 1 - bit[k]>>) \in Seq(Key \X Bit)
  BY <1>3 DEF TypeOK
<1>5. owed' \in [Stream -> Seq(Key \X Bit)]
  BY <1>4 DEF Change
<1> QED
  BY <1>2, <1>5 DEF Change

LEMMA SampleTypes ==
  ASSUME TypeOK, NEW s \in Stream, NEW full \in BOOLEAN, Sample(s, full)
  PROVE  StreamTypeOK'
<1> DEFINE shown == OfItems(s, take(cursor[s]))
           at == Newest({shown[i].mono: i \in 1..Len(shown)}, now)
<1>1. shown \in Seq(BitEdge)
  BY TakenIs DEF TypeOK
<1>2. at \in Nat
  <2>1. now \in Nat
    BY WatchAssumption DEF TypeOK
  <2> HIDE DEF shown
  <2> QED
    BY <1>1, <2>1, NewestIs
<1>3. sample' = [sample EXCEPT ![s] = [mono |-> at, edges |-> shown]]
  BY DEF Sample
<1> HIDE DEF shown, at
<1>4. sample' \in [Stream -> [mono: Nat, edges: Seq(BitEdge)]]
  BY <1>1, <1>2, <1>3 DEF TypeOK
<1>5. view' \in [Stream -> [Key -> Bit \cup {Unknown}]]
  <2> DEFINE v == [k \in Key |-> IF k \in Rows(s, full) THEN bit[k]
                                 ELSE IF full THEN Unknown ELSE view[s][k]]
  <2>1. v \in [Key -> Bit \cup {Unknown}]
    BY DEF TypeOK
  <2>2. view' = [view EXCEPT ![s] = v]
    BY DEF Sample
  <2> HIDE DEF v
  <2> QED
    BY <2>1, <2>2 DEF TypeOK
<1>6. previous' \in [Stream -> [Key -> Bit \cup {Unknown}]]
  <2>1. Seen(s, full) \in [Key -> Bit \cup {Unknown}]
    BY DEF TypeOK, Seen
  <2> QED
    BY <2>1 DEF Sample, TypeOK
<1>7. /\ cursor' \in [Stream -> Nat] /\ owed' \in [Stream -> Seq(Key \X Bit)]
      /\ UNCHANGED <<now, bit, frameAt, client, generation, phase, items, armed>>
  BY DEF Sample, TypeOK, LogTypeOK, plantVars
<1> QED
  BY <1>4, <1>5, <1>6, <1>7 DEF TypeOK, StreamTypeOK

LEMMA TypeStep == TypeOK /\ [Next]_vars => StreamTypeOK'
<1> SUFFICES ASSUME TypeOK, [Next]_vars PROVE StreamTypeOK'
  OBVIOUS
<1>1. now \in Nat
  BY WatchAssumption DEF TypeOK
<1>2. CASE UNCHANGED vars
  BY <1>2 DEF vars, plantVars, streamVars, TypeOK, StreamTypeOK
<1>3. CASE Tick
  <2>1. now' \in 0..MaxTime /\ frameAt \in 0..now'
    BY <1>1, <1>3, WatchAssumption DEF Tick, TypeOK
  <2> QED
    BY <1>3, <2>1 DEF Tick, streamVars, TypeOK, StreamTypeOK
<1>4. ASSUME NEW k \in Key, ProgramWrite(k) PROVE StreamTypeOK'
  <2>1. Change(k, now) /\ frameAt' = frameAt
    BY <1>4 DEF ProgramWrite
  <2> QED
    BY <1>1, <2>1, ChangeTypes DEF TypeOK, StreamTypeOK
<1>5. ASSUME NEW k \in Key, NEW lag \in 0..MaxLag, now >= lag,
             DeviceWrite(k, now - lag)
      PROVE StreamTypeOK'
  <2>1. now - lag \in 0..now
    BY <1>1, <1>5, WatchAssumption
  <2>2. Change(k, now - lag) /\ frameAt' = now - lag
    BY <1>5 DEF DeviceWrite
  <2>3. now - lag \in Nat
    BY <1>1, <2>1
  <2>4. /\ bit' \in [Key -> Bit] /\ owed' \in [Stream -> Seq(Key \X Bit)]
        /\ UNCHANGED <<now, client, generation, phase, items, armed, cursor,
                       previous, sample, view>>
    BY <2>2, <2>3, ChangeTypes
  <2>5. frameAt' \in 0..now'
    BY <2>1, <2>2, <2>4
  <2> QED
    BY <2>4, <2>5 DEF TypeOK, StreamTypeOK
<1>6. CASE CloseClient
  BY <1>6 DEF CloseClient, streamVars, TypeOK, StreamTypeOK
<1>7. CASE OpenClient
  <2>1. generation' \in Nat /\ armed \in [Stream -> 0..generation']
    BY <1>7 DEF OpenClient, TypeOK
  <2> QED
    BY <1>7, <2>1 DEF OpenClient, streamVars, TypeOK, StreamTypeOK
<1>8. ASSUME NEW s \in Stream, NEW keys \in SUBSET Key, Start(s, keys)
      PROVE StreamTypeOK'
  <2>1. /\ Unseen \in [Key -> Bit \cup {Unknown}] /\ <<>> \in Seq(Key \X Bit)
        /\ generation \in 0..generation /\ seq \in Nat
    BY DEF Unseen, TypeOK, LogTypeOK
  <2>2. armed' \in [Stream -> 0..generation] /\ cursor' \in [Stream -> Nat]
    <3>1. armed' = armed \/ armed' = [armed EXCEPT ![s] = generation]
      BY <1>8 DEF Start
    <3>2. \/ cursor' = [cursor EXCEPT ![s] = seq]
          \/ cursor' = [cursor EXCEPT ![s] = 0]
      BY <1>8 DEF Start
    <3>3. armed \in [Stream -> 0..generation] /\ cursor \in [Stream -> Nat]
      BY DEF TypeOK
    <3>4. armed' \in [Stream -> 0..generation]
      BY <2>1, <3>1, <3>3
    <3>5. cursor' \in [Stream -> Nat]
      BY <2>1, <3>2, <3>3
    <3> QED
      BY <3>4, <3>5
  <2> QED
    BY <1>8, <2>1, <2>2 DEF Start, plantVars, TypeOK, StreamTypeOK
<1>9. ASSUME NEW s \in Stream, NEW full \in BOOLEAN, Sample(s, full)
      PROVE StreamTypeOK'
  BY <1>9, SampleTypes
<1>10. ASSUME NEW s \in Stream, FailSample(s) \/ BeginStop(s)
       PROVE StreamTypeOK'
  BY <1>10 DEF FailSample, BeginStop, plantVars, TypeOK, StreamTypeOK
<1>11. ASSUME NEW s \in Stream, FinishStop(s) PROVE StreamTypeOK'
  <2>1. /\ Unseen \in [Key -> Bit \cup {Unknown}] /\ <<>> \in Seq(Key \X Bit)
        /\ NoSample \in [mono: Nat, edges: Seq(BitEdge)] /\ NoLog \in 0..generation
    BY DEF Unseen, NoSample, NoLog, TypeOK
  <2>2. UNCHANGED <<now, bit, frameAt, client, generation, view>>
    BY <1>11 DEF FinishStop, plantVars
  <2> QED
    BY <1>11, <2>1, <2>2 DEF FinishStop, Disarm, TypeOK, StreamTypeOK
<1> QED
  BY <1>2, <1>3, <1>4, <1>5, <1>6, <1>7, <1>8, <1>9, <1>10, <1>11 DEF Next

\* Every variable keeps its type, the edges a sample carries among them.
THEOREM TypeCorrect == Spec => []TypeOK
<1>1. TypeOK /\ LogInv' /\ [Next]_vars => TypeOK'
  <2>1. LogInv' => LogTypeOK'
    BY DEF LogInv
  <2> QED
    BY <2>1, TypeStep DEF TypeOK, StreamTypeOK
<1> QED
  BY <1>1, InitTypes, LogInvariant, PTL DEF Spec

-----------------------------------------------------------------------------
(***************************************************************************)
(* The edges a sample draws end at the level the browser shows, when each  *)
(* bit is written by one side only or stamps are put off by the RPI.       *)
(***************************************************************************)

\* Stamps are spaced by an RPI, or no bit is written by both sides.
OneSide == MinInterval > 0 \/ ProgramKey \cap DeviceKey = {}

\* Only watched bits have edges, and the newest edge of a bit is its level.
NewestIsLevel ==
  /\ \A i \in 1..Len(edges): edges[i].key \in watched
  /\ \A i \in 1..Len(edges):
       \/ edges[i].value = bit[edges[i].key]
       \/ \E j \in 1..Len(edges): i < j /\ edges[j].key = edges[i].key

\* Without an RPI no stamp is of the future, and a bit of the device has none
\* later than the newest frame handled.
StampsArePast ==
  MinInterval = 0 => \A i \in 1..Len(edges):
    /\ edges[i].mono <= now
    /\ edges[i].key \notin ProgramKey => edges[i].mono <= frameAt

\* The edges of one bit are stamped in their order.
StampsAscend ==
  OneSide => \A i, j \in 1..Len(edges):
    i < j /\ edges[i].key = edges[j].key => edges[i].mono <= edges[j].mono

\* What the log owes a page.
LevelInv == NewestIsLevel /\ StampsArePast /\ StampsAscend

LEMMA NoEdges == edges = <<>> => LevelInv
  BY DEF LevelInv, NewestIsLevel, StampsArePast, StampsAscend

\* A change recorded by either side, now or with a stamp of the past.
LEMMA ChangeLevels ==
  ASSUME TypeOK, LevelInv, EdgesSpaced', LogTypeOK',
         NEW k \in Key, NEW t \in Nat, Change(k, t), t <= now,
         \/ k \in ProgramKey /\ t = now /\ frameAt' = frameAt
         \/ k \in DeviceKey /\ frameAt <= t /\ frameAt' = t
  PROVE  LevelInv'
<1>1. /\ bit \in [Key -> Bit] /\ bit' = [bit EXCEPT ![k] = 1 - bit[k]]
      /\ record(k, 1 - bit[k], t) /\ now' = now
      /\ now \in Nat /\ frameAt \in 0..now /\ LogTypeOK
  BY WatchAssumption DEF TypeOK, Change
<1>2. 1 - bit[k] \in Bit /\ bit'[k] = 1 - bit[k] /\ \A l \in Key \ {k}: bit'[l] = bit[l]
  BY <1>1
<1>3. frameAt <= frameAt' /\ frameAt' \in Nat /\ frameAt' <= now
  BY <1>1
<1>4. \A i \in 1..Len(edges): edges[i].key \in Key /\ edges[i].mono \in Nat
  <2>1. \A i \in 1..Len(edges): edges[i] \in BitEdge
    BY <1>1 DEF LogTypeOK
  <2> QED
    BY <2>1 DEF BitEdge
<1>5. CASE k \notin watched
  <2>1. UNCHANGED <<watched, edges>>
    BY <1>1, <1>5 DEF record, logVars
  <2>2. \A i \in 1..Len(edges): edges[i].key # k
    BY <1>5 DEF LevelInv, NewestIsLevel
  <2>3. NewestIsLevel'
    BY <1>2, <1>4, <2>1, <2>2 DEF LevelInv, NewestIsLevel
  <2>4. StampsArePast'
    BY <1>1, <1>3, <1>4, <2>1 DEF LevelInv, StampsArePast
  <2>5. StampsAscend'
    BY <2>1 DEF LevelInv, StampsAscend, OneSide
  <2> QED
    BY <2>3, <2>4, <2>5 DEF LevelInv
<1>6. CASE k \in watched
  <2> DEFINE edge == [seq |-> seq + 1, key |-> k, value |-> 1 - bit[k],
                      mono |-> Stamp(k, t)]
             last == Len(edges')
  <2>1. /\ watched' = watched /\ edges' \in Seq(BitEdge) /\ last \in 1..MaxLen
        /\ edges'[last] = edge /\ Stamp(k, t) \in Nat
        /\ \E d \in {0, 1}:
             /\ last - 1 + d = Len(edges)
             /\ \A i \in 1..(last - 1):
                  i + d \in 1..Len(edges) /\ edges'[i] = edges[i + d]
    BY <1>1, <1>2, <1>6, RecordIs
  <2>2. edge.key = k /\ edge.value = 1 - bit[k] /\ edge.mono = Stamp(k, t)
    OBVIOUS
  <2> HIDE DEF edge
  <2>3. PICK d \in {0, 1}:
          /\ last - 1 + d = Len(edges)
          /\ \A i \in 1..(last - 1):
               i + d \in 1..Len(edges) /\ edges'[i] = edges[i + d]
    BY <2>1
  <2>4. /\ last \in Nat /\ last >= 1
        /\ \A i \in 1..last: i = last \/ i \in 1..(last - 1)
    BY <2>1, LogAssumption
  <2> HIDE DEF last
  <2>5. ASSUME NEW i \in 1..last PROVE edges'[i].key \in watched
    <3>1. CASE i = last
      BY <3>1, <2>1, <2>2, <1>6
    <3>2. CASE i \in 1..(last - 1)
      BY <3>2, <2>3 DEF LevelInv, NewestIsLevel
    <3> QED
      BY <3>1, <3>2, <2>4
  <2>6. ASSUME NEW i \in 1..last
        PROVE  \/ edges'[i].value = bit'[edges'[i].key]
               \/ \E j \in 1..last: i < j /\ edges'[j].key = edges'[i].key
    <3>1. CASE i = last
      BY <3>1, <2>1, <2>2, <1>2
    <3>2. CASE i \in 1..(last - 1) /\ edges'[i].key = k
      <4>1. last \in 1..last /\ i < last /\ edges'[last].key = edges'[i].key
        BY <3>2, <2>1, <2>2, <2>4
      <4> QED
        BY <4>1
    <3>3. CASE i \in 1..(last - 1) /\ edges'[i].key # k
      <4>1. i + d \in 1..Len(edges) /\ edges'[i] = edges[i + d]
        BY <3>3, <2>3
      <4>2. CASE edges[i + d].value = bit[edges[i + d].key]
        BY <4>1, <4>2, <3>3, <1>2, <1>4
      <4>3. CASE \E j \in 1..Len(edges): i + d < j /\ edges[j].key = edges[i + d].key
        <5>1. PICK j \in 1..Len(edges): i + d < j /\ edges[j].key = edges[i + d].key
          BY <4>3
        <5>2. j - d \in 1..(last - 1) /\ i < j - d /\ (j - d) + d = j
          BY <5>1, <3>3, <2>3, <2>4
        <5>3. edges'[j - d] = edges[j] /\ j - d \in 1..last
          BY <5>2, <2>3, <2>4
        <5> QED
          BY <5>1, <5>2, <5>3, <4>1
      <4> QED
        BY <4>1, <4>2, <4>3 DEF LevelInv, NewestIsLevel
    <3> QED
      BY <3>1, <3>2, <3>3, <2>4
  <2>7. NewestIsLevel'
    BY <2>1, <2>5, <2>6 DEF NewestIsLevel, last
  <2>8. MinInterval = 0 => Stamp(k, t) = t
    BY DEF Stamp
  <2>9. ASSUME MinInterval = 0, NEW i \in 1..last
        PROVE  /\ edges'[i].mono <= now
               /\ edges'[i].key \notin ProgramKey => edges'[i].mono <= frameAt'
    <3>1. CASE i = last
      BY <3>1, <2>1, <2>2, <2>8, <2>9
    <3>2. CASE i \in 1..(last - 1)
      <4>1. i + d \in 1..Len(edges) /\ edges'[i] = edges[i + d]
        BY <3>2, <2>3
      <4>2. /\ edges[i + d].mono <= now /\ edges[i + d].mono \in Nat
            /\ edges[i + d].key \notin ProgramKey => edges[i + d].mono <= frameAt
        BY <4>1, <2>9, <1>4 DEF LevelInv, StampsArePast
      <4> DEFINE m == edges[i + d].mono
      <4>3. m \in Nat /\ (m <= frameAt => m <= frameAt')
        BY <4>2, <1>1, <1>3
      <4> QED
        BY <4>1, <4>2, <4>3
    <3> QED
      BY <3>1, <3>2, <2>4
  <2>10. StampsArePast'
    BY <2>9, <1>1 DEF StampsArePast, last
  <2>11. ASSUME OneSide, NEW i \in 1..last, NEW j \in 1..last, i < j,
                edges'[i].key = edges'[j].key
         PROVE  edges'[i].mono <= edges'[j].mono
    <3>1. /\ i \in 1..(last - 1) /\ edges'[i] = edges[i + d]
          /\ i + d \in 1..Len(edges) /\ edges[i + d].mono \in Nat
      BY <2>11, <2>3, <2>4, <1>4
    <3>2. CASE MinInterval > 0
      <4>1. edges'[j].mono >= edges'[i].mono + MinInterval
        BY <3>2, <2>11 DEF EdgesSpaced, last
      <4>2. edges'[i].mono \in Nat /\ edges'[j].mono \in Nat
        <5>1. edges'[j] \in BitEdge
          BY <2>1 DEF last
        <5> QED
          BY <5>1, <3>1 DEF BitEdge
      <4> QED
        BY <4>1, <4>2, LogAssumption
    <3>3. CASE ~(MinInterval > 0) /\ j = last
      <4>1. MinInterval = 0 /\ ProgramKey \cap DeviceKey = {}
        BY <3>3, <2>11, LogAssumption DEF OneSide
      <4>2. edges[i + d].key = k /\ edges'[j].mono = t
        BY <3>1, <3>3, <4>1, <2>1, <2>2, <2>8, <2>11
      <4> DEFINE m == edges[i + d].mono
      <4>3. /\ m \in Nat /\ m <= now
            /\ k \notin ProgramKey => m <= frameAt
        BY <3>1, <4>1, <4>2 DEF LevelInv, StampsArePast
      <4>4. m <= t
        BY <4>1, <4>3, <1>1
      <4> QED
        BY <3>1, <4>2, <4>4
    <3>4. CASE j \in 1..(last - 1)
      <4>1. edges'[j] = edges[j + d] /\ j + d \in 1..Len(edges) /\ i + d < j + d
        BY <3>1, <3>4, <2>3, <2>11
      <4> QED
        BY <3>1, <4>1, <2>11 DEF LevelInv, StampsAscend
    <3> QED
      BY <3>2, <3>3, <3>4, <2>4
  <2>12. StampsAscend'
    BY <2>11 DEF StampsAscend, OneSide, last
  <2> QED
    BY <2>7, <2>10, <2>12 DEF LevelInv
<1> QED
  BY <1>5, <1>6

LEMMA LevelStep ==
  TypeOK /\ LogInv' /\ LevelInv /\ [Next]_vars => LevelInv'
<1> SUFFICES ASSUME TypeOK, LogInv', LevelInv, [Next]_vars PROVE LevelInv'
  OBVIOUS
<1>1. now \in Nat /\ frameAt \in Nat /\ LogTypeOK' /\ EdgesSpaced'
  BY WatchAssumption DEF TypeOK, LogInv
<1>2. ASSUME UNCHANGED <<logVars, bit, now, frameAt>> PROVE LevelInv'
  BY <1>2 DEF LevelInv, NewestIsLevel, StampsArePast, StampsAscend, OneSide,
              logVars
<1>3. ASSUME edges' = <<>> PROVE LevelInv'
  BY <1>3 DEF LevelInv, NewestIsLevel, StampsArePast, StampsAscend
<1>4. CASE UNCHANGED vars
  BY <1>2, <1>4 DEF vars, plantVars
<1>5. CASE Tick
  <2>1. UNCHANGED <<edges, watched, bit, frameAt>> /\ now' = now + 1
    BY <1>5 DEF Tick, logVars
  <2>2. \A i \in 1..Len(edges): edges[i].mono \in Nat
    <3>1. \A i \in 1..Len(edges): edges[i] \in BitEdge
      BY DEF TypeOK, LogTypeOK
    <3> QED
      BY <3>1 DEF BitEdge
  <2>3. StampsArePast'
    BY <1>1, <2>1, <2>2 DEF LevelInv, StampsArePast
  <2> QED
    BY <2>1, <2>3 DEF LevelInv, NewestIsLevel, StampsAscend, OneSide
<1>6. ASSUME NEW k \in Key, ProgramWrite(k) PROVE LevelInv'
  <2>1. k \in ProgramKey /\ Change(k, now) /\ frameAt' = frameAt /\ now <= now
    BY <1>1, <1>6 DEF ProgramWrite
  <2> QED
    BY <1>1, <2>1, ChangeLevels
<1>7. ASSUME NEW k \in Key, NEW lag \in 0..MaxLag, now >= lag,
             DeviceWrite(k, now - lag)
      PROVE LevelInv'
  <2>1. now - lag \in Nat /\ now - lag <= now
    BY <1>1, <1>7, WatchAssumption
  <2>2. /\ k \in DeviceKey /\ Change(k, now - lag)
        /\ frameAt <= now - lag /\ frameAt' = now - lag
    BY <1>1, <1>7, <2>1 DEF DeviceWrite
  <2> QED
    BY <1>1, <2>1, <2>2, ChangeLevels
<1>8. CASE CloseClient
  BY <1>2, <1>8 DEF CloseClient
<1>9. CASE OpenClient
  BY <1>3, <1>9 DEF OpenClient, Renew
<1>10. ASSUME NEW s \in Stream, NEW keys \in SUBSET Key, Start(s, keys)
       PROVE LevelInv'
  <2>1. edges' = <<>> \/ UNCHANGED logVars
    BY <1>10 DEF Start, arm
  <2>2. UNCHANGED <<bit, now, frameAt>>
    BY <1>10 DEF Start, plantVars
  <2> QED
    BY <1>2, <1>3, <2>1, <2>2
<1>11. ASSUME NEW s \in Stream,
              (\E full \in BOOLEAN: Sample(s, full)) \/ FailSample(s) \/ BeginStop(s)
       PROVE LevelInv'
  BY <1>2, <1>11 DEF Sample, FailSample, BeginStop, plantVars
<1>12. ASSUME NEW s \in Stream, FinishStop(s) PROVE LevelInv'
  <2>1. edges' = <<>> \/ UNCHANGED logVars
    BY <1>12 DEF FinishStop, Disarm, arm
  <2>2. UNCHANGED <<bit, now, frameAt>>
    BY <1>12 DEF FinishStop, plantVars
  <2> QED
    BY <1>2, <1>3, <2>1, <2>2
<1> QED
  BY <1>4, <1>5, <1>6, <1>7, <1>8, <1>9, <1>10, <1>11, <1>12 DEF Next

LEMMA LevelInvariant == Spec => []LevelInv
<1>1. Init => LevelInv
  BY NoEdges DEF Init, LogInit
<1> QED
  BY <1>1, LevelStep, TypeCorrect, LogInvariant, PTL DEF Spec

\* Drawn to the end, the edges of a sample are at the level the sample shows.
LEMMA SampleLevels ==
  ASSUME TypeOK, LogInv, LevelInv, ViewInv, OneSide,
         NEW s \in Stream, NEW full \in BOOLEAN, Sample(s, full),
         NEW i \in 1..Len(sample'[s].edges), IsLast(sample'[s].edges, i)
  PROVE  view'[s][sample'[s].edges[i].key] = sample'[s].edges[i].value
<1> DEFINE got == OfItems(s, take(cursor[s]))
<1>1. sample'[s].edges = got
  BY DEF Sample, TypeOK
<1> HIDE DEF got
<1>2. /\ got \in Seq(BitEdge)
      /\ \A j \in 1..Len(got): /\ got[j].key \in items[s]
                               /\ \E n \in 1..Len(edges):
                                    edges[n].seq > cursor[s] /\ got[j] = edges[n]
      /\ \A n \in 1..Len(edges):
           edges[n].seq > cursor[s] /\ edges[n].key \in items[s]
             => \E j \in 1..Len(got): got[j] = edges[n]
  <2>1. LogTypeOK
    BY DEF TypeOK
  <2> QED
    BY <2>1, TakenIs DEF got
<1>3. PICK n \in 1..Len(edges): edges[n].seq > cursor[s] /\ got[i] = edges[n]
  BY <1>1, <1>2
<1>4. \A m \in 1..Len(edges): edges[m].seq \in Nat /\ edges[m].mono \in Nat
  <2>1. \A m \in 1..Len(edges): edges[m] \in BitEdge
    BY DEF TypeOK, LogTypeOK
  <2> QED
    BY <2>1 DEF BitEdge
<1>5. ASSUME NEW m \in 1..Len(edges), n < m, edges[m].key = edges[n].key
      PROVE  FALSE
  <2>1. edges[n].seq < edges[m].seq /\ edges[n].mono <= edges[m].mono
    BY <1>5 DEF LogInv, SeqAscends, LevelInv, StampsAscend
  <2>2. edges[m].seq > cursor[s] /\ edges[m].key \in items[s]
    <3>1. cursor[s] \in Nat
      BY DEF TypeOK
    <3>2. got[i].key \in items[s]
      BY <1>1, <1>2
    <3> QED
      BY <2>1, <3>1, <3>2, <1>3, <1>4, <1>5
  <2>3. PICK j \in 1..Len(got): got[j] = edges[m]
    BY <1>2, <2>2
  <2>4. \/ edges[m].mono < edges[n].mono
        \/ edges[m].mono = edges[n].mono /\ edges[m].seq <= edges[n].seq
    BY <1>1, <1>3, <1>5, <2>3 DEF IsLast
  <2> QED
    BY <2>1, <2>4, <1>4
<1>6. edges[n].value = bit[edges[n].key]
  BY <1>5 DEF LevelInv, NewestIsLevel
<1>7. view'[s][got[i].key] = bit[got[i].key]
  <2>1. PlantOK
    BY WatchAssumption DEF TypeOK, PlantOK
  <2>2. got[i].key \in items[s]
    BY <1>1, <1>2
  <2> QED
    BY <2>1, <2>2, SampleShows
<1> QED
  BY <1>1, <1>3, <1>6, <1>7

LEMMA NoSampleAgrees == Len(NoSample.edges) = 0
  BY DEF NoSample

\* The other streams, and the other steps, leave a sample and the browser alone.
LEMMA AgreeStep ==
  ASSUME OneSide, TypeOK, LogInv, LevelInv, ViewInv, LevelsAgree, [Next]_vars
  PROVE  LevelsAgree'
<1>1. ASSUME NEW r \in Stream, sample'[r] = sample[r], view'[r] = view[r]
      PROVE  \A i \in 1..Len(sample'[r].edges):
               IsLast(sample'[r].edges, i) =>
                 view'[r][sample'[r].edges[i].key] = sample'[r].edges[i].value
  BY <1>1 DEF LevelsAgree
<1>2. ASSUME UNCHANGED <<sample, view>> PROVE LevelsAgree'
  BY <1>2 DEF LevelsAgree, IsLast
<1>3. ASSUME NEW s \in Stream, NEW full \in BOOLEAN, Sample(s, full)
      PROVE LevelsAgree'
  <2> SUFFICES ASSUME NEW r \in Stream
               PROVE  \A i \in 1..Len(sample'[r].edges):
                        IsLast(sample'[r].edges, i) =>
                          view'[r][sample'[r].edges[i].key]
                            = sample'[r].edges[i].value
    BY DEF LevelsAgree, IsLast
  <2>1. CASE r = s
    BY <1>3, <2>1, SampleLevels
  <2>2. CASE r # s
    <3>1. sample'[r] = sample[r] /\ view'[r] = view[r]
      BY <1>3, <2>2 DEF Sample, TypeOK
    <3> QED
      BY <3>1, <1>1
  <2> QED
    BY <2>1, <2>2
<1>4. ASSUME NEW s \in Stream, FinishStop(s) PROVE LevelsAgree'
  <2> SUFFICES ASSUME NEW r \in Stream
               PROVE  \A i \in 1..Len(sample'[r].edges):
                        IsLast(sample'[r].edges, i) =>
                          view'[r][sample'[r].edges[i].key]
                            = sample'[r].edges[i].value
    BY DEF LevelsAgree, IsLast
  <2>1. CASE r = s
    <3>1. sample'[r] = NoSample
      BY <1>4, <2>1 DEF FinishStop, TypeOK
    <3> QED
      BY <3>1, NoSampleAgrees
  <2>2. CASE r # s
    <3>1. sample'[r] = sample[r] /\ view'[r] = view[r]
      BY <1>4, <2>2 DEF FinishStop, TypeOK
    <3> QED
      BY <3>1, <1>1
  <2> QED
    BY <2>1, <2>2
<1>5. CASE UNCHANGED vars
  BY <1>2, <1>5 DEF vars, streamVars
<1>6. CASE Tick \/ CloseClient \/ OpenClient
  BY <1>2, <1>6 DEF Tick, CloseClient, OpenClient, streamVars
<1>7. ASSUME NEW k \in Key, ProgramWrite(k) \/ (\E t : DeviceWrite(k, t))
      PROVE LevelsAgree'
  BY <1>2, <1>7 DEF ProgramWrite, DeviceWrite, Change
<1>8. ASSUME NEW s \in Stream, NEW keys \in SUBSET Key,
             Start(s, keys) \/ FailSample(s) \/ BeginStop(s)
      PROVE LevelsAgree'
  BY <1>2, <1>8 DEF Start, FailSample, BeginStop
<1> QED
  BY <1>3, <1>4, <1>5, <1>6, <1>7, <1>8 DEF Next

LEMMA ViewInvariant == Spec => []ViewInv
<1>1. Init => ViewInv
  BY DEF Init, ViewInv, Unseen, Unknown
<1> QED
  BY <1>1, ViewStep, LogInvariant, PTL DEF Spec

\* The edges the chart draws for a bit end at the level the page shows for it
\* (BitEdgeLog.take, format_bit_edges, diff_values), for any bits and streams,
\* when the program and the device write different bits or an RPI spaces the
\* stamps.  On a bit of both without an RPI, a frame handled after a write of
\* the program but arrived before it would be drawn before the write.
THEOREM ChartEndsAtLevel ==
  ASSUME MinInterval > 0 \/ ProgramKey \cap DeviceKey = {}
  PROVE  Spec => []LevelsAgree
<1>1. OneSide
  BY DEF OneSide
<1>2. Init => LevelsAgree
  BY NoSampleAgrees DEF Init, LevelsAgree
<1>3. TypeOK /\ LogInv /\ LevelInv /\ ViewInv /\ LevelsAgree /\ [Next]_vars
        => LevelsAgree'
  BY <1>1, AgreeStep
<1> QED
  BY <1>2, <1>3, TypeCorrect, LogInvariant, LevelInvariant, ViewInvariant, PTL
     DEF Spec

-----------------------------------------------------------------------------
(***************************************************************************)
(* The time axis of a stream.                                              *)
(***************************************************************************)

\* Without an RPI no sample is ahead of the clock.
SampleIsPast == MinInterval = 0 => \A s \in Stream: sample[s].mono <= now

LEMMA SampleTime ==
  ASSUME TypeOK, NEW s \in Stream, NEW full \in BOOLEAN, Sample(s, full)
  PROVE  /\ sample'[s].mono \in Nat /\ sample'[s].mono >= now
         /\ \/ sample'[s].mono = now
            \/ \E n \in 1..Len(edges): sample'[s].mono = edges[n].mono
<1> DEFINE got == OfItems(s, take(cursor[s]))
           monos == {got[i].mono: i \in 1..Len(got)}
<1>1. sample'[s].mono = Newest(monos, now)
  BY DEF Sample, TypeOK
<1>2. now \in Nat
  BY WatchAssumption DEF TypeOK
<1>3. /\ got \in Seq(BitEdge)
      /\ \A i \in 1..Len(got): \E n \in 1..Len(edges): got[i] = edges[n]
  <2>1. LogTypeOK
    BY DEF TypeOK
  <2> QED
    BY <2>1, TakenIs
<1> HIDE DEF got
<1>4. /\ Newest(monos, now) \in monos \cup {now}
      /\ Newest(monos, now) \in Nat
      /\ \A m \in monos \cup {now}: m <= Newest(monos, now)
  BY <1>2, <1>3, NewestIs
<1>5. \A m \in monos: \E n \in 1..Len(edges): m = edges[n].mono
  BY <1>3
<1> HIDE DEF monos
<1>6. now <= Newest(monos, now)
  BY <1>4
<1> QED
  BY <1>1, <1>2, <1>4, <1>5, <1>6

LEMMA PastStep ==
  ASSUME TypeOK, LevelInv, SampleIsPast, [Next]_vars
  PROVE  SampleIsPast'
<1> SUFFICES ASSUME MinInterval = 0, NEW r \in Stream
             PROVE  sample'[r].mono <= now'
  BY DEF SampleIsPast
<1>1. now \in Nat /\ sample[r].mono \in Nat /\ sample[r].mono <= now
  BY WatchAssumption DEF TypeOK, SampleIsPast
<1>2. ASSUME UNCHANGED <<sample, now>> PROVE sample'[r].mono <= now'
  BY <1>1, <1>2
<1>3. CASE UNCHANGED vars
  BY <1>2, <1>3 DEF vars, plantVars, streamVars
<1>4. CASE Tick
  <2>1. sample' = sample /\ now' = now + 1
    BY <1>4 DEF Tick, streamVars
  <2> QED
    BY <1>1, <2>1
<1>5. CASE CloseClient \/ OpenClient
  BY <1>2, <1>5 DEF CloseClient, OpenClient, streamVars
<1>6. ASSUME NEW k \in Key, ProgramWrite(k) \/ (\E t : DeviceWrite(k, t))
      PROVE sample'[r].mono <= now'
  BY <1>2, <1>6 DEF ProgramWrite, DeviceWrite, Change
<1>7. ASSUME NEW s \in Stream, NEW keys \in SUBSET Key,
             Start(s, keys) \/ FailSample(s) \/ BeginStop(s)
      PROVE sample'[r].mono <= now'
  BY <1>2, <1>7 DEF Start, FailSample, BeginStop, plantVars
<1>8. ASSUME NEW s \in Stream, NEW full \in BOOLEAN, Sample(s, full)
      PROVE sample'[r].mono <= now'
  <2>1. now' = now
    BY <1>8 DEF Sample, plantVars
  <2>2. CASE r = s
    <3>1. \A n \in 1..Len(edges): edges[n].mono <= now
      BY DEF LevelInv, StampsArePast
    <3>2. \/ sample'[s].mono = now
          \/ \E n \in 1..Len(edges): sample'[s].mono = edges[n].mono
      BY <1>8, SampleTime
    <3> QED
      BY <1>1, <2>1, <2>2, <3>1, <3>2
  <2>3. CASE r # s
    <3>1. sample'[r] = sample[r]
      BY <1>8, <2>3 DEF Sample, TypeOK
    <3> QED
      BY <1>1, <2>1, <3>1
  <2> QED
    BY <2>2, <2>3
<1>9. ASSUME NEW s \in Stream, FinishStop(s) PROVE sample'[r].mono <= now'
  <2>1. now' = now
    BY <1>9 DEF FinishStop, plantVars
  <2>2. sample'[r] \in {sample[r], NoSample}
    BY <1>9 DEF FinishStop, TypeOK
  <2> QED
    BY <1>1, <2>1, <2>2 DEF NoSample
<1> QED
  BY <1>3, <1>4, <1>5, <1>6, <1>7, <1>8, <1>9 DEF Next

\* The time axis of a stream does not run back from a sample to the next
\* (watch_stream.py:155), but behind an edge that the RPI put off beyond the
\* time it was sent at: without an RPI it never does.
THEOREM TimeAxisAdvances == Spec => SampleClockMonotone
<1>1. Init => SampleIsPast
  BY WatchAssumption DEF Init, SampleIsPast, NoSample
<1>2. TypeOK /\ SampleIsPast /\ [Next]_vars =>
        [\A s \in Stream, full \in BOOLEAN:
           Sample(s, full) => \/ sample'[s].mono >= sample[s].mono
                              \/ MinInterval > 0 /\ sample[s].mono > now]_vars
  <2> SUFFICES ASSUME TypeOK, SampleIsPast,
                      NEW s \in Stream, NEW full \in BOOLEAN, Sample(s, full)
               PROVE  \/ sample'[s].mono >= sample[s].mono
                      \/ MinInterval > 0 /\ sample[s].mono > now
    OBVIOUS
  <2>1. sample'[s].mono \in Nat /\ sample'[s].mono >= now
    BY SampleTime
  <2>2. now \in Nat /\ sample[s].mono \in Nat /\ MinInterval \in Nat
    BY WatchAssumption, LogAssumption DEF TypeOK
  <2>3. MinInterval > 0 \/ sample[s].mono <= now
    BY <2>2 DEF SampleIsPast
  <2> QED
    BY <2>1, <2>2, <2>3
<1>3. TypeOK /\ LevelInv /\ SampleIsPast /\ [Next]_vars => SampleIsPast'
  BY PastStep
<1> QED
  BY <1>1, <1>2, <1>3, TypeCorrect, LevelInvariant, PTL
     DEF Spec, SampleClockMonotone

-----------------------------------------------------------------------------
(***************************************************************************)
(* No change is lost on the way to the stream, when there is one: a second *)
(* one arms the log the first reads.                                       *)
(***************************************************************************)

\* Nobody else arms the log.
OneStream == \A r, s \in Stream: r = s

\* While its log is armed, the edges beyond a stream's cursor are the last of
\* those it is owed, and the ring has all of them or is full.
InStep(s) ==
  /\ watched = items[s]
  /\ cursor[s] <= seq /\ Len(owed[s]) = seq - cursor[s]
  /\ Len(edges) = MaxLen \/ Len(edges) >= seq - cursor[s]
  /\ \A i \in 1..Len(edges):
       /\ edges[i].seq = seq - Len(edges) + i
       /\ edges[i].seq > cursor[s] =>
            <<edges[i].key, edges[i].value>> = owed[s][edges[i].seq - cursor[s]]

\* The log the stream armed is the one in use.
Armed(s) == phase[s] = "running" /\ client /\ armed[s] = generation

\* Every stream whose log is in use is in step with it.
ReachInv ==
  /\ generation >= 1
  /\ \A s \in Stream: /\ phase[s] = "idle" => armed[s] = NoLog
                      /\ Armed(s) => InStep(s)

LEMMA SubSeqIs ==
  ASSUME NEW E, NEW q \in Seq(E), NEW k \in 0..Len(q)
  PROVE  SubSeq(q, k + 1, Len(q)) = [i \in 1..(Len(q) - k) |-> q[k + i]]
<1> DEFINE r == SubSeq(q, k + 1, Len(q))
<1>1. r \in Seq(E) /\ Len(r) = Len(q) - k
  OBVIOUS
<1>2. \A i \in 1..Len(r): r[i] = q[k + i]
  OBVIOUS
<1> HIDE DEF r
<1>3. r = [i \in 1..Len(r) |-> r[i]]
  BY <1>1
<1> QED
  BY <1>1, <1>2, <1>3 DEF r

\* The edges taken are the last of those owed, as many as the ring holds.
LEMMA TakesOwed ==
  ASSUME TypeOK, LevelInv, NEW s \in Stream, InStep(s)
  PROVE  LET got == Pending(s) IN
         [i \in 1..Len(got) |-> <<got[i].key, got[i].value>>] = NewestOf(owed[s])
<1> DEFINE L == Len(edges)
           n == seq - cursor[s]
           m == IF n <= L THEN L - n ELSE 0
           fresh == take(cursor[s])
           got == Pending(s)
<1>1. /\ edges \in Seq(BitEdge) /\ L \in Nat /\ L <= MaxLen /\ n \in Nat
      /\ MaxLen \in Nat /\ seq \in Nat /\ cursor[s] \in Nat /\ m \in 0..L
      /\ n <= L \/ L = MaxLen
  BY LogAssumption DEF TypeOK, LogTypeOK, InStep
<1>2. owed[s] \in Seq(Key \X Bit) /\ Len(owed[s]) = n
  BY DEF TypeOK, InStep
<1>3. \A i \in 1..L: /\ edges[i].seq = seq - L + i
                     /\ edges[i].seq > cursor[s] <=> i > L - n
  BY <1>1 DEF InStep
<1>4. {i \in 1..L: edges[i].seq > cursor[s]} = (m + 1)..L
  BY <1>1, <1>3
<1>5. fresh = Kept(edges, (m + 1)..L)
  BY <1>4 DEF take
<1> HIDE DEF fresh, m
<1>6. /\ fresh \in Seq(BitEdge) /\ Len(fresh) = L - m
      /\ \A i \in 1..Len(fresh): fresh[i] = edges[m + i]
  BY <1>1, <1>5, KeptSuffix
<1>7. \A i \in 1..Len(fresh): fresh[i].key \in items[s]
  <2>1. \A i \in 1..Len(fresh): m + i \in 1..L
    BY <1>1, <1>6
  <2> QED
    BY <2>1, <1>6 DEF InStep, LevelInv, NewestIsLevel
<1>8. {i \in 1..Len(fresh): fresh[i].key \in items[s]} = (0 + 1)..Len(fresh)
  BY <1>7
<1>9. got = Kept(fresh, (0 + 1)..Len(fresh))
  BY <1>8 DEF Pending, OfItems, fresh
<1> HIDE DEF got
<1>10. /\ got \in Seq(BitEdge) /\ Len(got) = L - m
       /\ \A i \in 1..Len(got): got[i] = edges[m + i]
  <2>1. 0 \in 0..Len(fresh) /\ Len(fresh) \in Nat
    BY <1>6
  <2>2. LET new == Kept(fresh, (0 + 1)..Len(fresh)) IN
        /\ new \in Seq(BitEdge) /\ Len(new) = Len(fresh) - 0
        /\ \A i \in 1..Len(new): new[i] = fresh[0 + i]
    BY <2>1, <1>6, KeptSuffix
  <2>3. /\ got \in Seq(BitEdge) /\ Len(got) = Len(fresh)
        /\ \A i \in 1..Len(got): got[i] = fresh[0 + i]
    BY <2>1, <2>2, <1>9
  <2> QED
    BY <2>3, <1>6
<1>11. ASSUME NEW i \in 1..Len(got)
       PROVE  <<got[i].key, got[i].value>> = owed[s][(n - (L - m)) + i]
  <2>1. /\ m + i \in 1..L /\ got[i] = edges[m + i]
        /\ m + i > L - n
    <3> HIDE DEF n, L
    <3>1. i \in 1..(L - m) /\ got[i] = edges[m + i]
      BY <1>10
    <3>2. m >= L - n /\ m \in Nat
      BY <1>1 DEF m
    <3> QED
      BY <3>1, <3>2, <1>1
  <2>2. /\ edges[m + i].seq = seq - L + (m + i)
        /\ edges[m + i].seq > cursor[s]
    BY <2>1, <1>3
  <2>3. edges[m + i].seq - cursor[s] = (n - (L - m)) + i
    BY <2>2, <1>1
  <2>4. <<edges[m + i].key, edges[m + i].value>>
          = owed[s][edges[m + i].seq - cursor[s]]
    BY <2>1, <2>2 DEF InStep
  <2> QED
    BY <2>1, <2>3, <2>4
<1>12. CASE n <= MaxLen
  <2>1. L - m = n
    BY <1>1, <1>12 DEF m
  <2>2. NewestOf(owed[s]) = owed[s]
    BY <1>2, <1>12 DEF NewestOf
  <2>3. owed[s] = [i \in 1..n |-> owed[s][i]]
    BY <1>2
  <2>4. Len(got) = n /\ \A i \in 1..n: <<got[i].key, got[i].value>> = owed[s][i]
    <3>1. Len(got) = n
      BY <2>1, <1>10
    <3>2. \A i \in 1..n: (n - (L - m)) + i = i
      BY <2>1, <1>1
    <3> QED
      BY <3>1, <3>2, <1>11
  <2> QED
    BY <2>2, <2>3, <2>4 DEF got
<1>13. CASE ~(n <= MaxLen)
  <2>1. L = MaxLen /\ m = 0
    BY <1>1, <1>13 DEF m
  <2>2. NewestOf(owed[s]) = SubSeq(owed[s], n - MaxLen + 1, n)
    BY <1>2, <1>13 DEF NewestOf
  <2>3. SubSeq(owed[s], n - MaxLen + 1, n)
          = [i \in 1..MaxLen |-> owed[s][(n - MaxLen) + i]]
    <3>1. n - MaxLen \in 0..n /\ n - (n - MaxLen) = MaxLen
      <4>1. n \in Nat /\ MaxLen \in Nat
        BY <1>1
      <4> HIDE DEF n
      <4> QED
        BY <4>1, <1>13
    <3> QED
      BY <3>1, <1>2, SubSeqIs
  <2>4. /\ Len(got) = MaxLen
        /\ \A i \in 1..MaxLen:
             <<got[i].key, got[i].value>> = owed[s][(n - MaxLen) + i]
    <3>1. Len(got) = MaxLen /\ L - m = MaxLen
      BY <2>1, <1>1, <1>10
    <3> QED
      BY <3>1, <1>11
  <2> QED
    BY <2>2, <2>3, <2>4 DEF got
<1> QED
  BY <1>1, <1>12, <1>13

\* A change of a bit of the stream is both recorded and owed, any other neither.
LEMMA ChangeInStep ==
  ASSUME TypeOK, NEW s \in Stream, phase[s] = "running", InStep(s),
         NEW k \in Key, NEW t \in Nat, Change(k, t)
  PROVE  InStep(s)'
<1>1. /\ LogTypeOK /\ record(k, 1 - bit[k], t) /\ 1 - bit[k] \in Bit
      /\ UNCHANGED <<items, cursor>>
  <2>1. bit[k] \in Bit
    BY DEF TypeOK
  <2> QED
    BY <2>1 DEF TypeOK, Change
<1>2. owed'[s] = IF k \in items[s] THEN Append(owed[s], <<k, 1 - bit[k]>>)
                                   ELSE owed[s]
  BY DEF Change
<1>3. /\ seq \in Nat /\ cursor[s] \in Nat /\ Len(edges) \in Nat /\ MaxLen \in Nat
      /\ owed[s] \in Seq(Key \X Bit) /\ Len(owed[s]) = seq - cursor[s]
      /\ cursor[s] <= seq
  BY LogAssumption DEF TypeOK, LogTypeOK, InStep
<1>4. CASE k \notin watched
  <2>1. UNCHANGED logVars
    BY <1>1, <1>4 DEF record
  <2>2. owed'[s] = owed[s]
    BY <1>2, <1>4 DEF InStep
  <2> QED
    BY <1>1, <2>1, <2>2 DEF InStep, logVars
<1>5. CASE k \in watched
  <2> DEFINE edge == [seq |-> seq + 1, key |-> k, value |-> 1 - bit[k],
                      mono |-> Stamp(k, t)]
             last == Len(edges')
             change == <<k, 1 - bit[k]>>
             n == seq - cursor[s]
  <2>1. /\ seq' = seq + 1 /\ watched' = watched /\ last \in 1..MaxLen
        /\ edges'[last] = edge
        /\ \E d \in {0, 1}:
             /\ last - 1 + d = Len(edges)
             /\ d = 1 => last = MaxLen
             /\ \A i \in 1..(last - 1):
                  i + d \in 1..Len(edges) /\ edges'[i] = edges[i + d]
    BY <1>1, <1>5, RecordIs
  <2>2. edge.seq = seq + 1 /\ <<edge.key, edge.value>> = change
    OBVIOUS
  <2>3. /\ change \in Key \X Bit
        /\ owed'[s] = Append(owed[s], change)
    BY <1>1, <1>2, <1>5 DEF InStep
  <2> HIDE DEF edge, last, change
  <2>4. PICK d \in {0, 1}:
          /\ last - 1 + d = Len(edges)
          /\ d = 1 => last = MaxLen
          /\ \A i \in 1..(last - 1):
               i + d \in 1..Len(edges) /\ edges'[i] = edges[i + d]
    BY <2>1
  <2>5. last \in Nat /\ last >= 1 /\ last <= MaxLen /\ n \in Nat
    BY <1>3, <2>1
  <2>6. /\ Len(owed'[s]) = n + 1 /\ owed'[s][n + 1] = change
        /\ \A j \in 1..n: owed'[s][j] = owed[s][j]
    BY <1>3, <2>3
  <2> HIDE DEF n
  <2>7. watched' = items'[s] /\ cursor'[s] <= seq' /\ Len(owed'[s]) = seq' - cursor'[s]
    BY <1>1, <1>3, <2>1, <2>6 DEF InStep, n
  <2>8. last = MaxLen \/ last >= n + 1
    <3>1. Len(edges) = MaxLen \/ Len(edges) >= n
      BY DEF InStep, n
    <3> QED
      BY <3>1, <2>4, <2>5, <1>3
  <2>9. ASSUME NEW i \in 1..last
        PROVE  /\ edges'[i].seq = seq' - last + i
               /\ edges'[i].seq > cursor[s] =>
                    <<edges'[i].key, edges'[i].value>>
                      = owed'[s][edges'[i].seq - cursor[s]]
    <3>1. CASE i = last
      <4>1. edges'[i].seq = seq + 1 /\ <<edges'[i].key, edges'[i].value>> = change
        BY <3>1, <2>1, <2>2
      <4>2. seq + 1 - cursor[s] = n + 1 /\ seq + 1 = seq' - last + i
        BY <3>1, <1>3, <2>1, <2>5 DEF n
      <4>3. owed'[s][edges'[i].seq - cursor[s]] = change
        <5> DEFINE q == edges'[i].seq
        <5>1. q = seq + 1
          BY <4>1
        <5> HIDE DEF q
        <5>2. owed'[s][q - cursor[s]] = change
          BY <5>1, <4>2, <2>6, <1>3
        <5> QED
          BY <5>2 DEF q
      <4> QED
        BY <4>1, <4>2, <4>3
    <3>2. CASE i \in 1..(last - 1)
      <4>1. i + d \in 1..Len(edges) /\ edges'[i] = edges[i + d]
        BY <3>2, <2>4
      <4>2. /\ edges[i + d].seq = seq - Len(edges) + (i + d)
            /\ edges[i + d].seq > cursor[s] =>
                 <<edges[i + d].key, edges[i + d].value>>
                   = owed[s][edges[i + d].seq - cursor[s]]
        BY <4>1 DEF InStep
      <4>3. seq - Len(edges) + (i + d) = seq' - last + i
        <5> DEFINE L == Len(edges)
        <5>1. L = last - 1 + d /\ L \in Nat /\ seq' = seq + 1
          BY <1>3, <2>1, <2>4
        <5> HIDE DEF L
        <5>2. seq - L + (i + d) = seq' - last + i
          BY <1>3, <5>1, <2>5
        <5> QED
          BY <5>2 DEF L
      <4> DEFINE q == edges[i + d].seq
      <4>4. q \in Int /\ q <= seq
        BY <4>1, <4>2, <1>3
      <4>5. q > cursor[s] => q - cursor[s] \in 1..n
        BY <4>4, <1>3 DEF n
      <4> QED
        BY <4>1, <4>2, <4>3, <4>5, <2>6
    <3> QED
      BY <3>1, <3>2, <2>5
  <2>10. seq' - cursor'[s] = n + 1 /\ cursor'[s] = cursor[s]
    BY <1>1, <1>3, <2>1 DEF n
  <2> QED
    BY <2>7, <2>8, <2>9, <2>10 DEF InStep, last
<1> QED
  BY <1>4, <1>5

\* Where the log and what is owed stay, so does the step they are in.
LEMMA ReachKept ==
  ASSUME ReachInv, UNCHANGED <<logVars, client, generation, items, armed, cursor,
                               owed>>,
         \A r \in Stream: phase'[r] # phase[r] => phase'[r] \notin {"idle", "running"}
  PROVE  ReachInv'
  BY DEF ReachInv, Armed, InStep, logVars

LEMMA ReachStep ==
  ASSUME OneStream, TypeOK, ReachInv, [Next]_vars
  PROVE  ReachInv'
<1>1. CASE UNCHANGED vars
  BY <1>1, ReachKept DEF vars, plantVars, streamVars
<1>2. CASE Tick
  BY <1>2, ReachKept DEF Tick, streamVars
<1>3. ASSUME NEW k \in Key, NEW t \in Nat, Change(k, t), client PROVE ReachInv'
  <2>1. UNCHANGED <<client, generation, phase, armed>>
    BY <1>3 DEF Change
  <2>2. ASSUME NEW s \in Stream, Armed(s)' PROVE InStep(s)'
    <3>1. Armed(s)
      BY <2>1, <2>2 DEF Armed
    <3>2. phase[s] = "running" /\ InStep(s)
      BY <3>1 DEF ReachInv, Armed
    <3> QED
      BY <3>2, <1>3, ChangeInStep
  <2> QED
    BY <2>1, <2>2 DEF ReachInv
<1>4. ASSUME NEW k \in Key, ProgramWrite(k) PROVE ReachInv'
  <2>1. now \in Nat /\ Change(k, now) /\ client
    BY <1>4, WatchAssumption DEF ProgramWrite, TypeOK
  <2> QED
    BY <2>1, <1>3
<1>5. ASSUME NEW k \in Key, NEW lag \in 0..MaxLag, now >= lag,
             DeviceWrite(k, now - lag)
      PROVE ReachInv'
  <2>1. now - lag \in Nat
    BY <1>5, WatchAssumption DEF TypeOK
  <2>2. Change(k, now - lag) /\ client
    BY <1>5 DEF DeviceWrite
  <2> QED
    BY <2>1, <2>2, <1>3
<1>6. CASE CloseClient
  <2>1. client' = FALSE /\ UNCHANGED <<generation, phase, armed>>
    BY <1>6 DEF CloseClient, streamVars
  <2> QED
    BY <2>1 DEF ReachInv, Armed
<1>7. CASE OpenClient
  <2>1. generation' = generation + 1 /\ UNCHANGED <<phase, armed>>
    BY <1>7 DEF OpenClient, streamVars
  <2>2. /\ generation \in Nat
        /\ \A s \in Stream: armed[s] \in 0..generation
    BY DEF TypeOK
  <2>3. \A s \in Stream: armed'[s] # generation'
    BY <2>1, <2>2
  <2> QED
    BY <2>1, <2>2, <2>3 DEF ReachInv, Armed
<1>8. ASSUME NEW s \in Stream, NEW keys \in SUBSET Key, Start(s, keys)
      PROVE ReachInv'
  <2>1. /\ UNCHANGED <<client, generation>> /\ phase'[s] = "running"
        /\ items'[s] = keys /\ owed'[s] = <<>> /\ \A r \in Stream: r = s
    BY <1>8 DEF Start, plantVars, TypeOK, OneStream
  <2>2. CASE client
    <3>1. /\ watched' = keys /\ edges' = <<>> /\ seq' = seq
          /\ cursor'[s] = seq /\ seq \in Nat
      BY <1>8, <2>2 DEF Start, arm, TypeOK, LogTypeOK
    <3>2. InStep(s)'
      BY <2>1, <3>1 DEF InStep
    <3> QED
      BY <2>1, <3>2 DEF ReachInv
  <2>3. CASE ~client
    BY <2>1, <2>3 DEF ReachInv, Armed
  <2> QED
    BY <2>2, <2>3
<1>9. ASSUME NEW s \in Stream, NEW full \in BOOLEAN, Sample(s, full)
      PROVE ReachInv'
  <2>1. /\ UNCHANGED <<logVars, client, generation, phase, items, armed>>
        /\ cursor'[s] = seq /\ owed'[s] = <<>> /\ \A r \in Stream: r = s
    BY <1>9 DEF Sample, plantVars, TypeOK, OneStream
  <2>2. /\ seq \in Nat /\ Len(edges) \in Nat
        /\ \A i \in 1..Len(edges): seq - Len(edges) + i <= seq
    BY DEF TypeOK, LogTypeOK
  <2>3. ASSUME Armed(s) PROVE InStep(s)'
    <3>1. InStep(s)
      BY <2>3 DEF ReachInv
    <3>2. \A i \in 1..Len(edges): /\ edges[i].seq = seq - Len(edges) + i
                                  /\ ~(edges[i].seq > seq)
      BY <3>1, <2>2 DEF InStep
    <3> QED
      BY <2>1, <2>2, <3>1, <3>2 DEF InStep, logVars
  <2> QED
    BY <2>1, <2>3 DEF ReachInv, Armed
<1>10. ASSUME NEW s \in Stream, FailSample(s) \/ BeginStop(s) PROVE ReachInv'
  BY <1>10, ReachKept DEF FailSample, BeginStop, plantVars, TypeOK
<1>11. ASSUME NEW s \in Stream, FinishStop(s) PROVE ReachInv'
  <2>1. /\ generation' = generation /\ phase'[s] = "idle" /\ armed'[s] = NoLog
        /\ \A r \in Stream: r = s
    BY <1>11 DEF FinishStop, Disarm, plantVars, TypeOK, OneStream
  <2> QED
    BY <2>1 DEF ReachInv, Armed
<1> QED
  BY <1>1, <1>2, <1>4, <1>5, <1>6, <1>7, <1>8, <1>9, <1>10, <1>11 DEF Next

\* No pulse is lost between two samples (BitEdgeLog.record and take): what the
\* loop takes next is all the changes of its bits since it last took, in their
\* order, or the newest MaxLen of them, for any ring and any bits, however the
\* client is closed, opened and the stream stopped and started in between.
THEOREM NoPulseIsLost ==
  ASSUME \A r, s \in Stream: r = s
  PROVE  Spec => []EdgesReachStream
<1>1. OneStream
  BY DEF OneStream
<1>2. Init => ReachInv
  BY DEF Init, ReachInv, Armed, NoLog
<1>3. TypeOK /\ ReachInv /\ [Next]_vars => ReachInv'
  BY <1>1, ReachStep
<1>4. TypeOK /\ LevelInv /\ ReachInv => EdgesReachStream
  <2> SUFFICES ASSUME TypeOK, LevelInv, ReachInv, NEW s \in Stream,
                      phase[s] = "running", client, armed[s] = generation
               PROVE  LET got == Pending(s) IN
                      [i \in 1..Len(got) |-> <<got[i].key, got[i].value>>]
                        = NewestOf(owed[s])
    BY DEF EdgesReachStream
  <2>1. InStep(s)
    BY DEF ReachInv, Armed
  <2> QED
    BY <2>1, TakesOwed
<1> QED
  BY <1>2, <1>3, <1>4, TypeCorrect, LevelInvariant, PTL DEF Spec

=============================================================================
