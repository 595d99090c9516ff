------------------------ MODULE ClientRegistry_proofs ------------------------
(***************************************************************************)
(* The requests on the one client of each kind, the soft PLC and the       *)
(* opening of the Field Network connection, for any number of requests,    *)
(* clients and settings and any sizes.                                     *)
(*                                                                         *)
(* The switch interval is given back: which release is the last one is     *)
(* read off users, so that the count has to be the number of holders, and  *)
(* a server that starts must not hold it already (IntervalInv).  Clients   *)
(* and requests are where the types say (Shape).  What was tried and       *)
(* refused says why an opening gives up (RefusedBefore).  And who answers  *)
(* for each client that is not over says that none is left behind          *)
(* (Accounted).                                                            *)
(***************************************************************************)
EXTENDS ClientRegistry, FiniteSetTheorems, TLAPS

IntervalInv ==
  /\ made \in Nat
  /\ held \subseteq 1 .. made
  /\ users = Cardinality(held)
  /\ IntervalRestored
  /\ interval \in {"default", "short"}

LEMMA IntervalInit == Init => IntervalInv
  BY FS_EmptySet DEF Init, IntervalInv, IntervalRestored

\* The holders can be counted.
LEMMA HeldFinite ==
  ASSUME IntervalInv PROVE IsFiniteSet(held) /\ users \in Nat
<1>1. IsFiniteSet(1 .. made)
  BY FS_Interval DEF IntervalInv
<1>2. IsFiniteSet(held)
  BY <1>1, FS_Subset DEF IntervalInv
<1> QED
  BY <1>2, FS_CardinalityType DEF IntervalInv

\* A server that starts is a new holder.
LEMMA StartKeeps == ASSUME IntervalInv, NEW k, Start(k) PROVE IntervalInv'
<1>1. made' = made + 1 /\ held' = held \cup {made'} /\ made' \notin held
  BY DEF IntervalInv, Start, Acquire
<1>2. made' \in Nat /\ held' \subseteq 1 .. made'
  BY <1>1 DEF IntervalInv
<1>3. users' = Cardinality(held')
  BY <1>1, HeldFinite, FS_AddElement DEF IntervalInv, Start, Acquire
<1>4. interval' = "short" /\ held' # {}
  <2>1. CASE users = 0
    BY <1>1, <2>1 DEF Start, Acquire
  <2>2. CASE users # 0
    <3>1. held # {}
      BY <2>2, FS_EmptySet DEF IntervalInv
    <3> QED
      BY <1>1, <2>2, <3>1 DEF Start, Acquire, IntervalInv, IntervalRestored
  <2> QED
    BY <2>1, <2>2
<1> QED
  BY <1>2, <1>3, <1>4 DEF IntervalInv, IntervalRestored

\* A server that stops, or failed to start, gives up what it held.
LEMMA ReleaseKeeps ==
  ASSUME IntervalInv, NEW i, Release(i), UNCHANGED made PROVE IntervalInv'
<1>1. CASE i \notin held
  BY <1>1 DEF Release, stamp, IntervalInv, IntervalRestored
<1>2. CASE i \in held
  <2>1. held' = held \ {i} /\ users' = users - 1
    BY <1>2 DEF Release
  <2>2. users' = Cardinality(held') /\ IsFiniteSet(held')
    BY <1>2, <2>1, HeldFinite, FS_RemoveElement DEF IntervalInv
  <2>3. held' = {} <=> users = 1
    BY <2>1, <2>2, HeldFinite, FS_EmptySet
  <2>4. interval' = IF users = 1 THEN "default" ELSE interval
    BY <1>2 DEF Release
  <2>5. interval = "short"
    BY <1>2 DEF IntervalInv, IntervalRestored
  <2> QED
    BY <2>1, <2>2, <2>3, <2>4, <2>5 DEF IntervalInv, IntervalRestored
<1> QED
  BY <1>1, <1>2

\* Anything else may make a client of Field Network, which holds nothing.
LEMMA OthersKeep ==
  ASSUME IntervalInv, UNCHANGED stamp, made' \in {made, made + 1}
  PROVE  IntervalInv'
  BY DEF IntervalInv, IntervalRestored, stamp

LEMMA RequestKeeps ==
  ASSUME IntervalInv, NEW c, NEW k, EnsurePlc(c, k) \/ EnsureFn(c, k)
  PROVE  IntervalInv'
<1>1. CASE EnsurePlc(c, k)
  <2>1. CASE ReusePlc(c, k)
    BY <2>1, OthersKeep DEF ReusePlc, servers
  <2>2. CASE ReplacePlc(c, k)
    BY <2>2, OthersKeep DEF ReplacePlc
  <2>3. CASE FirstPlc(c, k)
    BY <2>3, StartKeeps, OthersKeep DEF FirstPlc, NotStarted, servers
  <2> QED
    BY <1>1, <2>1, <2>2, <2>3 DEF EnsurePlc
<1>2. CASE EnsureFn(c, k)
  <2>1. UNCHANGED stamp
    BY <1>2 DEF EnsureFn
  <2>2. made' \in {made, made + 1}
    BY <1>2 DEF EnsureFn, ReuseFn, ReplaceFn, Open, servers
  <2> QED
    BY <2>1, <2>2, OthersKeep
<1> QED
  BY <1>1, <1>2

LEMMA CallerKeeps ==
  ASSUME IntervalInv, NEW c, CallerSteps(c) \/ CloseClient(c) \/ NoDevice(c)
  PROVE  IntervalInv'
<1>1. CASE ResumePlc(c)
  <2>1. \/ \E k : Start(k)
        \/ NotStarted
    BY <1>1 DEF ResumePlc
  <2> QED
    BY <2>1, StartKeeps, OthersKeep DEF NotStarted, servers
<1>2. CASE ResumeFn(c)
  BY <1>2, OthersKeep DEF ResumeFn, Open
<1>3. CASE Closed(c) \/ Connected(c) \/ WrongSize(c) \/ OpenFailed(c) \/ NoDevice(c)
  BY <1>3, OthersKeep DEF Closed, Connected, WrongSize, OpenFailed, NoDevice, servers
<1>4. CASE CloseClient(c)
  BY <1>4, OthersKeep DEF CloseClient, servers
<1> QED
  BY <1>1, <1>2, <1>3, <1>4 DEF CallerSteps

LEMMA ServerKeeps ==
  ASSUME IntervalInv, NEW i,
         \/ ServerSteps(i) \/ ConnectionLost(i)
         \/ DeviceConnects(i) \/ DeviceLeaves(i)
  PROVE  IntervalInv'
<1>1. CASE StopReturned(i)
  BY <1>1, ReleaseKeeps DEF StopReturned
<1>2. CASE WriterClosed(i) \/ StopListener(i) \/ ScannerClosed(i) \/ ConnectionLost(i)
  BY <1>2, OthersKeep DEF WriterClosed, StopListener, ScannerClosed, ConnectionLost
<1>3. CASE DeviceConnects(i) \/ DeviceLeaves(i)
  BY <1>3, OthersKeep DEF DeviceConnects, DeviceLeaves
<1> QED
  BY <1>1, <1>2, <1>3 DEF ServerSteps

LEMMA IntervalStep == IntervalInv /\ [Next]_vars => IntervalInv'
<1> SUFFICES ASSUME IntervalInv, [Next]_vars PROVE IntervalInv'
  OBVIOUS
<1>1. CASE UNCHANGED vars
  BY <1>1, OthersKeep DEF vars, stamp
<1>2. ASSUME NEW k \in Key, OthersListen(k) PROVE IntervalInv'
  BY <1>2, OthersKeep DEF OthersListen, servers
<1> QED
  BY <1>1, <1>2, RequestKeeps, CallerKeeps, ServerKeeps DEF Next

\* The switch interval of the interpreter is short exactly while some soft PLC
\* holds it, whatever the order of starts, failed starts and stops
\* (server.py, _acquire_switch_interval and _release_switch_interval).
THEOREM IntervalGivenBack == Spec => []IntervalRestored
<1>1. IntervalInv => IntervalRestored
  BY DEF IntervalInv
<1> QED
  BY <1>1, IntervalInit, IntervalStep, PTL DEF Spec

-----------------------------------------------------------------------------
(* The sizes to be tried.                                                  *)

\* The pairs of sizes are a sequence, and there is one to begin with.
LEMMA AlsoTriedIsSeq ==
  ASSUME NEW S, NEW pairs \in Seq(S), NEW pair \in S, Len(pairs) >= 1
  PROVE  /\ AlsoTried(pairs, pair) \in Seq(S)
         /\ Len(AlsoTried(pairs, pair)) >= 1
  BY DEF AlsoTried

LEMMA CandidatesAreSeq ==
  SizeCandidates \in Seq(Nat \X Nat) /\ Len(SizeCandidates) >= 1
<1> DEFINE P == Nat \X Nat
           o == OutputSize + HeaderBytes
           t == InputSize
           p1 == << <<o + 2, t + 2>> >>
           p2 == AlsoTried(p1, <<o + 2, t>>)
           p3 == AlsoTried(p2, <<o, t>>)
           p4 == AlsoTried(p3, <<o, t + 2>>)
           Tried(p) == p \in Seq(P) /\ Len(p) >= 1
<1>1. o \in Nat /\ t \in Nat /\ OutputSize \in Nat
  BY RegistryAssumption
<1>2. {<<o + 2, t + 2>>, <<o + 2, t>>, <<o, t>>, <<o, t + 2>>,
       <<OutputSize, t>>} \subseteq P
  BY <1>1
<1>3. Tried(p1)
  BY <1>2
<1>4. Tried(p2)
  BY <1>2, <1>3, AlsoTriedIsSeq
<1>5. Tried(p3)
  BY <1>2, <1>4, AlsoTriedIsSeq
<1>6. Tried(p4)
  BY <1>2, <1>5, AlsoTriedIsSeq
<1>7. Tried(AlsoTried(p4, <<OutputSize, t>>))
  BY <1>2, <1>6, AlsoTriedIsSeq
<1> QED
  BY <1>7 DEF SizeCandidates

-----------------------------------------------------------------------------
(* Where clients and requests are.                                         *)

Pending == {c \in Caller : req[c].at = "closing" /\ req[c].want # 0}
RoomLeft == made + Cardinality(Pending) <= MaxClients

Request == [at: {"rest", "closing", "opening", "failed"},
            want: Key \cup {0}, old: 0 .. MaxClients, new: 0 .. MaxClients]
Awaited == \A c \in Caller : /\ req[c].at = "closing" => req[c].old \in Id
                             /\ req[c].at = "opening" => req[c].new \in 1 .. made
States == {"none", "opening", "up", "broken", "closing", "gathering", "off"}
Stands == registered # 0 => state[registered] \in {"up", "broken"}

Placed ==
  /\ kind \in {"plclink", "fn"}
  /\ registered \in 0 .. made /\ made \in 0 .. MaxClients
  /\ key \in [Id -> Key \cup {0}]
  /\ state \in [Id -> States]
  /\ conn \in [Id -> {"none", "open", "closing"}]
  /\ late \subseteq Id /\ taken \subseteq Key
  /\ device \in ToSet(SizeCandidates) \cup {NoSizes}
  /\ attempt \in [Id -> 0 .. Len(SizeCandidates)]
  /\ req \in [Caller -> Request]
  /\ overlapped \in BOOLEAN
  /\ Awaited
  /\ Stands

LEMMA PendingCount == IsFiniteSet(Pending) /\ Cardinality(Pending) \in Nat
<1>1. Pending \in SUBSET Caller
  BY DEF Pending
<1> QED
  BY <1>1, RegistryAssumption, FS_Subset, FS_CardinalityType

\* Room is used by a new client, and set aside by a request that waits for one.
LEMMA RoomKept ==
  ASSUME RoomLeft, made \in Nat, made' = made, Pending' \subseteq Pending
  PROVE  RoomLeft'
<1>1. IsFiniteSet(Pending') /\ Cardinality(Pending') <= Cardinality(Pending)
  BY PendingCount, FS_Subset
<1>2. Cardinality(Pending') \in Nat
  BY <1>1, FS_CardinalityType
<1> QED
  BY <1>1, <1>2, PendingCount, RegistryAssumption DEF RoomLeft

LEMMA EndsKeeps ==
  ASSUME Placed, NEW c \in Caller, NEW place \in {"rest", "failed"},
         Ends(c, place)
  PROVE  /\ req' \in [Caller -> Request]
         /\ Pending' = Pending \ {c}
         /\ \A d \in Caller : d # c => req'[d] = req[d]
         /\ req'[c].at = place
  BY RegistryAssumption DEF Placed, Ends, At, Request, Pending

LEMMA WaitsKeeps ==
  ASSUME Placed, NEW c \in Caller, NEW place \in Busy,
         NEW want \in Key \cup {0}, NEW old \in 0 .. MaxClients,
         NEW new \in 0 .. MaxClients, WaitsFor(c, place, want, old, new)
  PROVE  /\ req' \in [Caller -> Request]
         /\ Pending' \subseteq Pending \cup {c}
         /\ place = "opening" \/ want = 0 => Pending' = Pending \ {c}
         /\ \A d \in Caller : d # c => req'[d] = req[d]
         /\ req'[c].at = place /\ req'[c].old = old /\ req'[c].new = new
  BY DEF Placed, WaitsFor, Request, Pending, Busy

LEMMA AwaitedKept ==
  ASSUME Placed, NEW c \in Caller, made' \in {made, made + 1},
         \A d \in Caller : d # c => req'[d] = req[d],
         req'[c].at = "closing" => req'[c].old \in Id,
         req'[c].at = "opening" => req'[c].new \in 1 .. made'
  PROVE  Awaited'
<1>1. 1 .. made \subseteq 1 .. made'
  BY DEF Placed
<1> QED
  BY <1>1 DEF Placed, Awaited, Id

\* A request that sets a room aside found one; a new client takes one.
LEMMA RoomTaken ==
  ASSUME made \in Nat, RoomLeft, NEW c \in Caller,
         \/ /\ Room
            /\ \/ made' = made + 1 /\ Pending' \subseteq Pending
               \/ made' = made /\ Pending' \subseteq Pending \cup {c}
         \/ /\ c \in Pending
            /\ made' = made + 1 /\ Pending' \subseteq Pending \ {c}
  PROVE  RoomLeft' /\ (made' = made + 1 => made' \in Id)
<1>1. /\ IsFiniteSet(Pending) /\ Cardinality(Pending) \in Nat
      /\ MaxClients \in Nat
  BY PendingCount, RegistryAssumption
<1>2. ASSUME NEW S, IsFiniteSet(S), Pending' \subseteq S
      PROVE  /\ Cardinality(Pending') \in Nat
             /\ Cardinality(Pending') <= Cardinality(S)
  BY <1>2, FS_Subset, FS_CardinalityType
<1>3. CASE Room /\ made' = made + 1 /\ Pending' \subseteq Pending
  BY <1>1, <1>2, <1>3 DEF Room, Pending, RoomLeft, Id
<1>4. CASE Room /\ made' = made /\ Pending' \subseteq Pending \cup {c}
  <2>1. /\ IsFiniteSet(Pending \cup {c})
        /\ Cardinality(Pending \cup {c}) = Cardinality(Pending)
           \/ Cardinality(Pending \cup {c}) = Cardinality(Pending) + 1
    BY <1>1, FS_AddElement
  <2> QED
    BY <1>1, <1>2, <1>4, <2>1, FS_CardinalityType DEF Room, Pending, RoomLeft, Id
<1>5. CASE /\ c \in Pending
           /\ made' = made + 1 /\ Pending' \subseteq Pending \ {c}
  <2>1. IsFiniteSet(Pending \ {c})
        /\ Cardinality(Pending \ {c}) = Cardinality(Pending) - 1
    BY <1>1, <1>5, FS_RemoveElement
  <2> QED
    BY <1>1, <1>2, <1>5, <2>1, FS_CardinalityType DEF RoomLeft, Id
<1> QED
  BY <1>3, <1>4, <1>5

-----------------------------------------------------------------------------
(* Every step keeps clients and requests in their places.                  *)

Shape == Placed /\ RoomLeft

LEMMA ShapeInit == Init => Shape
<1> SUFFICES ASSUME Init PROVE Shape
  OBVIOUS
<1>1. /\ Len(SizeCandidates) \in Nat /\ MaxClients \in Nat
      /\ attempt \in [Id -> 0 .. Len(SizeCandidates)]
  BY RegistryAssumption, CandidatesAreSeq DEF Init
<1>2. req \in [Caller -> Request] /\ Awaited
  BY <1>1 DEF Init, Request, At, Awaited
<1>3. /\ registered = 0 /\ made = 0 /\ key \in [Id -> Key \cup {0}]
      /\ state \in [Id -> States] /\ conn \in [Id -> {"none", "open", "closing"}]
      /\ late = {} /\ taken = {} /\ overlapped = FALSE
  BY DEF Init, States
<1>4. kind \in {"plclink", "fn"} /\ device \in ToSet(SizeCandidates) \cup {NoSizes}
  BY DEF Init
<1>5. Placed
  <2>1. registered \in 0 .. made /\ made \in 0 .. MaxClients
    BY <1>1, <1>3
  <2>2. late \subseteq Id /\ taken \subseteq Key /\ Stands
    BY <1>3 DEF Stands
  <2> QED
    BY <1>1, <1>2, <1>3, <1>4, <2>1, <2>2 DEF Placed
<1>6. Pending = {}
  BY DEF Init, Pending, At
<1> QED
  BY <1>5, <1>6, FS_EmptySet, RegistryAssumption DEF Shape, RoomLeft, Init

\* A server that starts is the registered one, and it runs.
LEMMA StartPlaces ==
  ASSUME Placed, NEW k \in Key \cup {0}, Start(k), made' \in Id,
         req' \in [Caller -> Request], Awaited',
         overlapped' \in BOOLEAN, UNCHANGED <<outside, taken, attempt>>
  PROVE  Placed'
  BY RegistryAssumption
  DEF Placed, Start, outside, Id, States, Stands

\* A client is closed when it is off the registry.
LEMMA DetachPlaces ==
  ASSUME Placed, registered # 0, Detach(registered), UNCHANGED <<key, late, made>>,
         req' \in [Caller -> Request], Awaited',
         overlapped' \in BOOLEAN, UNCHANGED <<outside, taken, attempt>>
  PROVE  Placed'
  BY RegistryAssumption
  DEF Placed, Detach, outside, Id, States, Stands

LEMMA StillPlaces ==
  ASSUME Placed, UNCHANGED <<servers, registered>>,
         req' \in [Caller -> Request], Awaited',
         overlapped' \in BOOLEAN, UNCHANGED <<outside, taken, attempt>>
  PROVE  Placed'
  BY DEF Placed, servers, outside, Stands

LEMMA OpenPlaces ==
  ASSUME Placed, NEW c, NEW k \in Key \cup {0}, Open(c, k), made' \in Id,
         req' \in [Caller -> Request], Awaited',
         overlapped' \in BOOLEAN, UNCHANGED <<outside, taken>>
  PROVE  Placed'
<1>1. /\ made + 1 \in Id /\ made' = made + 1 /\ registered' = registered
      /\ 1 \in 0 .. Len(SizeCandidates) /\ made' \in 0 .. MaxClients
  BY RegistryAssumption, CandidatesAreSeq DEF Placed, Open, Id
<1>2. /\ key' \in [Id -> Key \cup {0}] /\ state' \in [Id -> States]
      /\ attempt' \in [Id -> 0 .. Len(SizeCandidates)]
  BY <1>1 DEF Placed, Open, States
<1>3. registered' \in 0 .. made'
  BY <1>1, RegistryAssumption DEF Placed
<1>4. Stands'
  BY <1>1 DEF Placed, Open, Stands, Id
<1>5. UNCHANGED <<kind, conn, late, taken, device>>
  BY DEF Open, outside
<1> QED
  BY <1>1, <1>2, <1>3, <1>4, <1>5 DEF Placed

LEMMA RequestPlaces ==
  ASSUME Shape, NEW c \in Caller, NEW k,
         \/ k \in Key /\ (EnsurePlc(c, k) \/ EnsureFn(c, k))
         \/ CloseClient(c)
  PROVE  Shape'
<1>1. Placed /\ RoomLeft /\ made \in Nat /\ MaxClients \in Nat
  BY RegistryAssumption DEF Shape, Placed
<1>2. overlapped' \in BOOLEAN
  BY <1>1 DEF EnsurePlc, EnsureFn, CloseClient, Arrives, Placed
<1>3. registered \in 0 .. MaxClients
  BY <1>1 DEF Placed
<1>4. ASSUME Ends(c, "rest") \/ Ends(c, "failed"), made' \in {made, made + 1}
      PROVE  req' \in [Caller -> Request] /\ Awaited' /\ Pending' \subseteq Pending
  BY <1>1, <1>4, EndsKeeps, AwaitedKept
<1>5. ASSUME NEW want \in Key \cup {0}, registered # 0,
             WaitsFor(c, "closing", want, registered, 0), made' = made
      PROVE  /\ req' \in [Caller -> Request] /\ Awaited'
             /\ Pending' \subseteq Pending \cup {c}
             /\ want = 0 => Pending' \subseteq Pending
  <2>1. registered \in Id /\ 0 \in 0 .. MaxClients /\ "closing" \in Busy
    BY <1>1, <1>5 DEF Placed, Id, Busy
  <2> QED
    BY <1>1, <1>3, <1>5, <2>1, WaitsKeeps, AwaitedKept
<1>6. CASE k \in Key /\ EnsurePlc(c, k)
  <2>1. Room /\ UNCHANGED <<outside, taken, attempt>>
    BY <1>6 DEF EnsurePlc
  <2>2. CASE ReusePlc(c, k)
    BY <1>1, <1>2, <1>4, <2>1, <2>2, StillPlaces, RoomKept DEF ReusePlc, Shape, servers
  <2>3. CASE ReplacePlc(c, k)
    <3>1. /\ registered # 0 /\ Detach(registered)
          /\ WaitsFor(c, "closing", k, registered, 0)
          /\ UNCHANGED <<key, late, made>>
      BY <2>3 DEF ReplacePlc, Running
    <3>2. Placed'
      BY <1>1, <1>2, <1>5, <1>6, <2>1, <3>1, DetachPlaces
    <3>3. RoomLeft'
      BY <1>1, <1>5, <1>6, <2>1, <3>1, RoomTaken
    <3> QED
      BY <3>2, <3>3 DEF Shape
  <2>4. CASE FirstPlc(c, k) /\ Start(k)
    <3>1. made' = made + 1 /\ Ends(c, "rest")
      BY <2>4 DEF FirstPlc, Start
    <3>2. RoomLeft' /\ made' \in Id
      BY <1>1, <1>4, <2>1, <3>1, RoomTaken
    <3> QED
      BY <1>1, <1>2, <1>4, <1>6, <2>1, <2>4, <3>1, <3>2, StartPlaces DEF Shape
  <2>5. CASE FirstPlc(c, k) /\ ~Start(k)
    BY <1>1, <1>2, <1>4, <2>1, <2>5, StillPlaces, RoomKept
    DEF FirstPlc, NotStarted, servers, Shape
  <2> QED
    BY <1>6, <2>2, <2>3, <2>4, <2>5 DEF EnsurePlc
<1>7. CASE k \in Key /\ EnsureFn(c, k)
  <2>1. Room /\ UNCHANGED <<outside, taken>>
    BY <1>7 DEF EnsureFn
  <2>2. CASE ReuseFn(c, k)
    BY <1>1, <1>2, <1>4, <2>1, <2>2, StillPlaces, RoomKept DEF ReuseFn, Shape, servers
  <2>3. CASE ReplaceFn(c, k)
    <3>1. /\ registered # 0 /\ Detach(registered)
          /\ WaitsFor(c, "closing", k, registered, 0)
          /\ UNCHANGED <<key, late, made, attempt>>
      BY <2>3 DEF ReplaceFn, Running
    <3>2. Placed'
      BY <1>1, <1>2, <1>5, <1>7, <2>1, <3>1, DetachPlaces
    <3>3. RoomLeft'
      BY <1>1, <1>5, <1>7, <2>1, <3>1, RoomTaken
    <3> QED
      BY <3>2, <3>3 DEF Shape
  <2>4. CASE Open(c, k)
    <3>1. made' = made + 1 /\ WaitsFor(c, "opening", k, 0, made')
      BY <2>4 DEF Open
    <3>2. made' \in Id
      <4>1. made < MaxClients
        BY <1>1, <2>1, PendingCount DEF Room, Pending
      <4> QED
        BY <1>1, <3>1, <4>1 DEF Id
    <3>3. /\ req' \in [Caller -> Request] /\ Pending' \subseteq Pending
          /\ Awaited'
      <4>1. 0 \in 0 .. MaxClients /\ made' \in 0 .. MaxClients /\ "opening" \in Busy
        BY <1>1, <3>2 DEF Id, Busy
      <4> QED
        BY <1>1, <1>7, <3>1, <3>2, <4>1, WaitsKeeps, AwaitedKept DEF Id
    <3>4. RoomLeft'
      BY <1>1, <2>1, <3>1, <3>3, RoomTaken
    <3> QED
      BY <1>1, <1>2, <1>7, <2>1, <2>4, <3>2, <3>3, <3>4, OpenPlaces DEF Shape
  <2> QED
    BY <1>7, <2>2, <2>3, <2>4 DEF EnsureFn
<1>8. CASE CloseClient(c)
  <2>1. UNCHANGED <<outside, taken, attempt>>
    BY <1>8 DEF CloseClient
  <2>2. CASE registered = 0
    BY <1>1, <1>2, <1>4, <1>8, <2>1, <2>2, StillPlaces, RoomKept
    DEF CloseClient, Shape, servers
  <2>3. CASE registered # 0
    <3>1. /\ Detach(registered) /\ UNCHANGED <<key, late, made>>
          /\ WaitsFor(c, "closing", 0, registered, 0)
      BY <1>8, <2>3 DEF CloseClient
    <3> QED
      BY <1>1, <1>2, <1>5, <2>1, <2>3, <3>1, DetachPlaces, RoomKept DEF Shape
  <2> QED
    BY <2>2, <2>3
<1> QED
  BY <1>6, <1>7, <1>8

LEMMA CallerPlaces ==
  ASSUME Shape, NEW c \in Caller, CallerSteps(c) \/ NoDevice(c)
  PROVE  Shape'
<1>1. Placed /\ RoomLeft /\ made \in Nat /\ MaxClients \in Nat
  BY RegistryAssumption DEF Shape, Placed
<1>2. overlapped' \in BOOLEAN /\ UNCHANGED <<outside, taken>>
  BY <1>1 DEF CallerSteps, ResumePlc, ResumeFn, Closed, Connected, WrongSize,
              OpenFailed, NoDevice, Placed
<1>3. req[c] \in Request /\ (req[c].at = "closing" => req[c].old \in Id)
      /\ (req[c].at = "opening" => req[c].new \in Id /\ req[c].new <= made)
  BY <1>1 DEF Placed, Awaited, Id
<1>4. ASSUME Ends(c, "rest") \/ Ends(c, "failed"), made' \in {made, made + 1}
      PROVE  req' \in [Caller -> Request] /\ Awaited' /\ Pending' = Pending \ {c}
  BY <1>1, <1>4, EndsKeeps, AwaitedKept
<1>5. CASE ResumePlc(c)
  <2>1. c \in Pending /\ UNCHANGED attempt
    BY <1>5 DEF ResumePlc, Pending
  <2>2. Ends(c, "rest") \/ Ends(c, "failed")
    BY <1>5 DEF ResumePlc
  <2>3. ASSUME NEW k \in Key \cup {0}, Start(k) PROVE Shape'
    <3>1. made' = made + 1
      BY <2>3 DEF Start
    <3>2. RoomLeft' /\ made' \in Id
      BY <1>1, <1>4, <2>1, <2>2, <3>1, RoomTaken
    <3>3. req' \in [Caller -> Request] /\ Awaited'
      BY <1>4, <2>2, <3>1
    <3> QED
      BY <1>1, <1>2, <2>1, <2>3, <3>2, <3>3, StartPlaces DEF Shape
  <2>4. CASE NotStarted
    BY <1>1, <1>2, <1>4, <2>1, <2>2, <2>4, StillPlaces, RoomKept
    DEF NotStarted, servers, Shape
  <2>5. req[c].want \in Key \cup {0} /\ key[req[c].old] \in Key \cup {0}
    BY <1>1, <1>3, <1>5 DEF ResumePlc, Placed, Request
  <2> QED
    BY <1>5, <2>3, <2>4, <2>5 DEF ResumePlc
<1>6. CASE ResumeFn(c)
  <2>1. /\ c \in Pending /\ Open(c, req[c].want)
        /\ req[c].want \in Key \cup {0}
    BY <1>3, <1>6 DEF ResumeFn, Pending, Request
  <2>2. made' = made + 1 /\ WaitsFor(c, "opening", req[c].want, 0, made')
    BY <2>1 DEF Open
  <2>3. made' \in Id
    <3>1. Cardinality(Pending) >= 1
      BY <2>1, PendingCount, FS_EmptySet
    <3> QED
      BY <1>1, <2>2, <3>1, PendingCount DEF RoomLeft, Id
  <2>4. /\ req' \in [Caller -> Request] /\ Pending' \subseteq Pending \ {c}
        /\ Awaited'
    <3>1. 0 \in 0 .. MaxClients /\ made' \in 0 .. MaxClients /\ "opening" \in Busy
      BY <1>1, <2>3 DEF Id, Busy
    <3> QED
      BY <1>1, <2>1, <2>2, <2>3, <3>1, WaitsKeeps, AwaitedKept DEF Id
  <2>5. RoomLeft'
    BY <1>1, <2>1, <2>2, <2>4, RoomTaken
  <2> QED
    BY <1>1, <1>2, <2>1, <2>3, <2>4, <2>5, OpenPlaces DEF Shape
<1>7. CASE Closed(c) \/ OpenFailed(c)
  BY <1>1, <1>2, <1>4, <1>7, StillPlaces, RoomKept
  DEF Closed, OpenFailed, servers, Shape
<1>8. CASE Connected(c)
  <2>1. /\ req[c].new \in Id /\ state[req[c].new] = "opening"
        /\ state' = [state EXCEPT ![req[c].new] = "up"]
        /\ registered' = req[c].new /\ Ends(c, "rest")
        /\ UNCHANGED <<made, key, conn, late, attempt>>
    BY <1>3, <1>8 DEF Connected
  <2>2. req[c].new <= made
    BY <1>3, <1>8 DEF Connected
  <2>3. Placed'
    BY <1>1, <1>2, <1>4, <2>1, <2>2 DEF Placed, outside, States, Stands, Id
  <2> QED
    BY <1>1, <1>4, <2>1, <2>3, RoomKept DEF Shape
<1>9. CASE WrongSize(c) \/ NoDevice(c)
  <2>1. /\ req[c].new \in Id /\ state[req[c].new] = "opening"
        /\ UNCHANGED <<registered, made, key, conn, late, req>>
        /\ state' \in {state, [state EXCEPT ![req[c].new] = "closing"]}
    BY <1>3, <1>9 DEF WrongSize, NoDevice
  <2>2. attempt' \in [Id -> 0 .. Len(SizeCandidates)]
    BY <1>1, <1>9, CandidatesAreSeq
    DEF WrongSize, NoDevice, NextCandidate, Placed
  <2>3. Awaited' /\ Pending' = Pending
    BY <1>1, <2>1 DEF Placed, Awaited, Pending
  <2>4. state' \in [Id -> States]
    BY <1>1, <2>1 DEF Placed, States
  <2>5. Stands'
    <3>1. SUFFICES ASSUME registered # 0
                   PROVE  state'[registered] \in {"up", "broken"}
      BY <2>1 DEF Stands
    <3>2. registered \in Id /\ state[registered] \in {"up", "broken"}
      BY <1>1, <3>1 DEF Placed, Stands, Id
    <3> QED
      BY <1>1, <2>1, <3>2 DEF Placed
  <2>6. Placed'
    BY <1>1, <1>2, <2>1, <2>2, <2>3, <2>4, <2>5 DEF Placed, outside
  <2> QED
    BY <1>1, <2>1, <2>3, <2>6, RoomKept DEF Shape
<1> QED
  BY <1>5, <1>6, <1>7, <1>8, <1>9 DEF CallerSteps

LEMMA ServerPlaces ==
  ASSUME Shape, NEW i \in Id,
         \/ ServerSteps(i) \/ ConnectionLost(i)
         \/ DeviceConnects(i) \/ DeviceLeaves(i)
  PROVE  Shape'
<1>1. Placed /\ RoomLeft /\ made \in Nat
  BY DEF Shape, Placed
<1>2. UNCHANGED <<outside, registered, made, key, taken, attempt, req, overlapped>>
  BY DEF ServerSteps, WriterClosed, StopListener, StopReturned, ScannerClosed,
         ConnectionLost, DeviceConnects, DeviceLeaves
<1>3. Awaited' /\ Pending' = Pending
  BY <1>1, <1>2 DEF Placed, Awaited, Pending
<1>4. /\ conn' \in [Id -> {"none", "open", "closing"}]
      /\ late' \subseteq Id
  BY <1>1 DEF ServerSteps, WriterClosed, StopListener, StopReturned,
     ScannerClosed, ConnectionLost, DeviceConnects, DeviceLeaves, Placed
<1>5. \/ state' = state
      \/ state[i] \in {"closing", "gathering"}
         /\ \E s \in {"gathering", "off"} : state' = [state EXCEPT ![i] = s]
      \/ state' = [state EXCEPT ![i] = "broken"]
  BY DEF ServerSteps, WriterClosed, StopListener, StopReturned,
     ScannerClosed, ConnectionLost, DeviceConnects, DeviceLeaves
<1>6. state' \in [Id -> States]
  BY <1>1, <1>5 DEF Placed, States
<1>7. Stands'
  <2>1. SUFFICES ASSUME registered # 0
                 PROVE  state'[registered] \in {"up", "broken"}
    BY <1>2 DEF Stands
  <2>2. registered \in Id /\ state[registered] \in {"up", "broken"}
    BY <1>1, <2>1, RegistryAssumption DEF Placed, Stands, Id
  <2> QED
    BY <1>1, <1>5, <2>2 DEF Placed
<1>8. Placed'
  BY <1>1, <1>2, <1>3, <1>4, <1>6, <1>7 DEF Placed, outside
<1> QED
  BY <1>1, <1>2, <1>3, <1>8, RoomKept DEF Shape

LEMMA ShapeStep == Shape /\ [Next]_vars => Shape'
<1> SUFFICES ASSUME Shape, [Next]_vars PROVE Shape'
  OBVIOUS
<1>1. Placed /\ RoomLeft /\ made \in Nat
  BY DEF Shape, Placed
<1>2. ASSUME UNCHANGED <<outside, registered, servers, attempt, req, overlapped>>,
             taken' \subseteq Key
      PROVE  Shape'
  <2>1. Awaited' /\ Pending' = Pending /\ Stands'
    BY <1>1, <1>2 DEF Placed, Awaited, Pending, Stands, servers
  <2>2. Placed'
    BY <1>1, <1>2, <2>1 DEF Placed, outside, servers
  <2> QED
    BY <1>1, <1>2, <2>1, <2>2, RoomKept DEF Shape, servers
<1>3. CASE UNCHANGED vars
  BY <1>1, <1>2, <1>3 DEF vars, Placed, outside, servers
<1>4. ASSUME NEW k \in Key, OthersListen(k) PROVE Shape'
  BY <1>1, <1>2, <1>4 DEF OthersListen, Placed
<1>5. ASSUME NEW c \in Caller, CloseClient(c) PROVE Shape'
  BY <1>5, RequestPlaces
<1> QED
  BY <1>3, <1>4, <1>5, RequestPlaces, CallerPlaces, ServerPlaces DEF Next

LEMMA ShapeInvariant == Spec => []Shape
  BY ShapeInit, ShapeStep, PTL DEF Spec

LEMMA IntervalInvariant == Spec => []IntervalInv
  BY IntervalInit, IntervalStep, PTL DEF Spec

\* The types of all variables: a request that makes a client finds room for it,
\* and as many servers hold the switch interval as users says.
THEOREM TypeCorrect == Spec => []TypeOK
<1>1. ASSUME Shape, IntervalInv PROVE TypeOK
  <2>1. MaxClients \in Nat /\ made \in 0 .. MaxClients /\ made \in Nat
    BY <1>1, RegistryAssumption DEF Shape, Placed
  <2>2. 1 .. made \subseteq Id /\ IsFiniteSet(1 .. made)
        /\ Cardinality(1 .. made) = made
    BY <2>1, FS_Interval DEF Id
  <2>3. held \subseteq Id /\ users \in 0 .. MaxClients
    <3>1. Cardinality(held) <= made /\ users = Cardinality(held)
      BY <1>1, <2>2, FS_Subset DEF IntervalInv
    <3> QED
      BY <1>1, <2>1, <2>2, <3>1, HeldFinite DEF IntervalInv
  <2> QED
    BY <1>1, <2>3 DEF TypeOK, Shape, Placed, States, Request, IntervalInv
<1> QED
  BY <1>1, ShapeInvariant, IntervalInvariant, PTL

-----------------------------------------------------------------------------
(* Sizes.                                                                  *)

\* An opening has been refused every pair of sizes before the one it is at.
RefusedBefore ==
  kind = "fn" =>
    /\ \A i \in Id : state[i] # "gathering"
    /\ \A i \in Id : state[i] \in {"opening", "up", "broken"} => attempt[i] >= 1
    /\ \A i \in Id, n \in 1 .. Len(SizeCandidates) :
         state[i] = "opening" /\ n < attempt[i] => SizeCandidates[n] # device
    /\ SizesAreFound

\* What one client does, and what it does not do to the others.
LEMMA RefusedKept ==
  ASSUME Shape, RefusedBefore, kind' = kind, device' = device, NEW i,
         \A j \in Id : j # i => state'[j] = state[j] /\ attempt'[j] = attempt[j],
         kind = "fn" /\ i \in Id =>
           \/ state'[i] = state[i] /\ attempt'[i] = attempt[i]
           \/ state'[i] = "opening" /\ attempt'[i] = 1
           \/ /\ state[i] \in {"opening", "up", "broken", "closing"}
              /\ state'[i] \in {"up", "broken", "closing", "off"}
              /\ state[i] = "closing" => state'[i] = "off"
              /\ attempt'[i] = attempt[i]
           \/ /\ state[i] = "opening" /\ SizeCandidates[attempt[i]] # device
              /\ \/ /\ attempt[i] < Len(SizeCandidates)
                    /\ state'[i] = "opening" /\ attempt'[i] = attempt[i] + 1
                 \/ /\ attempt[i] >= Len(SizeCandidates)
                    /\ state'[i] = "closing" /\ attempt'[i] = 0
  PROVE  RefusedBefore'
<1> SUFFICES ASSUME kind = "fn" PROVE RefusedBefore'
  BY DEF RefusedBefore
<1>1. /\ \A j \in Id : attempt[j] \in Nat /\ attempt[j] <= Len(SizeCandidates)
      /\ Len(SizeCandidates) \in Nat
      /\ device \in ToSet(SizeCandidates) \cup {NoSizes}
  BY CandidatesAreSeq DEF Shape, Placed
<1>2. \A j \in Id : state'[j] # "gathering"
  BY DEF RefusedBefore
<1>3. \A j \in Id : j # i =>
        /\ state'[j] \in {"opening", "up", "broken"} => attempt'[j] >= 1
        /\ \A n \in 1 .. Len(SizeCandidates) :
             state'[j] = "opening" /\ n < attempt'[j] => SizeCandidates[n] # device'
        /\ attempt'[j] = 0 /\ state'[j] \in {"closing", "off"} => device' = NoSizes
  BY DEF RefusedBefore, SizesAreFound
<1>4. ASSUME i \in Id
      PROVE  state'[i] \in {"opening", "up", "broken"} => attempt'[i] >= 1
  BY <1>1, <1>4 DEF RefusedBefore
<1>5. ASSUME i \in Id, NEW n \in 1 .. Len(SizeCandidates),
             state'[i] = "opening", n < attempt'[i]
      PROVE  SizeCandidates[n] # device'
  BY <1>1, <1>5 DEF RefusedBefore
<1>6. ASSUME i \in Id, attempt'[i] = 0, state'[i] \in {"closing", "off"}
      PROVE  device' = NoSizes
  <2>1. CASE state'[i] = state[i] /\ attempt'[i] = attempt[i]
    BY <1>6, <2>1 DEF RefusedBefore, SizesAreFound
  <2>2. CASE state[i] \in {"opening", "up", "broken"} /\ attempt'[i] = attempt[i]
    BY <1>1, <1>6, <2>2 DEF RefusedBefore
  <2>3. CASE state[i] = "closing" /\ attempt'[i] = attempt[i]
    BY <1>6, <2>3 DEF RefusedBefore, SizesAreFound
  <2>4. CASE /\ state[i] = "opening" /\ SizeCandidates[attempt[i]] # device
             /\ attempt[i] >= Len(SizeCandidates)
    <3>1. \A n \in 1 .. Len(SizeCandidates) : SizeCandidates[n] # device
      BY <1>1, <1>6, <2>4 DEF RefusedBefore
    <3>2. DOMAIN SizeCandidates = 1 .. Len(SizeCandidates)
      BY CandidatesAreSeq
    <3> QED
      BY <1>1, <3>1, <3>2 DEF ToSet
  <2> QED
    BY <1>1, <1>6, <2>1, <2>2, <2>3, <2>4
<1> QED
  BY <1>2, <1>3, <1>4, <1>5, <1>6 DEF RefusedBefore, SizesAreFound

LEMMA RefusedStill ==
  ASSUME RefusedBefore, UNCHANGED <<outside, state, attempt>> PROVE RefusedBefore'
  BY DEF RefusedBefore, SizesAreFound, outside

\* A soft PLC has no sizes.
LEMMA RefusedPlc ==
  ASSUME kind # "fn", kind' = kind PROVE RefusedBefore'
  BY DEF RefusedBefore

LEMMA RefusedStep == Shape /\ RefusedBefore /\ [Next]_vars => RefusedBefore'
<1> SUFFICES ASSUME Shape, RefusedBefore, [Next]_vars PROVE RefusedBefore'
  OBVIOUS
<1>1. /\ state \in [Id -> States] /\ Stands /\ registered \in 0 .. MaxClients
      /\ attempt \in [Id -> 0 .. Len(SizeCandidates)]
  BY RegistryAssumption DEF Shape, Placed
<1>2. CASE UNCHANGED vars
  BY <1>2, RefusedStill DEF vars, outside
<1>3. ASSUME NEW i, registered # 0, Detach(registered), UNCHANGED <<outside, attempt>>
      PROVE  RefusedBefore'
  <2>1. registered \in Id /\ state[registered] \in {"up", "broken"}
    BY <1>1, <1>3 DEF Stands, Id
  <2> QED
    BY <1>1, <1>3, <2>1, RefusedKept DEF Detach, outside
<1>4. ASSUME NEW c, NEW k, Open(c, k), UNCHANGED outside PROVE RefusedBefore'
  BY <1>1, <1>4, RefusedKept DEF Open, outside
<1>5. ASSUME NEW c, NEW k, EnsurePlc(c, k) PROVE RefusedBefore'
  BY <1>5, RefusedPlc DEF EnsurePlc, outside
<1>6. ASSUME NEW c, NEW k, EnsureFn(c, k) PROVE RefusedBefore'
  BY <1>3, <1>4, <1>6, RefusedStill
  DEF EnsureFn, ReuseFn, ReplaceFn, Running, servers, outside
<1>7. ASSUME NEW c, CloseClient(c) PROVE RefusedBefore'
  BY <1>3, <1>7, RefusedStill DEF CloseClient, servers, outside
<1>8. ASSUME NEW c, ResumePlc(c) \/ ResumeFn(c) \/ Closed(c) \/ OpenFailed(c)
      PROVE  RefusedBefore'
  BY <1>4, <1>8, RefusedPlc, RefusedStill
  DEF ResumePlc, ResumeFn, Closed, OpenFailed, servers, outside
<1>9. ASSUME NEW c, Connected(c) \/ NoDevice(c) PROVE RefusedBefore'
  BY <1>1, <1>9, RefusedKept DEF Connected, NoDevice, outside
<1>10. ASSUME NEW c \in Caller, WrongSize(c) PROVE RefusedBefore'
  <2> DEFINE i == req[c].new
  <2>1. /\ state[i] = "opening" /\ SizeCandidates[attempt[i]] # device
        /\ UNCHANGED outside
    BY <1>10 DEF WrongSize
  <2>2. i \in Id /\ attempt[i] \in Nat /\ Len(SizeCandidates) \in Nat
    BY <1>1, <1>10, CandidatesAreSeq, RegistryAssumption
    DEF WrongSize, Shape, Placed, Awaited, Id
  <2>3. CASE NextCandidate(i)
    BY <1>1, <1>10, <2>1, <2>2, <2>3, RefusedKept DEF WrongSize, NextCandidate, outside
  <2>4. CASE ~NextCandidate(i)
    BY <1>1, <1>10, <2>1, <2>2, <2>4, RefusedKept DEF WrongSize, NextCandidate, outside
  <2> QED
    BY <2>3, <2>4
<1>11. ASSUME NEW i \in Id, \/ WriterClosed(i) \/ StopListener(i)
                            \/ DeviceConnects(i) \/ DeviceLeaves(i)
       PROVE  RefusedBefore'
  BY <1>11, RefusedPlc, RefusedStill
  DEF WriterClosed, StopListener, DeviceConnects, DeviceLeaves, outside
<1>12. ASSUME NEW i \in Id, ScannerClosed(i) \/ ConnectionLost(i)
       PROVE  RefusedBefore'
  BY <1>1, <1>12, RefusedKept DEF ScannerClosed, ConnectionLost, outside
<1>13. ASSUME NEW i \in Id, StopReturned(i) PROVE RefusedBefore'
  BY <1>1, <1>13, RefusedPlc DEF StopReturned, outside, RefusedBefore
<1>14. ASSUME NEW k, OthersListen(k) PROVE RefusedBefore'
  BY <1>14, RefusedStill DEF OthersListen, servers, outside
<1> QED
  BY <1>2, <1>5, <1>6, <1>7, <1>8, <1>9, <1>10, <1>11, <1>12, <1>13, <1>14
  DEF Next, CallerSteps, ServerSteps

\* No device is given up for its sizes that takes one of the candidates: the
\* candidates are tried one by one to the end (eip_scanner.py, _forward_open).
THEOREM SizesFound == Spec => []SizesAreFound
<1>1. Init => RefusedBefore /\ SizesAreFound
  BY DEF Init, RefusedBefore, SizesAreFound
<1>2. Shape /\ RefusedBefore => SizesAreFound
  BY DEF RefusedBefore, SizesAreFound
<1> QED
  BY <1>1, <1>2, RefusedStep, ShapeInvariant, PTL DEF Spec

-----------------------------------------------------------------------------
(* Who answers for a client that is not closed.                            *)

Serves(c, i) == \/ req[c].at = "closing" /\ req[c].old = i
                \/ req[c].at = "opening" /\ req[c].new = i
Over == {"none", "off", "broken"}

\* While requests come one after the other, a client that is not over is the
\* registered one, or the request in progress closes or opens it; and that
\* request has found no working client, or taken it off the registry.
Accounted ==
  ~overlapped =>
    /\ \A c, d \in Caller : req[c].at \in Busy /\ req[d].at \in Busy => c = d
    /\ \A c \in Caller : req[c].at \in Busy =>
         registered = 0 \/ state[registered] = "broken"
    /\ \A i \in Id : \/ state[i] \in Over \/ i = registered
                     \/ \E c \in Caller : Serves(c, i)

LEMMA AccountStill ==
  ASSUME Accounted, UNCHANGED <<registered, req, overlapped>>,
         \A i \in Id : state[i] \in Over => state'[i] \in Over,
         registered # 0 /\ state[registered] = "broken" => state'[registered] = "broken"
  PROVE  Accounted'
  BY DEF Accounted, Serves

\* A request that arrives alone.
LEMMA ArrivesAlone ==
  ASSUME Accounted, NEW c \in Caller, Arrives(c), ~overlapped'
  PROVE  /\ ~overlapped
         /\ \A d \in Caller : req[d].at \notin Busy
         /\ \A i \in Id : state[i] \in Over \/ i = registered
  BY DEF Accounted, Arrives, Serves, Busy

\* The only request in progress, and what it may still have to do with.
LEMMA GoesOnAlone ==
  ASSUME Accounted, NEW c \in Caller, req[c].at \in Busy, ~overlapped
  PROVE  /\ \A d \in Caller : d # c => req[d].at \notin Busy
         /\ registered = 0 \/ state[registered] = "broken"
         /\ \A i \in Id : state[i] \in Over \/ i = registered \/ Serves(c, i)
  BY DEF Accounted, Serves, Busy

\* Nobody is in progress after c, and every client is over or registered.
LEMMA AtRest ==
  ASSUME NEW c \in Caller, \A d \in Caller : d # c => req[d].at \notin Busy,
         \A d \in Caller : d # c => req'[d] = req[d], req'[c].at \notin Busy,
         \A i \in Id : state'[i] \in Over \/ i = registered'
  PROVE  Accounted'
  BY DEF Accounted

\* c is in progress and serves every client that is neither over nor registered.
LEMMA InProgress ==
  ASSUME NEW c \in Caller, \A d \in Caller : d # c => req[d].at \notin Busy,
         \A d \in Caller : d # c => req'[d] = req[d],
         registered' = 0 \/ state'[registered'] = "broken",
         \A i \in Id : state'[i] \in Over \/ i = registered' \/ Serves(c, i)'
  PROVE  Accounted'
  BY DEF Accounted

LEMMA AccountRequest ==
  ASSUME Shape, Shape', Accounted, NEW c \in Caller, NEW k,
         \/ k \in Key /\ (EnsurePlc(c, k) \/ EnsureFn(c, k))
         \/ CloseClient(c)
  PROVE  Accounted'
<1> SUFFICES ASSUME ~overlapped' PROVE Accounted'
  BY DEF Accounted
<1>1. Arrives(c)
  BY DEF EnsurePlc, EnsureFn, CloseClient
<1>2. /\ \A d \in Caller : req[d].at \notin Busy
      /\ \A i \in Id : state[i] \in Over \/ i = registered
  BY <1>1, ArrivesAlone
<1>3. /\ state \in [Id -> States] /\ req \in [Caller -> Request] /\ Stands
      /\ registered \in 0 .. MaxClients
      /\ registered' \in 0 .. MaxClients
  BY RegistryAssumption DEF Shape, Placed
<1>4. CASE /\ Ends(c, "rest") \/ Ends(c, "failed")
           /\ UNCHANGED <<state, registered>>
  BY <1>2, <1>3, <1>4, AtRest DEF Ends, At, Busy
<1>5. ASSUME NEW want, registered # 0, Detach(registered),
             WaitsFor(c, "closing", want, registered, 0)
      PROVE  Accounted'
  <2>1. registered \in Id /\ registered' = 0
    BY <1>3, <1>5 DEF Id, Detach
  <2>2. \A i \in Id : state'[i] \in Over \/ Serves(c, i)'
    BY <1>2, <1>3, <1>5, <2>1 DEF Detach, WaitsFor, Serves, Over
  <2>3. \A d \in Caller : d # c => req'[d] = req[d]
    BY <1>3, <1>5 DEF WaitsFor
  <2> QED
    BY <1>2, <2>1, <2>2, <2>3, InProgress
<1>6. CASE Start(k) /\ ~Running /\ Ends(c, "rest")
  <2>1. registered # 0 => state[registered] \in Over
    BY <1>3, <1>6 DEF Running, Stands, Over
  <2>2. \A i \in Id : state'[i] \in Over \/ i = registered'
    BY <1>2, <1>3, <1>6, <2>1 DEF Start, Id
  <2> QED
    BY <1>2, <1>3, <1>6, <2>2, AtRest DEF Ends, At, Busy
<1>7. CASE Open(c, k) /\ ~Running
  <2>1. registered = 0 \/ state[registered] = "broken"
    BY <1>3, <1>7 DEF Running, Stands
  <2>2. registered' = registered /\ registered # made'
    BY <1>7 DEF Open, Shape, Placed
  <2>3. registered' = 0 \/ state'[registered'] = "broken"
    BY <1>3, <1>7, <2>1, <2>2 DEF Open, Id
  <2>4. \A i \in Id : state'[i] \in Over \/ i = registered' \/ Serves(c, i)'
    BY <1>2, <1>3, <1>7, <2>1 DEF Open, WaitsFor, Serves, Id
  <2>5. \A d \in Caller : d # c => req'[d] = req[d]
    BY <1>3, <1>7 DEF Open, WaitsFor
  <2> QED
    BY <1>2, <2>3, <2>4, <2>5, InProgress
<1>8. CASE EnsurePlc(c, k)
  <2>1. CASE ReusePlc(c, k)
    BY <1>4, <2>1 DEF ReusePlc, servers
  <2>2. CASE ReplacePlc(c, k)
    BY <1>5, <2>2 DEF ReplacePlc, Running
  <2>3. CASE FirstPlc(c, k)
    BY <1>4, <1>6, <2>3 DEF FirstPlc, NotStarted, servers
  <2> QED
    BY <1>8, <2>1, <2>2, <2>3 DEF EnsurePlc
<1>9. CASE EnsureFn(c, k)
  <2>1. CASE ReuseFn(c, k)
    BY <1>4, <2>1 DEF ReuseFn, servers
  <2>2. CASE ReplaceFn(c, k)
    BY <1>5, <2>2 DEF ReplaceFn, Running
  <2> QED
    BY <1>7, <1>9, <2>1, <2>2 DEF EnsureFn
<1>10. CASE CloseClient(c)
  BY <1>4, <1>5, <1>10 DEF CloseClient, servers
<1> QED
  BY <1>8, <1>9, <1>10

LEMMA AccountCaller ==
  ASSUME Shape, Shape', Accounted, NEW c \in Caller, CallerSteps(c) \/ NoDevice(c)
  PROVE  Accounted'
<1> SUFFICES ASSUME ~overlapped' PROVE Accounted'
  BY DEF Accounted
<1>1. req[c].at \in Busy /\ ~overlapped
  BY DEF CallerSteps, ResumePlc, ResumeFn, Closed, Connected, WrongSize,
         OpenFailed, NoDevice, Busy
<1>2. /\ \A d \in Caller : d # c => req[d].at \notin Busy
      /\ registered = 0 \/ state[registered] = "broken"
      /\ \A i \in Id : state[i] \in Over \/ i = registered \/ Serves(c, i)
  BY <1>1, GoesOnAlone
<1>3. /\ state \in [Id -> States] /\ req \in [Caller -> Request] /\ Stands
      /\ registered \in 0 .. MaxClients
      /\ registered' \in 0 .. MaxClients
  BY RegistryAssumption DEF Shape, Placed
<1>4. \A i \in Id : i = registered => state[i] \in Over
  BY <1>2, <1>3 DEF Id, Over
<1>5. ASSUME NEW place \in {"rest", "failed"}, Ends(c, place)
      PROVE  /\ req'[c].at \notin Busy
             /\ \A d \in Caller : d # c => req'[d] = req[d]
  BY <1>3, <1>5 DEF Ends, At, Busy
<1>6. CASE ResumePlc(c)
  <2>1. req[c].at = "closing" /\ state[req[c].old] = "off"
        /\ (Ends(c, "rest") \/ Ends(c, "failed"))
    BY <1>6 DEF ResumePlc
  <2>2. \A i \in Id : state[i] \in Over
    BY <1>2, <1>4, <2>1 DEF Serves, Over
  <2>3. \A i \in Id : state'[i] \in Over \/ i = registered'
    BY <1>3, <1>6, <2>2 DEF ResumePlc, Start, NotStarted, servers
  <2> QED
    BY <1>2, <1>5, <2>1, <2>3, AtRest
<1>7. CASE ResumeFn(c)
  <2>1. req[c].at = "closing" /\ state[req[c].old] = "off" /\ Open(c, req[c].want)
    BY <1>7 DEF ResumeFn
  <2>2. \A i \in Id : state[i] \in Over
    BY <1>2, <1>4, <2>1 DEF Serves, Over
  <2>3. registered' = registered /\ registered # made'
    BY <2>1 DEF Open, Shape, Placed
  <2>4. registered' = 0 \/ state'[registered'] = "broken"
    BY <1>2, <1>3, <2>1, <2>3 DEF Open, Id
  <2>5. \A i \in Id : state'[i] \in Over \/ Serves(c, i)'
    BY <1>3, <2>1, <2>2 DEF Open, WaitsFor, Serves
  <2>6. \A d \in Caller : d # c => req'[d] = req[d]
    BY <1>3, <2>1 DEF Open, WaitsFor
  <2> QED
    BY <1>2, <2>4, <2>5, <2>6, InProgress
<1>8. CASE Closed(c) \/ OpenFailed(c)
  <2>1. UNCHANGED <<state, registered>> /\ (Ends(c, "rest") \/ Ends(c, "failed"))
    BY <1>8 DEF Closed, OpenFailed, servers
  <2>2. \A i \in Id : Serves(c, i) => state[i] \in Over
    BY <1>8 DEF Closed, OpenFailed, Serves, Over
  <2> QED
    BY <1>2, <1>4, <1>5, <2>1, <2>2, AtRest
<1>9. CASE Connected(c)
  <2>1. /\ req[c].at = "opening" /\ registered' = req[c].new /\ Ends(c, "rest")
        /\ state' = [state EXCEPT ![req[c].new] = "up"]
    BY <1>9 DEF Connected
  <2>2. \A i \in Id : state'[i] \in Over \/ i = registered'
    BY <1>2, <1>3, <1>4, <2>1 DEF Serves
  <2> QED
    BY <1>2, <1>5, <2>1, <2>2, AtRest
<1>10. CASE WrongSize(c) \/ NoDevice(c)
  <2>1. /\ req[c].at = "opening" /\ UNCHANGED <<registered, req>>
        /\ state[req[c].new] = "opening"
        /\ state' \in {state, [state EXCEPT ![req[c].new] = "closing"]}
    BY <1>10 DEF WrongSize, NoDevice
  <2>2. registered' = 0 \/ state'[registered'] = "broken"
    <3>1. SUFFICES ASSUME registered # 0 PROVE state'[registered] = "broken"
      BY <2>1
    <3>2. /\ registered \in Id /\ registered # req[c].new
          /\ state[registered] = "broken"
      BY <1>2, <1>3, <2>1, <3>1 DEF Id
    <3> QED
      BY <1>3, <2>1, <3>2
  <2>3. \A i \in Id : state'[i] \in Over \/ i = registered' \/ Serves(c, i)'
    BY <1>2, <1>3, <2>1 DEF Serves
  <2> QED
    BY <1>2, <2>1, <2>2, <2>3, InProgress
<1> QED
  BY <1>6, <1>7, <1>8, <1>9, <1>10 DEF CallerSteps

LEMMA AccountServer ==
  ASSUME Shape, Accounted, NEW i \in Id,
         \/ ServerSteps(i) \/ ConnectionLost(i)
         \/ DeviceConnects(i) \/ DeviceLeaves(i)
  PROVE  Accounted'
<1>1. UNCHANGED <<registered, req, overlapped>>
  BY DEF ServerSteps, WriterClosed, StopListener, StopReturned, ScannerClosed,
         ConnectionLost, DeviceConnects, DeviceLeaves
<1>2. \/ state' = state
      \/ state[i] = "closing" /\ state' = [state EXCEPT ![i] = "gathering"]
      \/ state[i] # "broken" /\ state' = [state EXCEPT ![i] = "off"]
      \/ state' = [state EXCEPT ![i] = "broken"]
  BY DEF ServerSteps, WriterClosed, StopListener, StopReturned,
     ScannerClosed, ConnectionLost, DeviceConnects, DeviceLeaves
<1>3. state \in [Id -> States] /\ (registered # 0 => registered \in Id)
  BY RegistryAssumption DEF Shape, Placed, Id
<1> QED
  BY <1>1, <1>2, <1>3, AccountStill DEF Over

LEMMA AccountStep == Shape /\ Shape' /\ Accounted /\ [Next]_vars => Accounted'
<1> SUFFICES ASSUME Shape, Shape', Accounted, [Next]_vars PROVE Accounted'
  OBVIOUS
<1>1. CASE UNCHANGED vars
  BY <1>1, AccountStill DEF vars, servers
<1>2. ASSUME NEW k, OthersListen(k) PROVE Accounted'
  BY <1>2, AccountStill DEF OthersListen, servers
<1>3. ASSUME NEW c \in Caller, CloseClient(c) PROVE Accounted'
  BY <1>3, AccountRequest
<1> QED
  BY <1>1, <1>2, <1>3, AccountRequest, AccountCaller, AccountServer DEF Next

\* Requests that come one after the other leave no client behind: whatever
\* fails, is replaced or closed (main.py, the two _ensure functions).
THEOREM NoneLeft == Spec => []NoneLeftRunning
<1>1. Init => Accounted
  BY DEF Init, Accounted, At, Over, Busy
<1>2. Accounted => NoneLeftRunning
  BY DEF Accounted, NoneLeftRunning, Serves, Over, Busy
<1> QED
  BY <1>1, <1>2, AccountStep, ShapeInvariant, PTL DEF Spec

\* A request changes no place but its own.
LEMMA OwnPlace ==
  ASSUME NEW d, \/ CallerSteps(d) \/ CloseClient(d) \/ NoDevice(d)
                \/ \E k \in Key : EnsurePlc(d, k) \/ EnsureFn(d, k)
  PROVE  req' = req \/ \E r : req' = [req EXCEPT ![d] = r]
<1>1. ASSUME NEW place, Ends(d, place) PROVE \E r : req' = [req EXCEPT ![d] = r]
  BY <1>1 DEF Ends
<1>2. ASSUME NEW place, NEW want, NEW old, NEW new, WaitsFor(d, place, want, old, new)
      PROVE  \E r : req' = [req EXCEPT ![d] = r]
  BY <1>2 DEF WaitsFor
<1>3. CASE CallerSteps(d) \/ NoDevice(d)
  BY <1>1, <1>2, <1>3 DEF CallerSteps, ResumePlc, ResumeFn, Open, Closed, Connected,
     WrongSize, OpenFailed, NoDevice
<1>4. CASE CloseClient(d)
  BY <1>1, <1>2, <1>4 DEF CloseClient
<1>5. ASSUME NEW k, EnsurePlc(d, k)
      PROVE  \E r : req' = [req EXCEPT ![d] = r]
  BY <1>1, <1>2, <1>5 DEF EnsurePlc, ReusePlc, ReplacePlc, FirstPlc
<1>6. ASSUME NEW k, EnsureFn(d, k)
      PROVE  \E r : req' = [req EXCEPT ![d] = r]
  BY <1>1, <1>2, <1>6 DEF EnsureFn, ReuseFn, ReplaceFn, Open
<1> QED
  BY <1>3, <1>4, <1>5, <1>6

\* A change of port that fails gives the old port back, or another program has
\* it (main.py, _ensure_plclink_started).
THEOREM OldPortKept == Spec => FailedStartKeepsOld
<1>1. ASSUME Shape, Shape', [Next]_vars, NEW c \in Caller, kind = "plclink",
             req[c].at = "closing", req'[c].at = "failed"
      PROVE  \/ registered' # 0 /\ key'[registered'] = key[req[c].old]
                                /\ state'[registered'] = "up"
             \/ ~PortFree(key[req[c].old])
  <2>1. req' # req /\ req \in [Caller -> Request]
    BY <1>1 DEF Shape, Placed
  <2>2. PICK d \in Caller : \/ CallerSteps(d) \/ CloseClient(d) \/ NoDevice(d)
                           \/ \E k \in Key : EnsurePlc(d, k) \/ EnsureFn(d, k)
    BY <1>1, <2>1
    DEF Next, vars, ServerSteps, WriterClosed, StopListener, StopReturned,
        ScannerClosed, ConnectionLost, DeviceConnects, DeviceLeaves, OthersListen
  <2>3. d = c
    BY <1>1, <2>1, <2>2, OwnPlace
  <2>4. ResumePlc(c)
    BY <1>1, <2>1, <2>2, <2>3
    DEF CallerSteps, CloseClient, NoDevice, EnsurePlc, EnsureFn, Arrives, Busy,
        ResumeFn, Open, WaitsFor, Closed, Connected, WrongSize, OpenFailed, Ends, At
  <2>5. Ends(c, "failed")
    BY <1>1, <2>1, <2>4 DEF ResumePlc, Ends, At
  <2>6. CASE Start(key[req[c].old])
    <3>1. made' \in Id /\ registered' = made'
      BY <1>1, <2>6, RegistryAssumption DEF Shape, Placed, Start, Id
    <3> QED
      BY <1>1, <2>6, <3>1 DEF Shape, Placed, Start, Id
  <2>7. Start(key[req[c].old]) \/ ~PortFree(key[req[c].old])
    BY <1>1, <2>1, <2>4 DEF ResumePlc, Ends, At
  <2> QED
    BY <2>6, <2>7
<1>2. Shape /\ Shape' /\ [Next]_vars =>
        [\A c \in Caller :
           kind = "plclink" /\ req[c].at = "closing" /\ req'[c].at = "failed"
             => \/ registered' # 0 /\ key'[registered'] = key[req[c].old]
                                   /\ state'[registered'] = "up"
                \/ ~PortFree(key[req[c].old])]_vars
  BY <1>1
<1> QED
  BY <1>2, ShapeInvariant, PTL DEF Spec, FailedStartKeepsOld
=============================================================================
