------------------------ MODULE SequenceEngine_proofs ------------------------
(***************************************************************************)
(* Three facts about every sequence.                                       *)
(*                                                                         *)
(* The stop button is obeyed.  StopIsObeyed is not inductive: that nothing *)
(* is sent for a later card needs to know that the last command was sent   *)
(* for a card already counted, and that the count stands still from the    *)
(* stop on.                                                                *)
(*                                                                         *)
(* loop_depth counts the loops being run.  That an exception or a break    *)
(* lowers it by as much as it unwinds needs the shape of the stack: one    *)
(* root frame at its bottom, and a loop on top wherever a round begins.    *)
(*                                                                         *)
(* The sequence is followed.  What happened so far says nothing of what is *)
(* to come, so FollowsTheSequence is not inductive.  MeaningInv looks the  *)
(* other way: from the environment the engine stands for, the cards left   *)
(* in the innermost frame, then those of the frame around it, and so on    *)
(* to the root, come to what the whole sequence means, for every list of   *)
(* answers still to come.                                                  *)
(***************************************************************************)
EXTENDS SequenceMeaning, FiniteSetTheorems, FunctionTheorems,
        WellFoundedInduction, TLAPS

StopInv ==
  /\ stepNumber \in Nat /\ stopAt \in Nat /\ sentAt \in Nat
  /\ sentAt <= stepNumber
  /\ stopped => stepNumber = stopAt

LEMMA StopInit == Init => StopInv
<1>1. Init => stepNumber = 0 /\ stopAt = 0 /\ sentAt = 0 /\ ~stopped
  BY Zenon DEF Init
<1> QED
  BY <1>1 DEF StopInv

\* Everything but the start of a card, a command and the stop itself leaves
\* the counters and the stop alone.
Counters == <<stepNumber, stopAt, sentAt, stopped>>

LEMMA OthersKeepCounters ==
  ASSUME \/ StopSeen \/ EndFrame \/ MissingVariable \/ SendFails
         \/ \E result \in DeviceResult \cup {Unheard, Switched}: Answer(result)
         \/ BeginDelay \/ Sleep \/ Note \/ SetVariable \/ MissingSource
         \/ If \/ EnterLoop \/ NextRound \/ Break \/ BreakOutside
  PROVE  UNCHANGED Counters
<1>1. ASSUME StopSeen \/ MissingVariable \/ SendFails \/ MissingSource \/ BreakOutside
      PROVE UNCHANGED Counters
  BY <1>1 DEF StopSeen, MissingVariable, SendFails, MissingSource, BreakOutside,
              Raise, history, Counters
<1>2. ASSUME EndFrame \/ BeginDelay \/ Sleep \/ Note
      PROVE UNCHANGED Counters
  BY <1>2 DEF EndFrame, BeginDelay, Sleep, Note, history, Counters
<1>3. ASSUME NEW result, Answer(result) PROVE UNCHANGED Counters
  BY <1>3 DEF Answer, Counters
<1>4. ASSUME SetVariable \/ If \/ EnterLoop \/ NextRound \/ Break
      PROVE UNCHANGED Counters
  BY <1>4 DEF SetVariable, If, EnterLoop, NextRound, Break, history, Counters
<1> QED
  BY <1>1, <1>2, <1>3, <1>4

LEMMA StopStep == StopInv /\ [Next]_vars => StopInv'
<1> SUFFICES ASSUME StopInv, [Next]_vars PROVE StopInv'
  OBVIOUS
<1>1. ASSUME UNCHANGED Counters PROVE StopInv'
  BY <1>1 DEF Counters, StopInv
<1>2. CASE UNCHANGED vars
  BY <1>1, <1>2 DEF vars, history, Counters
<1>3. CASE BeginCard
  BY <1>3 DEF BeginCard, history, StopInv
<1>4. CASE SendCommand
  BY <1>4 DEF SendCommand, StopInv
<1>5. CASE Stop
  BY <1>5 DEF Stop, StopInv
<1>6. ASSUME \/ StopSeen \/ EndFrame \/ MissingVariable \/ SendFails
             \/ \E result \in DeviceResult \cup {Unheard, Switched}: Answer(result)
             \/ BeginDelay \/ Sleep \/ Note \/ SetVariable \/ MissingSource
             \/ If \/ EnterLoop \/ NextRound \/ Break \/ BreakOutside
      PROVE StopInv'
  BY <1>1, <1>6, OthersKeepCounters
<1> QED
  BY <1>2, <1>3, <1>4, <1>5, <1>6 DEF Next, Run

\* Once stopped, a sequence starts no card and sends no command but the one of
\* the card under way (SequenceEngine._check_stopped).
THEOREM StopHolds == Spec => []StopIsObeyed
<1>1. StopInv => StopIsObeyed
  BY DEF StopInv, StopIsObeyed
<1> QED
  BY <1>1, StopInit, StopStep, PTL DEF Spec

-----------------------------------------------------------------------------
(***************************************************************************)
(* The stack.                                                              *)
(***************************************************************************)
IsFrame(f) ==
  f = [kind |-> f.kind, rest |-> f.rest, round |-> f.round]

Shape(s) ==
  /\ \E S: s \in Seq(S)
  /\ Len(s) > 0
  /\ \A i \in 1..Len(s): IsFrame(s[i]) /\ (s[i].kind = "root" <=> i = Len(s))

LoopsAt(s) == {i \in 1..Len(s): s[i].kind = "loop"}

\* Loops are counted from any frame on, whatever has become of the cards left
\* in the frames.
LEMMA DropCount ==
  ASSUME NEW s, NEW t, Len(s) \in Nat, NEW m \in 0..Len(s),
         Len(t) = Len(s) - m,
         \A i \in 1..Len(t): t[i].kind = s[i + m].kind
  PROVE  LoopsIn(t) = Cardinality({i \in LoopsAt(s): i > m})
<1> DEFINE T == {i \in LoopsAt(s): i > m}
           f == [i \in LoopsAt(t) |-> i + m]
<1>1. f \in [LoopsAt(t) -> T]
  BY DEF LoopsAt
<1>2. \A i, j \in LoopsAt(t): f[i] = f[j] => i = j
  BY DEF LoopsAt
<1>3. \A k \in T: \E i \in LoopsAt(t): f[i] = k
  <2> SUFFICES ASSUME NEW k \in T PROVE \E i \in LoopsAt(t): f[i] = k
    OBVIOUS
  <2>1. k - m \in 1..Len(t) /\ (k - m) + m = k
    BY DEF LoopsAt
  <2>2. k - m \in LoopsAt(t)
    BY <2>1 DEF LoopsAt
  <2> QED
    BY <2>1, <2>2
<1>4. ExistsBijection(LoopsAt(t), T)
  <2>1. f \in Bijection(LoopsAt(t), T)
    BY <1>1, <1>2, <1>3, Fun_IsBij
  <2> QED
    BY <2>1, Fun_ExistsBij
<1>5. IsFiniteSet(LoopsAt(t))
  <2>1. Len(t) \in Int /\ LoopsAt(t) \in SUBSET (1..Len(t))
    BY DEF LoopsAt
  <2>2. IsFiniteSet(1..Len(t))
    BY <2>1, FS_Interval
  <2> QED
    BY <2>1, <2>2, FS_Subset
<1> QED
  BY <1>4, <1>5, FS_Bijection DEF LoopsAt, LoopsIn

LEMMA LoopsFinite ==
  ASSUME NEW s, Len(s) \in Nat
  PROVE  /\ IsFiniteSet(LoopsAt(s))
         /\ LoopsIn(s) = Cardinality(LoopsAt(s))
         /\ LoopsIn(s) \in Nat
<1>1. IsFiniteSet(LoopsAt(s))
  <2>1. IsFiniteSet(1..Len(s)) /\ LoopsAt(s) \in SUBSET (1..Len(s))
    BY FS_Interval DEF LoopsAt
  <2> QED
    BY <2>1, FS_Subset
<1> QED
  BY <1>1, FS_CardinalityType DEF LoopsAt, LoopsIn

LEMMA EmptyStack == LoopsIn(<<>>) = 0
  BY FS_EmptySet DEF LoopsIn

LEMMA TailShifts ==
  ASSUME NEW S, NEW q \in Seq(S), Len(q) > 0
  PROVE  /\ Tail(q) \in Seq(S) /\ Len(Tail(q)) = Len(q) - 1 /\ Len(q) \in Nat
         /\ \A i \in 1..(Len(q) - 1): Tail(q)[i] = q[i + 1]
  OBVIOUS

LEMMA RestReplaced ==
  ASSUME NEW h, IsFrame(h), NEW x
  PROVE  [h EXCEPT !.rest = x] = [kind |-> h.kind, rest |-> x, round |-> h.round]
<1>1. PICK k, r, n: h = [kind |-> k, rest |-> r, round |-> n]
  BY DEF IsFrame
<1> QED
  BY <1>1

\* The frames of s from the one that is innermost when m have been left.
Outward(q, s, m) == q = SubSeq(s, m + 1, Len(s))

\* A card done there.
LEMMA AdvancedAre ==
  ASSUME NEW s, Shape(s), NEW m \in 0..(Len(s) - 1), NEW q,
         Outward(q, s, m)
  PROVE  /\ Len(s) \in Nat /\ m \in Nat /\ m < Len(s)
         /\ Len(q) = Len(s) - m /\ Len(q) > 0 /\ Len(Advanced(q)) = Len(q)
         /\ \E S: Advanced(q) \in Seq(S)
         /\ Advanced(q)[1].rest = Tail(s[m + 1].rest)
         /\ Advanced(q)[1].round = s[m + 1].round
         /\ \A i \in 2..Len(q): Advanced(q)[i] = s[i + m]
         /\ \A i \in 1..Len(q): /\ Advanced(q)[i].kind = s[i + m].kind
                                /\ IsFrame(Advanced(q)[i])
<1>1. PICK S: s \in Seq(S)
  BY DEF Shape
<1>2. Len(s) \in Nat /\ m \in Nat /\ m < Len(s)
  BY <1>1 DEF Shape
<1>3. /\ q \in Seq(S) /\ Len(q) = Len(s) - m /\ Len(q) > 0
      /\ \A i \in 1..Len(q): q[i] = s[i + m]
  BY <1>1, <1>2 DEF Outward
<1>4. IsFrame(Head(q)) /\ Head(q) = q[1]
  <2>1. Head(q) = q[1] /\ q[1] = s[1 + m] /\ 1 + m \in 1..Len(s)
    BY <1>2, <1>3
  <2> QED
    BY <2>1 DEF Shape
<1> DEFINE top == [Head(q) EXCEPT !.rest = Tail(@)]
<1>5. /\ top.kind = q[1].kind /\ IsFrame(top)
      /\ top.rest = Tail(q[1].rest) /\ top.round = q[1].round
  <2>1. top = [kind |-> Head(q).kind, rest |-> Tail(Head(q).rest),
               round |-> Head(q).round]
    BY <1>4, RestReplaced
  <2> QED
    BY <1>4, <2>1 DEF IsFrame
<1>6. Advanced(q) = <<top>> \o Tail(q)
  BY DEF Advanced
<1> HIDE DEF top
<1>7. /\ Advanced(q) \in Seq(S \cup {top}) /\ Len(Advanced(q)) = Len(q)
      /\ Advanced(q)[1] = top
      /\ \A i \in 2..Len(q): Advanced(q)[i] = q[i]
  <2>1. /\ Tail(q) \in Seq(S \cup {top}) /\ <<top>> \in Seq(S \cup {top})
        /\ Len(Tail(q)) = Len(q) - 1 /\ Len(<<top>>) = 1 /\ Len(q) \in Nat
        /\ \A i \in 1..(Len(q) - 1): Tail(q)[i] = q[i + 1]
    <3>1. /\ Tail(q) \in Seq(S) /\ Len(Tail(q)) = Len(q) - 1 /\ Len(q) \in Nat
          /\ \A i \in 1..(Len(q) - 1): Tail(q)[i] = q[i + 1]
      BY <1>3, TailShifts
    <3>2. Tail(q) \in Seq(S \cup {top})
      BY <3>1
    <3>3. <<top>> \in Seq(S \cup {top}) /\ Len(<<top>>) = 1
      OBVIOUS
    <3> QED
      BY <3>1, <3>2, <3>3
  <2> DEFINE u == <<top>>
             v1 == Tail(q)
  <2>2. Advanced(q) = u \o v1 /\ u[1] = top
    BY <1>6
  <2> HIDE DEF u, v1
  <2>3. /\ u \o v1 \in Seq(S \cup {top}) /\ Len(u \o v1) = Len(q)
        /\ (u \o v1)[1] = top
        /\ \A i \in 2..Len(q): (u \o v1)[i] = q[i]
    BY <1>3, <2>1, <2>2 DEF u, v1
  <2> QED
    BY <2>2, <2>3
<1>8. \A i \in 1..Len(q): /\ Advanced(q)[i].kind = s[i + m].kind
                          /\ IsFrame(Advanced(q)[i])
  <2> SUFFICES ASSUME NEW i \in 1..Len(q)
               PROVE  /\ Advanced(q)[i].kind = s[i + m].kind
                      /\ IsFrame(Advanced(q)[i])
    OBVIOUS
  <2>1. CASE i = 1
    BY <1>3, <1>5, <1>7, <2>1
  <2>2. CASE i # 1
    <3>1. i \in 2..Len(q) /\ i + m \in 1..Len(s)
      BY <1>2, <1>3, <2>2
    <3> QED
      BY <1>3, <1>7, <3>1 DEF Shape
  <2> QED
    BY <2>1, <2>2
<1>9. q[1] = s[m + 1]
  BY <1>2, <1>3
<1>10. \A i \in 2..Len(q): Advanced(q)[i] = s[i + m]
  BY <1>3, <1>7
<1>11. /\ Advanced(q)[1].rest = Tail(s[m + 1].rest)
       /\ Advanced(q)[1].round = s[m + 1].round
  BY <1>5, <1>7, <1>9
<1>12. \E R: Advanced(q) \in Seq(R)
  BY <1>7
<1> QED
  BY <1>2, <1>3, <1>7, <1>8, <1>10, <1>11, <1>12

LEMMA AdvanceKeeps ==
  ASSUME NEW s, Shape(s), NEW m \in 0..(Len(s) - 1), NEW q,
         Outward(q, s, m)
  PROVE  /\ Shape(Advanced(q))
         /\ LoopsIn(Advanced(q)) = Cardinality({i \in LoopsAt(s): i > m})
<1>2. Len(s) \in Nat /\ m \in Nat /\ m < Len(s) /\ m \in 0..Len(s)
  <2>1. Len(s) \in Nat
    BY AdvancedAre
  <2> QED
    BY <2>1
<1>3. Len(q) = Len(s) - m /\ Len(q) > 0
  BY AdvancedAre
<1>7. (\E S: Advanced(q) \in Seq(S)) /\ Len(Advanced(q)) = Len(q)
  BY AdvancedAre
<1>8. \A i \in 1..Len(q): /\ Advanced(q)[i].kind = s[i + m].kind
                          /\ IsFrame(Advanced(q)[i])
  BY AdvancedAre
<1>9. Shape(Advanced(q))
  <2>1. (\E R: Advanced(q) \in Seq(R)) /\ Len(Advanced(q)) > 0
    BY <1>3, <1>7
  <2>2. ASSUME NEW i \in 1..Len(Advanced(q))
        PROVE  /\ IsFrame(Advanced(q)[i])
               /\ Advanced(q)[i].kind = "root" <=> i = Len(Advanced(q))
    <3>1. i \in 1..Len(q) /\ i \in 1..(Len(s) - m) /\ Len(Advanced(q)) = Len(s) - m
      BY <1>3, <1>7
    <3>2. i + m \in 1..Len(s) /\ (i = Len(Advanced(q)) <=> i + m = Len(s))
      BY <1>2, <3>1
    <3>3. s[i + m].kind = "root" <=> i + m = Len(s)
      BY <3>2 DEF Shape
    <3> QED
      BY <1>8, <3>1, <3>2, <3>3
  <2> QED
    BY <2>1, <2>2 DEF Shape
<1> DEFINE t == Advanced(q)
<1>10. Len(t) = Len(s) - m /\ m \in 0..Len(s)
  BY <1>2, <1>3, <1>7
<1>11. \A i \in 1..Len(t): t[i].kind = s[i + m].kind
  BY <1>7, <1>8
<1> HIDE DEF t
<1>12. LoopsIn(t) = Cardinality({i \in LoopsAt(s): i > m})
  BY <1>2, <1>10, <1>11, DropCount
<1> QED
  BY <1>9, <1>12 DEF t

\* A frame put on top.
LEMMA PushKeeps ==
  ASSUME NEW s, Shape(s), NEW f, IsFrame(f), f.kind # "root"
  PROVE  /\ Shape(<<f>> \o s)
         /\ LoopsIn(<<f>> \o s) = LoopsIn(s) + IF f.kind = "loop" THEN 1 ELSE 0
<1> DEFINE t == <<f>> \o s
<1>1. PICK S: s \in Seq(S)
  BY DEF Shape
<1>2. /\ t \in Seq(S \cup {f}) /\ Len(t) = Len(s) + 1 /\ t[1] = f
      /\ \A i \in 1..Len(s): t[i + 1] = s[i]
      /\ \A i \in 2..Len(t): t[i] = s[i - 1]
  BY <1>1
<1> HIDE DEF t
<1>3. Shape(t)
  <2>1. (\E R: t \in Seq(R)) /\ Len(t) > 0
    BY <1>1, <1>2
  <2>2. ASSUME NEW i \in 1..Len(t)
        PROVE  IsFrame(t[i]) /\ (t[i].kind = "root" <=> i = Len(t))
    <3>1. CASE i = 1
      BY <1>1, <1>2, <3>1 DEF Shape
    <3>2. CASE i # 1
      <4>1. i \in 2..Len(t) /\ i - 1 \in 1..Len(s) /\ (i = Len(t) <=> i - 1 = Len(s))
        BY <1>1, <1>2, <3>2
      <4> QED
        BY <1>2, <4>1 DEF Shape
    <3> QED
      BY <3>1, <3>2
  <2> QED
    BY <2>1, <2>2 DEF Shape
<1>4. LoopsIn(s) = Cardinality({i \in LoopsAt(t): i > 1})
  BY <1>1, <1>2, DropCount
<1>5. {i \in LoopsAt(t): i > 1} = LoopsAt(t) \ {1}
  BY <1>1, <1>2 DEF LoopsAt
<1>6. 1 \in LoopsAt(t) <=> f.kind = "loop"
  BY <1>1, <1>2 DEF LoopsAt
<1>7. LoopsIn(t) = LoopsIn(s) + IF f.kind = "loop" THEN 1 ELSE 0
  <2>1. IsFiniteSet(LoopsAt(t)) /\ LoopsIn(t) = Cardinality(LoopsAt(t)) /\ LoopsIn(t) \in Nat
    BY <1>2, LoopsFinite
  <2>2. LoopsIn(s) = IF 1 \in LoopsAt(t) THEN LoopsIn(t) - 1 ELSE LoopsIn(t)
    BY <1>4, <1>5, <2>1, FS_RemoveElement
  <2> QED
    BY <1>6, <2>1, <2>2
<1> QED
  BY <1>3, <1>7 DEF t

\* A loop's frame started on its next round.
LEMMA RoundKeeps ==
  ASSUME NEW s, Shape(s), s[1].kind = "loop",
         NEW f, IsFrame(f), f.kind = "loop"
  PROVE  /\ Shape(<<f>> \o Tail(s))
         /\ LoopsIn(<<f>> \o Tail(s)) = LoopsIn(s)
<1> DEFINE t == <<f>> \o Tail(s)
<1>1. PICK S: s \in Seq(S)
  BY DEF Shape
<1>2. Len(s) \in Nat /\ Len(s) > 1
  BY <1>1 DEF Shape
<1>3. /\ Tail(s) \in Seq(S \cup {f}) /\ Len(Tail(s)) = Len(s) - 1
      /\ \A i \in 1..(Len(s) - 1): Tail(s)[i] = s[i + 1]
  BY <1>1, <1>2
<1>4. /\ t \in Seq(S \cup {f}) /\ Len(t) = Len(s) /\ t[1] = f
      /\ \A i \in 2..Len(s): t[i] = s[i]
  <2> DEFINE v1 == Tail(s)
  <2>1. t = <<f>> \o v1
    OBVIOUS
  <2> HIDE DEF v1, t
  <2>2. /\ <<f>> \o v1 \in Seq(S \cup {f}) /\ Len(<<f>> \o v1) = Len(s)
        /\ (<<f>> \o v1)[1] = f
        /\ \A i \in 2..Len(s): (<<f>> \o v1)[i] = s[i]
    BY <1>2, <1>3 DEF v1
  <2> QED
    BY <2>1, <2>2
<1> HIDE DEF t
<1>5. \A i \in 1..Len(s): /\ t[i].kind = s[i].kind
                          /\ IsFrame(t[i])
  <2> SUFFICES ASSUME NEW i \in 1..Len(s)
               PROVE  t[i].kind = s[i].kind /\ IsFrame(t[i])
    OBVIOUS
  <2>1. CASE i = 1
    BY <1>4, <2>1
  <2>2. CASE i # 1
    BY <1>2, <1>4, <2>2 DEF Shape
  <2> QED
    BY <2>1, <2>2
<1>6. Shape(t)
  BY <1>2, <1>4, <1>5 DEF Shape
<1>7. LoopsIn(t) = LoopsIn(s)
  BY <1>2, <1>4, <1>5 DEF LoopsIn
<1> QED
  BY <1>6, <1>7 DEF t

-----------------------------------------------------------------------------
(***************************************************************************)
(* The invariant.                                                          *)
(***************************************************************************)
DepthInv ==
  /\ IF control = "ended" THEN stack = <<>> ELSE Shape(stack)
  /\ control = "round" => stack[1].kind = "loop"
  /\ loopDepth = LoopsIn(stack)
  /\ verdict # "escaped"

LEMMA DepthInit == Init => DepthInv
<1> SUFFICES ASSUME Init PROVE DepthInv
  OBVIOUS
<1> DEFINE f == [kind |-> "root", rest |-> program, round |-> 0]
<1>1. stack = <<f>> /\ control = "step" /\ loopDepth = 0 /\ verdict = "none"
  BY DEF Init
<1>2. f.kind = "root" /\ IsFrame(f)
  BY DEF IsFrame
<1> HIDE DEF f
<1>3. stack \in Seq({f}) /\ Len(stack) = 1 /\ stack[1] = f
  BY <1>1
<1>4. Shape(stack)
  BY <1>2, <1>3 DEF Shape
<1>5. {i \in 1..Len(stack): stack[i].kind = "loop"} = {}
  BY <1>2, <1>3
<1> QED
  BY <1>1, <1>4, <1>5, FS_EmptySet DEF DepthInv, LoopsIn

\* Every way out of the run takes all the loops off the count.
LEMMA UnwindKeeps ==
  ASSUME DepthInv, NEW how, Unwind(how), how # "escaped", control # "ended"
  PROVE  DepthInv'
<1>1. Len(stack) \in Nat
  BY DEF DepthInv, Shape
<1>2. loopDepth' = 0
  BY <1>1, LoopsFinite DEF Unwind, DepthInv
<1> QED
  BY <1>2, EmptyStack DEF Unwind, DepthInv

\* A card done leaves the frames, and the depth with them.
LEMMA CardDoneKeeps ==
  ASSUME DepthInv, control # "ended", CardDone, UNCHANGED <<loopDepth, verdict>>
  PROVE  DepthInv'
<1>1. Shape(stack) /\ stack' = Advanced(stack)
  BY DEF DepthInv, CardDone
<1>2. Len(stack) \in Nat /\ Len(stack) > 0 /\ SubSeq(stack, 1, Len(stack)) = stack
  BY <1>1 DEF Shape
<1>3. /\ Shape(stack')
      /\ LoopsIn(stack') = Cardinality({i \in LoopsAt(stack): i > 0})
  BY <1>1, <1>2, AdvanceKeeps DEF Outward
<1>4. {i \in LoopsAt(stack): i > 0} = LoopsAt(stack)
  BY <1>2 DEF LoopsAt
<1> QED
  BY <1>2, <1>3, <1>4, LoopsFinite DEF DepthInv, CardDone

\* The frames from the innermost loop outwards, less that loop.
LEMMA LeaveKeeps ==
  ASSUME DepthInv, control # "ended", UNCHANGED verdict,
         NEW m \in 1..Len(stack), stack[m].kind = "loop",
         \A i \in 1..Len(stack): stack[i].kind = "loop" => m <= i,
         LeaveLoop(SubSeq(stack, m + 1, Len(stack)))
  PROVE  DepthInv'
<1>1. Shape(stack)
  BY DEF DepthInv
<1>2. Len(stack) \in Nat /\ m < Len(stack)
  BY <1>1 DEF Shape
<1>3. /\ Shape(stack')
      /\ LoopsIn(stack') = Cardinality({i \in LoopsAt(stack): i > m})
  <2> DEFINE q == SubSeq(stack, m + 1, Len(stack))
  <2>1. stack' = Advanced(q) /\ m \in 0..(Len(stack) - 1)
    BY <1>2 DEF LeaveLoop
  <2> QED
    BY <1>1, <2>1, AdvanceKeeps DEF Outward
<1>4. {i \in LoopsAt(stack): i > m} = LoopsAt(stack) \ {m} /\ m \in LoopsAt(stack)
  BY <1>2 DEF LoopsAt
<1>5. LoopsIn(stack') = LoopsIn(stack) - 1
  BY <1>2, <1>3, <1>4, LoopsFinite, FS_RemoveElement
<1> QED
  BY <1>3, <1>5 DEF DepthInv, LeaveLoop

LEMMA EndFrameKeeps == ASSUME DepthInv, EndFrame PROVE DepthInv'
<1>1. Shape(stack) /\ control = "step" /\ Top = stack[1]
  BY DEF DepthInv, EndFrame, Top, Shape
<1>2. CASE Top.kind = "root"
  BY <1>1, <1>2, UnwindKeeps DEF EndFrame
<1>3. CASE Top.kind = "branch"
  <2>1. Len(stack) \in Nat /\ Len(stack) > 1
    BY <1>1, <1>3 DEF Shape
  <2>2. Tail(stack) = SubSeq(stack, 1 + 1, Len(stack)) /\ 1 \in 0..(Len(stack) - 1)
    BY <1>1, <2>1 DEF Shape
  <2>3. stack' = Advanced(Tail(stack)) /\ UNCHANGED <<control, loopDepth, verdict>>
    BY <1>3 DEF EndFrame
  <2>4. /\ Shape(stack')
        /\ LoopsIn(stack') = Cardinality({i \in LoopsAt(stack): i > 1})
    BY <1>1, <2>2, <2>3, AdvanceKeeps DEF Outward
  <2>5. {i \in LoopsAt(stack): i > 1} = LoopsAt(stack)
    BY <1>1, <1>3, <2>1 DEF LoopsAt
  <2> QED
    BY <1>1, <2>1, <2>3, <2>4, <2>5, LoopsFinite DEF DepthInv
<1>4. CASE Top.kind = "loop"
  BY <1>1, <1>4 DEF EndFrame, DepthInv
<1> QED
  BY <1>2, <1>3, <1>4 DEF EndFrame

LEMMA NestKeeps == ASSUME DepthInv, If \/ EnterLoop PROVE DepthInv'
<1>1. Shape(stack)
  BY DEF DepthInv, If, EnterLoop, At
<1>2. CASE If
  <2> DEFINE cards == IF Matched(Card) THEN Card.yes ELSE Card.no
             f == [kind |-> "branch", round |-> 0, rest |-> cards]
  <2>1. IsFrame(f) /\ f.kind = "branch"
    BY DEF IsFrame
  <2>2. /\ stack' = <<f>> \o stack /\ control' = "step"
        /\ UNCHANGED <<loopDepth, verdict>>
    BY <1>2 DEF If
  <2> HIDE DEF f
  <2>3. Shape(stack') /\ LoopsIn(stack') = LoopsIn(stack) + 0
    BY <1>1, <2>1, <2>2, PushKeeps
  <2> QED
    BY <1>1, <2>2, <2>3, LoopsFinite DEF DepthInv, Shape
<1>3. CASE EnterLoop
  <2> DEFINE f == [kind |-> "loop", rest |-> <<>>, round |-> 0]
  <2>1. IsFrame(f) /\ f.kind = "loop"
    BY DEF IsFrame
  <2>2. /\ stack' = <<f>> \o stack /\ loopDepth' = loopDepth + 1
        /\ control' = "round" /\ UNCHANGED verdict
    BY <1>3 DEF EnterLoop
  <2> HIDE DEF f
  <2>3. Shape(stack') /\ LoopsIn(stack') = LoopsIn(stack) + 1
    BY <1>1, <2>1, <2>2, PushKeeps
  <2>4. stack'[1] = f
    BY <1>1, <2>2 DEF Shape
  <2> QED
    BY <2>1, <2>2, <2>3, <2>4 DEF DepthInv
<1> QED
  BY <1>2, <1>3

LEMMA RoundStepKeeps == ASSUME DepthInv, NextRound PROVE DepthInv'
<1>1. Shape(stack) /\ control = "round" /\ stack[1].kind = "loop"
  BY DEF DepthInv, NextRound
<1>2. Len(stack) \in Nat /\ Len(stack) > 1
  BY <1>1 DEF Shape
<1> DEFINE loop == Head(stack[2].rest)
           f == [kind |-> "loop", rest |-> loop.yes, round |-> Top.round + 1]
<1>3. CASE /\ stack' = <<f>> \o Tail(stack) /\ control' = "step"
           /\ UNCHANGED <<loopDepth, verdict>>
  <2>1. IsFrame(f) /\ f.kind = "loop"
    BY DEF IsFrame
  <2> HIDE DEF f
  <2>2. Shape(stack') /\ LoopsIn(stack') = LoopsIn(stack)
    BY <1>1, <1>3, <2>1, RoundKeeps
  <2> QED
    BY <1>3, <2>2 DEF DepthInv
<1>4. CASE LeaveLoop(Tail(stack)) /\ UNCHANGED verdict
  <2>1. Tail(stack) = SubSeq(stack, 1 + 1, Len(stack)) /\ 1 \in 1..Len(stack)
    BY <1>1, <1>2 DEF Shape
  <2>2. \A i \in 1..Len(stack): stack[i].kind = "loop" => 1 <= i
    BY <1>2
  <2> QED
    BY <1>1, <1>4, <2>1, <2>2, LeaveKeeps
<1> QED
  BY <1>3, <1>4 DEF NextRound

\* A set of numbers has a least one.
LEMMA LeastExists ==
  ASSUME NEW S, S \subseteq Nat, S # {}
  PROVE  \E i \in S: \A j \in S: i <= j
<1> DEFINE R == OpToRel(<, Nat)
<1>1. PICK i \in S: \A j \in S: ~(<<j, i>> \in R)
  <2>1. IsWellFoundedOn(R, Nat)
    BY NatLessThanWellFounded
  <2> HIDE DEF R
  <2> QED
    BY <2>1, WFMin
<1>2. \A j \in S: ~(j < i)
  BY <1>1 DEF OpToRel
<1> QED
  BY <1>2

LEMMA BreakKeeps == ASSUME DepthInv, Break PROVE DepthInv'
<1>1. Shape(stack) /\ control = "card" /\ loopDepth > 0
  BY DEF DepthInv, Break, At
<1>2. LoopsIn(stack) # 0
  BY <1>1 DEF DepthInv
<1>3. LeaveLoop(AroundLoop) /\ UNCHANGED verdict
  BY <1>2 DEF Break
<1> DEFINE loops == {i \in 1..Len(stack): stack[i].kind = "loop"}
           inner == CHOOSE i \in loops: \A j \in loops: i <= j
<1>4. loops # {}
  BY <1>2, FS_EmptySet DEF LoopsIn
<1>5. \E i \in loops: \A j \in loops: i <= j
  <2>1. loops \subseteq Nat
    BY <1>1 DEF Shape
  <2> QED
    BY <1>4, <2>1, LeastExists
<1>6. inner \in loops /\ \A j \in loops: inner <= j
  BY <1>5
<1> QED
  BY <1>1, <1>3, <1>6, LeaveKeeps DEF AroundLoop

LEMMA DepthStep == DepthInv /\ [Next]_vars => DepthInv'
<1> SUFFICES ASSUME DepthInv, [Next]_vars PROVE DepthInv'
  OBVIOUS
<1>1. ASSUME UNCHANGED <<stack, control, loopDepth, verdict>> PROVE DepthInv'
  BY <1>1 DEF DepthInv, Shape, IsFrame, LoopsIn
<1>2. ASSUME \/ StopSeen \/ MissingVariable \/ SendFails \/ MissingSource
             \/ BreakOutside
      PROVE  DepthInv'
  <2>1. control # "ended"
    BY <1>2 DEF StopSeen, MissingVariable, SendFails, MissingSource,
                BreakOutside, At
  <2>2. Unwind("stopped") \/ Unwind("failed")
    BY <1>2 DEF StopSeen, MissingVariable, SendFails, MissingSource,
                BreakOutside, Raise
  <2> QED
    BY <2>1, <2>2, UnwindKeeps
<1>3. ASSUME NEW result, Answer(result) PROVE DepthInv'
  <2>1. control # "ended"
    BY <1>3 DEF Answer
  <2>2. \/ Unwind("failed")
        \/ CardDone /\ UNCHANGED <<loopDepth, verdict>>
    BY <1>3 DEF Answer
  <2> QED
    BY <2>1, <2>2, UnwindKeeps, CardDoneKeeps
<1>4. ASSUME Note \/ SetVariable PROVE DepthInv'
  <2>1. control # "ended" /\ CardDone /\ UNCHANGED <<loopDepth, verdict>>
    BY <1>4 DEF Note, SetVariable, At
  <2> QED
    BY <2>1, CardDoneKeeps
<1>5. CASE Sleep
  <2>1. \/ UNCHANGED <<stack, control, loopDepth, verdict>>
        \/ CardDone /\ UNCHANGED <<loopDepth, verdict>>
    BY <1>5 DEF Sleep
  <2>2. control # "ended"
    BY <1>5 DEF Sleep
  <2> QED
    BY <1>1, <2>1, <2>2, CardDoneKeeps
<1>6. ASSUME BeginCard \/ SendCommand \/ BeginDelay PROVE DepthInv'
  <2>1. /\ control # "ended" /\ control' \in {"card", "asked", "sleep"}
        /\ UNCHANGED <<stack, loopDepth, verdict>>
    BY <1>6 DEF BeginCard, SendCommand, BeginDelay, At
  <2> QED
    BY <2>1 DEF DepthInv, Shape, IsFrame, LoopsIn
<1>7. CASE Stop \/ UNCHANGED vars
  BY <1>1, <1>7 DEF Stop, vars
<1> QED
  BY <1>2, <1>3, <1>4, <1>5, <1>6, <1>7, EndFrameKeeps, NestKeeps,
     RoundStepKeeps, BreakKeeps DEF Next, Run

\* loop_depth is the number of loops around the card under way, for every
\* sequence: BREAK is refused exactly outside of loops, and LoopBreak is never
\* raised where no loop catches it (SequenceEngine._run_loop, _run_steps).
THEOREM DepthIsTheNesting == Spec => []DepthCountsLoops
<1>1. DepthInv => DepthCountsLoops
  BY DEF DepthInv, DepthCountsLoops
<1> QED
  BY <1>1, DepthInit, DepthStep, PTL DEF Spec

LEMMA Induction ==
  ASSUME NEW T, 0 \in T, \A n \in Nat: n \in T => n + 1 \in T
  PROVE  Nat \subseteq T
<1> SUFFICES ASSUME Nat \ T # {} PROVE FALSE
  OBVIOUS
<1>1. PICK n \in Nat \ T: \A m \in Nat \ T: n <= m
  BY LeastExists
<1>2. n - 1 \in Nat /\ n - 1 \in T
  BY <1>1
<1> QED
  BY <1>1, <1>2

-----------------------------------------------------------------------------
(* One step after the other.                                               *)

\* What InTurn makes of a, for the i-th step.
Turn(do, i, a) == IF a.signal # "go" THEN a ELSE do[i][a]

Turns(f, do, from, to, e) ==
  f = [i \in from..to |->
         IF i = from THEN e
         ELSE IF f[i - 1].signal # "go" THEN f[i - 1]
         ELSE do[i][f[i - 1]]]

\* The same, step by step.
Stepwise(f, do, from, to, e) ==
  f[from] = e /\ \A i \in (from + 1)..to: f[i] = Turn(do, i, f[i - 1])

LEMMA TurnsAre ==
  ASSUME NEW do, NEW from \in Nat, NEW to \in Nat, from <= to, NEW e,
         NEW f, Turns(f, do, from, to, e)
  PROVE  Stepwise(f, do, from, to, e)
<1> DEFINE G(i) == IF i = from THEN e
                   ELSE IF f[i - 1].signal # "go" THEN f[i - 1]
                   ELSE do[i][f[i - 1]]
<1>1. f = [i \in from..to |-> G(i)]
  BY DEF Turns
<1> HIDE DEF G
<1>2. \A i \in from..to: f[i] = G(i)
  BY <1>1
<1>3. from \in from..to /\ \A i \in (from + 1)..to: i \in from..to /\ i # from
  OBVIOUS
<1>4. f[from] = e
  BY <1>2, <1>3 DEF G
<1>5. ASSUME NEW i \in (from + 1)..to PROVE f[i] = Turn(do, i, f[i - 1])
  <2>1. f[i] = G(i) /\ i # from
    BY <1>2, <1>3
  <2> QED
    BY <2>1 DEF G, Turn
<1> QED
  BY <1>4, <1>5 DEF Stepwise

LEMMA TurnsExist ==
  ASSUME NEW do, NEW from \in Nat, NEW to \in Nat, from <= to, NEW e
  PROVE  \E f: Turns(f, do, from, to, e)
<1> DEFINE T == {n \in Nat: \E f: Turns(f, do, from, from + n, e)}
<1>1. 0 \in T
  <2> DEFINE f == [i \in from..(from + 0) |-> e]
  <2> DEFINE G(i) == IF i = from THEN e
                     ELSE IF f[i - 1].signal # "go" THEN f[i - 1] ELSE do[i][f[i - 1]]
  <2>1. \A i \in from..(from + 0): i = from
    OBVIOUS
  <2>2. \A i \in from..(from + 0): G(i) = e
    BY <2>1
  <2> HIDE DEF G
  <2>3. f = [i \in from..(from + 0) |-> G(i)]
    BY <2>2
  <2> QED
    BY <2>3 DEF Turns, G
<1>2. ASSUME NEW n \in Nat, n \in T PROVE n + 1 \in T
  <2>1. PICK f: Turns(f, do, from, from + n, e)
    BY <1>2
  <2> DEFINE last == from + n
             g == [i \in from..(last + 1) |->
                     IF i <= last THEN f[i] ELSE Turn(do, i, f[last])]
             G(i) == IF i = from THEN e
                     ELSE IF g[i - 1].signal # "go" THEN g[i - 1]
                     ELSE do[i][g[i - 1]]
  <2>2. last \in Nat /\ from <= last /\ from + (n + 1) = last + 1
    OBVIOUS
  <2>3. /\ f[from] = e
        /\ \A i \in (from + 1)..last: f[i] = Turn(do, i, f[i - 1])
    BY <2>1, <2>2, TurnsAre DEF Stepwise
  <2> HIDE DEF last
  <2>4. ASSUME NEW i \in from..(last + 1) PROVE g[i] = G(i)
    <3>1. CASE i = from
      BY <2>2, <2>3, <3>1
    <3>2. CASE i # from /\ i <= last
      <4>1. i \in (from + 1)..last /\ i - 1 \in from..(last + 1) /\ i - 1 <= last
        BY <2>2, <3>2
      <4>2. g[i] = f[i] /\ g[i - 1] = f[i - 1]
        BY <3>2, <4>1
      <4> HIDE DEF g
      <4> QED
        BY <2>3, <3>2, <4>1, <4>2 DEF Turn
    <3>3. CASE i = last + 1
      <4>1. /\ ~(i <= last) /\ i - 1 = last /\ last \in from..(last + 1) /\ i # from
            /\ last <= last
        BY <2>2, <3>3
      <4>2. g[i] = Turn(do, i, f[last]) /\ g[last] = f[last]
        BY <4>1
      <4> HIDE DEF g
      <4> QED
        BY <4>1, <4>2 DEF Turn
    <3>4. i = from \/ (i # from /\ i <= last) \/ i = last + 1
      <4> HIDE DEF g, G
      <4> QED
        BY <2>2
    <3> QED
      BY <3>1, <3>2, <3>3, <3>4
  <2>5. g = [i \in from..(last + 1) |-> G(i)]
    <3>1. g = [i \in from..(last + 1) |-> g[i]]
      OBVIOUS
    <3> HIDE DEF g, G
    <3> QED
      BY <2>4, <3>1
  <2> HIDE DEF g
  <2>6. Turns(g, do, from, from + (n + 1), e)
    BY <2>2, <2>5 DEF Turns
  <2> QED
    BY <2>6
<1> HIDE DEF T
<1>3. to - from \in T
  BY <1>1, <1>2, Induction
<1>4. PICK f: Turns(f, do, from, from + (to - from), e)
  BY <1>3 DEF T
<1> QED
  BY <1>4

LEMMA InTurnIs ==
  ASSUME NEW do, NEW from \in Nat, NEW to \in Nat, from <= to, NEW e
  PROVE  \E f: Turns(f, do, from, to, e) /\ InTurn(do, from, to, e) = f[to]
<1> DEFINE f == CHOOSE f: Turns(f, do, from, to, e)
<1>1. Turns(f, do, from, to, e)
  BY TurnsExist
<1>2. InTurn(do, from, to, e) = f[to]
  BY DEF InTurn, Turns
<1> QED
  BY <1>1, <1>2

\* The n steps after the k-th of one are those after the begin-th of the other.
SameSteps(one, k, other, begin, n) ==
  \A i \in 1..n: \A a \in Env: one[k + i][a] = other[begin + i][a]

\* Both have count steps left.
Aligned(k, to, begin, end, count) == end = begin + count /\ to = k + count

AllEnv(g, begin, end) == \A i \in begin..end: g[i] \in Env

\* The steps on both sides, where they do the same from the same start.
LEMMA TurnsAgree ==
  ASSUME NEW one, NEW other, NEW from \in Nat, NEW to \in Nat, NEW k \in from..to,
         NEW begin \in Nat, NEW end \in Nat, NEW count \in Nat,
         Aligned(k, to, begin, end, count),
         NEW e, NEW f, Turns(f, one, from, to, e),
         NEW g, Turns(g, other, begin, end, f[k]),
         SameSteps(one, k, other, begin, count),
         AllEnv(g, begin, end)
  PROVE  f[to] = g[end]
<1> DEFINE T == {n \in Nat: n <= count => f[k + n] = g[begin + n]}
<1>0. /\ k \in Nat /\ from <= k /\ k <= to /\ from <= to /\ begin <= end
      /\ end = begin + count /\ to = k + count
  BY DEF Aligned
<1>1. /\ \A i \in (from + 1)..to: f[i] = Turn(one, i, f[i - 1])
      /\ g[begin] = f[k] /\ \A i \in (begin + 1)..end: g[i] = Turn(other, i, g[i - 1])
  <2>1. Stepwise(f, one, from, to, e)
    BY <1>0, TurnsAre
  <2>2. Stepwise(g, other, begin, end, f[k])
    BY <1>0, TurnsAre
  <2> QED
    BY <2>1, <2>2 DEF Stepwise
<1>2. 0 \in T
  <2>1. k + 0 = k /\ begin + 0 = begin
    BY <1>0
  <2> QED
    BY <1>1, <2>1
<1>3. ASSUME NEW n \in Nat, n \in T PROVE n + 1 \in T
  <2> SUFFICES ASSUME n + 1 <= count PROVE f[k + (n + 1)] = g[begin + (n + 1)]
    BY <1>0
  <2>1. /\ k + (n + 1) \in (from + 1)..to /\ (k + (n + 1)) - 1 = k + n
        /\ begin + (n + 1) \in (begin + 1)..end /\ (begin + (n + 1)) - 1 = begin + n
        /\ n + 1 \in 1..count /\ begin + n \in begin..end
        /\ n <= count
    BY <1>0
  <2>2. f[k + n] = g[begin + n] /\ g[begin + n] \in Env
    BY <1>3, <2>1 DEF AllEnv
  <2>3. f[k + (n + 1)] = Turn(one, k + (n + 1), f[k + n])
    BY <1>1, <2>1
  <2>4. g[begin + (n + 1)] = Turn(other, begin + (n + 1), g[begin + n])
    BY <1>1, <2>1
  <2>5. one[k + (n + 1)][g[begin + n]] = other[begin + (n + 1)][g[begin + n]]
    BY <2>1, <2>2 DEF SameSteps
  <2> QED
    BY <2>2, <2>3, <2>4, <2>5 DEF Turn
<1> HIDE DEF T
<1>4. count \in T
  BY <1>0, <1>2, <1>3, Induction
<1>5. f[k + count] = g[begin + count]
  BY <1>0, <1>4 DEF T
<1>6. k + count = to /\ begin + count = end
  BY <1>0
<1> QED
  BY <1>5, <1>6

-----------------------------------------------------------------------------
(* The two recursions have solutions.                                      *)

BlocksUpTo(f, m) ==
  f = [n \in 0..m |-> IF n = 0 THEN {<<>>} ELSE Seq(CardWith(f[n - 1]))]

LEMMA BlocksExist == ASSUME NEW m \in Nat PROVE \E f: BlocksUpTo(f, m)
<1> DEFINE T == {n \in Nat: \E f: BlocksUpTo(f, n)}
<1>1. 0 \in T
  <2> DEFINE f == [n \in 0..0 |-> {<<>>}]
             G(n) == IF n = 0 THEN {<<>>} ELSE Seq(CardWith(f[n - 1]))
  <2>1. \A n \in 0..0: G(n) = {<<>>}
    OBVIOUS
  <2> HIDE DEF G
  <2>2. f = [n \in 0..0 |-> G(n)]
    BY <2>1
  <2> QED
    BY <2>2 DEF BlocksUpTo, G
<1>2. ASSUME NEW n \in Nat, n \in T PROVE n + 1 \in T
  <2>1. PICK f: BlocksUpTo(f, n)
    BY <1>2
  <2> DEFINE F(i) == IF i = 0 THEN {<<>>} ELSE Seq(CardWith(f[i - 1]))
             g == [i \in 0..(n + 1) |-> F(i)]
             G(i) == IF i = 0 THEN {<<>>} ELSE Seq(CardWith(g[i - 1]))
  <2>2. f = [i \in 0..n |-> F(i)]
    BY <2>1 DEF BlocksUpTo
  <2> HIDE DEF F
  <2>3. ASSUME NEW i \in 0..n PROVE g[i] = f[i]
    BY <2>2
  <2>4. ASSUME NEW i \in 0..(n + 1) PROVE F(i) = G(i)
    <3>1. CASE i = 0
      BY <3>1 DEF F
    <3>2. CASE i # 0
      <4>1. i - 1 \in 0..n
        BY <3>2
      <4>2. g[i - 1] = f[i - 1]
        BY <2>3, <4>1
      <4> HIDE DEF g
      <4> QED
        BY <3>2, <4>2 DEF F
    <3> QED
      BY <3>1, <3>2
  <2> HIDE DEF G
  <2>5. g = [i \in 0..(n + 1) |-> G(i)]
    BY <2>4
  <2>6. BlocksUpTo(g, n + 1)
    BY <2>5 DEF BlocksUpTo, G
  <2> HIDE DEF g
  <2> QED
    BY <2>6
<1> HIDE DEF T
<1>3. m \in T
  BY <1>1, <1>2, Induction
<1> QED
  BY <1>3 DEF T

LEMMA BlockIs ==
  ASSUME Depth \in Nat
  PROVE  /\ Block[0] = {<<>>}
         /\ \A n \in 1..Depth: Block[n] = Seq(CardWith(Block[n - 1]))
<1>1. BlocksUpTo(Block, Depth)
  BY BlocksExist DEF Block, BlocksUpTo
<1> DEFINE F(n) == IF n = 0 THEN {<<>>} ELSE Seq(CardWith(Block[n - 1]))
<1>2. Block = [n \in 0..Depth |-> F(n)]
  BY <1>1 DEF BlocksUpTo
<1> HIDE DEF F
<1>3. \A n \in 0..Depth: Block[n] = F(n)
  BY <1>2
<1>4. 0 \in 0..Depth /\ \A n \in 1..Depth: n \in 0..Depth /\ n # 0
  OBVIOUS
<1> QED
  BY <1>3, <1>4 DEF F

\* The meaning of the lists n deep, below being that of those n - 1 deep.
Layer(n, below) ==
  [block \in Block[n] |-> [inLoop \in BOOLEAN |-> [e \in Env |->
     IF n = 0 THEN e
     ELSE InTurn(Cards(block, inLoop, below), 0, Len(block), e)]]]

LayersUpTo(f, m) == f = [n \in 0..m |-> Layer(n, f[n - 1])]

LEMMA Ground == ASSUME NEW a, NEW b PROVE Layer(0, a) = Layer(0, b)
BY DEF Layer

LEMMA LayersExist == ASSUME NEW m \in Nat PROVE \E f: LayersUpTo(f, m)
<1> DEFINE T == {n \in Nat: \E f: LayersUpTo(f, n)}
<1>1. 0 \in T
  <2> DEFINE f == [n \in 0..0 |-> Layer(0, 0)]
             G(n) == Layer(n, f[n - 1])
  <2>1. \A n \in 0..0: G(n) = Layer(0, 0)
    <3> HIDE DEF f
    <3> QED
      BY Ground
  <2> HIDE DEF G
  <2>2. f = [n \in 0..0 |-> G(n)]
    BY <2>1
  <2> HIDE DEF f
  <2> QED
    BY <2>2 DEF LayersUpTo, G
<1>2. ASSUME NEW n \in Nat, n \in T PROVE n + 1 \in T
  <2>1. PICK f: LayersUpTo(f, n)
    BY <1>2
  <2> DEFINE F(i) == Layer(i, f[i - 1])
             g == [i \in 0..(n + 1) |-> F(i)]
             G(i) == Layer(i, g[i - 1])
  <2>2. f = [i \in 0..n |-> F(i)]
    BY <2>1 DEF LayersUpTo
  <2> HIDE DEF F
  <2>3. ASSUME NEW i \in 0..n PROVE g[i] = f[i]
    BY <2>2
  <2>4. ASSUME NEW i \in 0..(n + 1) PROVE F(i) = G(i)
    <3>1. CASE i = 0
      <4> HIDE DEF g
      <4> QED
        BY <3>1, Ground DEF F
    <3>2. CASE i # 0
      <4>1. i - 1 \in 0..n
        BY <3>2
      <4>2. g[i - 1] = f[i - 1]
        BY <2>3, <4>1
      <4> HIDE DEF g
      <4> QED
        BY <4>2 DEF F
    <3> QED
      BY <3>1, <3>2
  <2> HIDE DEF G
  <2>5. g = [i \in 0..(n + 1) |-> G(i)]
    BY <2>4
  <2> HIDE DEF g
  <2>6. LayersUpTo(g, n + 1)
    BY <2>5 DEF LayersUpTo, G
  <2> QED
    BY <2>6
<1> HIDE DEF T
<1>3. m \in T
  BY <1>1, <1>2, Induction
<1> QED
  BY <1>3 DEF T

LEMMA MeantIs ==
  ASSUME Depth \in Nat, NEW n \in 0..Depth
  PROVE  Meant[n] = Layer(n, Meant[n - 1])
<1>1. LayersUpTo(Meant, Depth)
  BY LayersExist DEF Meant, LayersUpTo, Layer
<1> DEFINE F(i) == Layer(i, Meant[i - 1])
<1>2. Meant = [i \in 0..Depth |-> F(i)]
  BY <1>1 DEF LayersUpTo
<1> HIDE DEF F
<1>3. Meant[n] = F(n)
  BY <1>2
<1> QED
  BY <1>3 DEF F

LEMMA MeantApplied ==
  ASSUME Depth \in Nat, NEW n \in 0..Depth, NEW block \in Block[n],
         NEW inLoop \in BOOLEAN, NEW e \in Env
  PROVE  Meant[n][block][inLoop][e] =
           IF n = 0 THEN e
           ELSE InTurn(Cards(block, inLoop, Meant[n - 1]), 0, Len(block), e)
<1>1. Meant[n] = Layer(n, Meant[n - 1])
  BY MeantIs
<1> DEFINE below == Meant[n - 1]
           V(b, l, a) == IF n = 0 THEN a ELSE InTurn(Cards(b, l, below), 0, Len(b), a)
<1>2. Meant[n] = [b \in Block[n] |-> [l \in BOOLEAN |-> [a \in Env |-> V(b, l, a)]]]
  BY <1>1 DEF Layer
<1> HIDE DEF V, below
<1>3. Meant[n][block][inLoop][e] = V(block, inLoop, e)
  BY <1>2
<1> QED
  BY <1>3 DEF V, below

-----------------------------------------------------------------------------
(* Environments.                                                           *)

LEMMA ParametersHold ==
  /\ Depth \in Nat
  /\ {"none", "yes", "no", "AK", "ignored", "switched", "read"} \subseteq Text
  /\ Reading \subseteq Text
  /\ \A r \in Request: /\ r.steps \in Block[Depth]
                       /\ r.transport \in Transport
BY MeaningAssumption DEF MeaningParameters

LEMMA LastLineIs ==
  ASSUME NEW lines \in Seq(Text) PROVE LastLine(lines) \in Text
<1>1. CASE lines = <<>>
  BY <1>1, EngineAssumption DEF LastLine
<1>2. CASE lines # <<>>
  <2> DEFINE n == Len(lines)
  <2>1. n \in 1..Len(lines) /\ LastLine(lines) = lines[n]
    BY <1>2 DEF LastLine
  <2> HIDE DEF n
  <2> QED
    BY <2>1
<1> QED
  BY <1>1, <1>2

LEMMA LinesIs ==
  ASSUME NEW a \in Text, NEW b \in Text
  PROVE  /\ <<>> \in Seq(Text) /\ <<a>> \in Seq(Text) /\ <<a, b>> \in Seq(Text)
         /\ DOMAIN <<a>> = {1} /\ <<a>>[1] = a
<1>1. <<>> \in Seq(Text) /\ <<a>> \in Seq(Text) /\ <<a, b>> \in Seq(Text)
  OBVIOUS
<1>2. DOMAIN <<a>> = {1} /\ <<a>>[1] = a
  OBVIOUS
<1> QED
  BY <1>1, <1>2

LEMMA ResultIs ==
  ASSUME NEW a \in Result
  PROVE  a.status \in Text /\ a.lines \in Seq(Text) /\ LastLine(a.lines) \in Text
<1> SUFFICES a.status \in Text /\ a.lines \in Seq(Text)
  BY LastLineIs
<1>1. CASE a \in DeviceResult
  BY <1>1, EngineAssumption
<1>2. CASE a \in {Unheard, Switched, NoResult}
  <2>1. {"", "AK", "ignored", "switched"} \subseteq Text
    BY ParametersHold, EngineAssumption
  <2>2. CASE a = Unheard
    <3>1. a.status = "AK" /\ a.lines = <<"ignored">>
      BY <2>2 DEF Unheard
    <3> QED
      BY <2>1, <3>1, LinesIs
  <2>3. CASE a = Switched
    <3>1. a.status = "AK" /\ a.lines = <<"AK", "switched">>
      BY <2>3 DEF Switched
    <3>2. <<"AK", "switched">> \in Seq(Text)
      BY <2>1, LinesIs, Zenon
    <3> QED
      BY <2>1, <3>1, <3>2, Zenon
  <2>4. CASE a = NoResult
    <3>1. a.status = "" /\ a.lines = <<>>
      BY <2>4 DEF NoResult
    <3> QED
      BY <2>1, <3>1, LinesIs
  <2> QED
    BY <1>2, <2>2, <2>3, <2>4
<1>3. CASE a \in {Read(value): value \in Reading}
  <2>1. PICK value \in Reading: a = Read(value)
    BY <1>3
  <2>2. value \in Text /\ "read" \in Text
    BY ParametersHold
  <2> QED
    BY <2>1, <2>2 DEF Read
<1> QED
  BY <1>1, <1>2, <1>3 DEF Result

LEMMA EnvIs ==
  ASSUME NEW e \in Env
  PROVE  /\ e.answers \in Seq(Result) /\ e.last \in Result /\ e.heard \in Text
         /\ e.cards \in [Id -> Result] /\ e.vars \in [Name -> Text]
         /\ e.over \in Transport
         /\ e.log \in Seq(Event) /\ e.signal \in {"go", "break", "failed", "pending"}
BY DEF Env

\* The last line there was, after one more result.
Latest(a, h) == IF a.lines = <<>> THEN h ELSE LastLine(a.lines)

\* Nothing that happened is forgotten.
Before(s, t) ==
  Len(s) <= Len(t) /\ \A i \in 1..Len(s): t[i] = s[i]
Extends(a, e) == a \in Env /\ Before(e.log, a.log)

LEMMA BeforeItself == ASSUME NEW s PROVE Len(s) \in Nat => Before(s, s)
BY DEF Before

LEMMA BeforeAppend ==
  ASSUME NEW S, NEW s \in Seq(S), NEW x \in S PROVE Before(s, Append(s, x))
<1>1. Len(s) \in Nat /\ Len(Append(s, x)) = Len(s) + 1
  OBVIOUS
<1>2. \A i \in 1..Len(s): Append(s, x)[i] = s[i]
  OBVIOUS
<1> QED
  BY <1>1, <1>2 DEF Before

LEMMA ExtendsItself == ASSUME NEW e \in Env PROVE Extends(e, e)
<1>1. e.log \in Seq(Event)
  BY EnvIs
<1>2. Len(e.log) \in Nat
  BY <1>1
<1> QED
  BY <1>2, BeforeItself DEF Extends

LEMMA BeforeChain ==
  ASSUME NEW S, NEW r \in Seq(S), NEW s \in Seq(S), NEW t \in Seq(S),
         Before(r, s), Before(s, t)
  PROVE  Before(r, t)
<1>1. Len(r) \in Nat /\ Len(s) \in Nat /\ Len(t) \in Nat
  OBVIOUS
<1>2. Len(r) <= Len(t)
  BY <1>1 DEF Before
<1>3. ASSUME NEW i \in 1..Len(r) PROVE t[i] = r[i]
  <2>1. i \in 1..Len(s)
    BY <1>1 DEF Before
  <2> QED
    BY <2>1 DEF Before
<1> QED
  BY <1>2, <1>3 DEF Before

LEMMA ExtendsChain ==
  ASSUME NEW e \in Env, NEW a, NEW b, Extends(a, e), Extends(b, a)
  PROVE  Extends(b, e)
<1>1. e.log \in Seq(Event) /\ a.log \in Seq(Event) /\ b.log \in Seq(Event)
  BY EnvIs DEF Extends
<1> QED
  BY <1>1, BeforeChain DEF Extends

LEMMA SignalledIs ==
  ASSUME NEW e \in Env, NEW s \in {"go", "break", "failed", "pending"}
  PROVE  /\ Extends(Signalled(e, s), e)
         /\ Signalled(e, s).signal = s /\ Signalled(e, s).log = e.log
<1>1. Signalled(e, s) \in Env
  BY DEF Signalled, Env
<1>2. Signalled(e, s).signal = s /\ Signalled(e, s).log = e.log
  BY DEF Signalled, Env
<1>3. Before(e.log, e.log)
  BY ExtendsItself DEF Extends
<1> QED
  BY <1>1, <1>2, <1>3 DEF Extends

LEMMA LoggedIs ==
  ASSUME NEW e \in Env, NEW event \in Event
  PROVE  /\ Extends(Logged(e, event), e)
         /\ Logged(e, event).log = Append(e.log, event)
<1>1. e.log \in Seq(Event)
  BY EnvIs
<1>2. Append(e.log, event) \in Seq(Event) /\ Before(e.log, Append(e.log, event))
  BY <1>1, BeforeAppend
<1> DEFINE l == Append(e.log, event)
<1>3. Logged(e, event) = [e EXCEPT !.log = l]
  BY DEF Logged
<1>4. l \in Seq(Event)
  BY <1>2
<1> HIDE DEF l
<1>5. Logged(e, event) \in Env /\ Logged(e, event).log = l
  BY <1>3, <1>4 DEF Env
<1> QED
  BY <1>2, <1>5 DEF l, Extends

LEMMA ReadBy ==
  ASSUME NEW e \in Env, e.answers # <<>>
  PROVE  /\ Head(e.answers) \in Result /\ Tail(e.answers) \in Seq(Result)
         /\ Extends([e EXCEPT !.answers = Tail(@)], e)
<1>1. e.answers \in Seq(Result)
  BY EnvIs
<1> DEFINE t == Tail(e.answers)
<1>2. Head(e.answers) \in Result /\ t \in Seq(Result)
  BY <1>1
<1> HIDE DEF t
<1> DEFINE a == [e EXCEPT !.answers = t]
<1>3. a \in Env /\ a.log = e.log
  BY <1>2 DEF Env
<1>4. Before(e.log, e.log)
  BY ExtendsItself DEF Extends
<1> HIDE DEF a
<1>5. Extends(a, e)
  BY <1>3, <1>4 DEF Extends
<1> QED
  BY <1>2, <1>5 DEF a, t

LEMMA AnsweredExtends ==
  ASSUME NEW e \in Env, NEW x
  PROVE  Extends(Answered(x, e), e)
<1>1. CASE x.local \notin {"", e.over}
  BY <1>1, SignalledIs DEF Answered
<1>2. CASE x.local \in {"", e.over} /\ e.answers = <<>>
  BY <1>2, SignalledIs DEF Answered
<1>3. CASE x.local \in {"", e.over} /\ e.answers # <<>>
  <2> DEFINE a == Head(e.answers)
             t == Tail(e.answers)
             c == [e.cards EXCEPT ![x.id] = a]
             h == Latest(a, e.heard)
             s == IF a.status \in BadStatus /\ ~x.ignore THEN "failed" ELSE "go"
             r == [e EXCEPT !.answers = t, !.last = a, !.cards = c, !.heard = h,
                            !.signal = s]
  <2>1. Answered(x, e) = r
    BY <1>3 DEF Answered, Latest
  <2>2. a \in Result /\ t \in Seq(Result)
    BY <1>3, ReadBy
  <2>3. s \in {"go", "failed"} /\ h \in Text
    BY <2>2, ResultIs, EnvIs DEF Latest
  <2> HIDE DEF a, t, s, h
  <2>4. c \in [Id -> Result]
    BY <2>2, EnvIs
  <2> HIDE DEF c
  <2>5. r \in Env /\ r.log = e.log
    BY <2>2, <2>3, <2>4 DEF Env
  <2>6. Before(e.log, e.log)
    BY ExtendsItself DEF Extends
  <2> HIDE DEF r
  <2> QED
    BY <2>1, <2>5, <2>6 DEF Extends
<1> QED
  BY <1>1, <1>2, <1>3

LEMMA EventIs ==
  ASSUME NEW i \in Id, NEW v \in Text, NEW n \in Nat
  PROVE  /\ <<"tx", i, v>> \in Event /\ <<"variable", i, v>> \in Event
         /\ <<"condition", i, v>> \in Event /\ <<"round", i, n>> \in Event
BY DEF Event

LEMMA CardIs ==
  ASSUME NEW branches, NEW x \in CardWith(branches)
  PROVE  /\ x.kind \in {"command", "delay", "break", "note", "variable", "if", "loop"}
         /\ x.id \in Id /\ x.name \in Name \cup {NoName} /\ x.value \in Text
         /\ x.card \in Id /\ x.count \in Nat /\ x.yes \in branches /\ x.no \in branches
BY DEF CardWith

LEMMA CommandExtends ==
  ASSUME NEW e \in Env, NEW x, x.id \in Id, x.name \in Name \cup {NoName}
  PROVE  Extends(AfterCommand(x, e), e)
<1>1. ASSUME NEW v \in Text PROVE Extends(Answered(x, Logged(e, <<"tx", x.id, v>>)), e)
  <2> DEFINE a == Logged(e, <<"tx", x.id, v>>)
  <2>1. Extends(a, e)
    BY LoggedIs, EventIs
  <2> HIDE DEF a
  <2>2. Extends(Answered(x, a), a)
    BY <2>1, AnsweredExtends DEF Extends
  <2>3. Extends(Answered(x, a), e)
    BY <2>1, <2>2, ExtendsChain
  <2> QED
    BY <2>3 DEF a
<1>2. CASE x.name = NoName
  <2>1. "none" \in Text
    BY ParametersHold
  <2> QED
    BY <1>1, <1>2, <2>1 DEF AfterCommand
<1>3. CASE x.name # NoName /\ e.vars[x.name] = "none"
  BY <1>3, SignalledIs DEF AfterCommand
<1>4. CASE x.name # NoName /\ e.vars[x.name] # "none"
  <2>1. e.vars[x.name] \in Text
    BY <1>4, EnvIs
  <2> QED
    BY <1>1, <1>4, <2>1 DEF AfterCommand
<1> QED
  BY <1>2, <1>3, <1>4

LEMMA AssignedExtends ==
  ASSUME NEW e \in Env, NEW x, x.id \in Id, NEW value \in Text
  PROVE  Extends(Assigned(x, e, value), e)
<1> DEFINE v == [e.vars EXCEPT ![x.name] = value]
           a == [e EXCEPT !.vars = v]
<1>1. v \in [Name -> Text]
  BY EnvIs
<1>2. Assigned(x, e, value) = Logged(a, <<"variable", x.id, value>>)
  BY DEF Assigned
<1> HIDE DEF v
<1>3. a \in Env /\ a.log = e.log
  BY <1>1 DEF Env
<1> HIDE DEF a
<1>4. Extends(a, e)
  BY <1>3, ExtendsItself DEF Extends
<1>5. Extends(Logged(a, <<"variable", x.id, value>>), a)
  BY <1>3, LoggedIs, EventIs
<1> QED
  BY <1>2, <1>4, <1>5, ExtendsChain

LEMMA RecalledText ==
  ASSUME NEW e \in Env, NEW x, x.card \in Id
  PROVE  Recalled(x, e) \in Text
<1>1. e.last \in Result /\ e.cards[x.card] \in Result /\ e.heard \in Text
  BY EnvIs
<1>2. /\ e.last.status \in Text /\ e.cards[x.card].status \in Text
      /\ LastLine(e.cards[x.card].lines) \in Text
  BY <1>1, ResultIs
<1> QED
  BY <1>1, <1>2, EngineAssumption DEF Recalled

LEMMA VariableExtends ==
  ASSUME NEW e \in Env, NEW x, x.id \in Id, x.card \in Id, x.value \in Text
  PROVE  Extends(AfterVariable(x, e), e)
<1>1. CASE x.name # NoName /\ x.source \in {"output_port", "result_data"}
  <2>1. AfterVariable(x, e) = AfterReading(x, e)
    BY <1>1 DEF AfterVariable
  <2>2. \/ AfterReading(x, e) \in {Signalled(e, "failed"), Signalled(e, "pending")}
        \/ /\ e.answers # <<>>
           /\ AfterReading(x, e) =
                Assigned(x, [e EXCEPT !.answers = Tail(@)], LastLine(Head(e.answers).lines))
    BY DEF AfterReading
  <2>3. CASE /\ e.answers # <<>>
             /\ AfterReading(x, e) =
                  Assigned(x, [e EXCEPT !.answers = Tail(@)], LastLine(Head(e.answers).lines))
    <3> DEFINE a == [e EXCEPT !.answers = Tail(@)]
               w == LastLine(Head(e.answers).lines)
    <3>1. Extends(a, e) /\ w \in Text
      BY <2>3, ReadBy, ResultIs
    <3>2. AfterReading(x, e) = Assigned(x, a, w)
      BY <2>3
    <3> HIDE DEF a, w
    <3>3. Extends(Assigned(x, a, w), a)
      BY <3>1, AssignedExtends DEF Extends
    <3> QED
      BY <2>1, <3>1, <3>2, <3>3, ExtendsChain
  <2> QED
    BY <2>1, <2>2, <2>3, SignalledIs
<1>2. CASE x.name # NoName /\ x.source \notin {"output_port", "result_data"}
  <2> DEFINE known == Recalled(x, e)
  <2>1. known \in Text
    BY RecalledText, EnvIs
  <2> HIDE DEF known
  <2>2. AfterVariable(x, e) \in {Assigned(x, e, x.value), Signalled(e, "failed"),
                                 Assigned(x, e, known)}
    BY <1>2 DEF AfterVariable, known
  <2> QED
    BY <2>1, <2>2, AssignedExtends, SignalledIs
<1>3. CASE x.name = NoName
  BY <1>3, SignalledIs DEF AfterVariable
<1> QED
  BY <1>1, <1>2, <1>3

\* What the lists of cards in B mean adds to an environment.
Adds(meant, B) ==
  \A b \in B, inLoop \in BOOLEAN, e \in Env: Extends(meant[b][inLoop][e], e)

LEMMA IfExtends ==
  ASSUME NEW B, NEW meant, Adds(meant, B), NEW x, x.yes \in B, x.no \in B, x.id \in Id,
         NEW inLoop \in BOOLEAN, NEW e \in Env
  PROVE  Extends(AfterIf(x, e, inLoop, meant), e)
<1>1. ASSUME NEW b \in B, NEW v \in Text
      PROVE  Extends(meant[b][inLoop][Logged(e, <<"condition", x.id, v>>)], e)
  <2> DEFINE a == Logged(e, <<"condition", x.id, v>>)
  <2>1. Extends(a, e)
    BY LoggedIs, EventIs
  <2> HIDE DEF a
  <2>2. Extends(meant[b][inLoop][a], a)
    BY <2>1 DEF Adds, Extends
  <2>3. Extends(meant[b][inLoop][a], e)
    BY <2>1, <2>2, ExtendsChain
  <2> QED
    BY <2>3 DEF a
<1>2. "yes" \in Text /\ "no" \in Text
  BY ParametersHold
<1> QED
  BY <1>1, <1>2 DEF AfterIf

\* Every step adds to the environment.
EachAdds(do, from, to) ==
  \A i \in (from + 1)..to: \A a \in Env: Extends(do[i][a], a)

LEMMA TurnsExtend ==
  ASSUME NEW do, NEW from \in Nat, NEW to \in Nat, from <= to, NEW e \in Env,
         EachAdds(do, from, to),
         NEW f, Turns(f, do, from, to, e), NEW k \in from..to
  PROVE  Extends(f[k], e)
<1> DEFINE T == {n \in Nat: from + n <= to => Extends(f[from + n], e)}
<1>1. f[from] = e /\ \A i \in (from + 1)..to: f[i] = Turn(do, i, f[i - 1])
  BY TurnsAre DEF Stepwise
<1>2. 0 \in T
  <2>1. from + 0 = from
    OBVIOUS
  <2> QED
    BY <1>1, <2>1, ExtendsItself
<1>3. ASSUME NEW n \in Nat, n \in T PROVE n + 1 \in T
  <2> SUFFICES ASSUME from + (n + 1) <= to PROVE Extends(f[from + (n + 1)], e)
    OBVIOUS
  <2>1. from + (n + 1) \in (from + 1)..to /\ (from + (n + 1)) - 1 = from + n /\ from + n <= to
    OBVIOUS
  <2>2. Extends(f[from + n], e)
    BY <1>3, <2>1
  <2>3. f[from + (n + 1)] = Turn(do, from + (n + 1), f[from + n])
    BY <1>1, <2>1
  <2>4. Extends(do[from + (n + 1)][f[from + n]], f[from + n])
    BY <2>1, <2>2 DEF EachAdds, Extends
  <2> QED
    BY <2>2, <2>3, <2>4, ExtendsChain DEF Turn
<1> HIDE DEF T
<1>4. k - from \in Nat /\ from + (k - from) = k /\ k <= to
  OBVIOUS
<1>5. k - from \in T
  BY <1>2, <1>3, <1>4, Induction
<1>6. from + (k - from) <= to => Extends(f[from + (k - from)], e)
  BY <1>5 DEF T
<1> QED
  BY <1>4, <1>6

LEMMA InTurnExtends ==
  ASSUME NEW do, NEW from \in Nat, NEW to \in Nat, from <= to, NEW e \in Env,
         EachAdds(do, from, to)
  PROVE  Extends(InTurn(do, from, to, e), e)
<1>1. PICK f: Turns(f, do, from, to, e) /\ InTurn(do, from, to, e) = f[to]
  BY InTurnIs
<1>2. to \in from..to
  OBVIOUS
<1> QED
  BY <1>1, <1>2, TurnsExtend

LEMMA RoundIs ==
  ASSUME NEW x, NEW meant, NEW i \in 1..x.count, NEW a \in Env
  PROVE  Rounds(x, meant)[i][a] = meant[x.yes][TRUE][Logged(a, <<"round", x.id, i>>)]
<1> DEFINE V(j, b) == meant[x.yes][TRUE][Logged(b, <<"round", x.id, j>>)]
<1>1. Rounds(x, meant) = [j \in 1..x.count |-> [b \in Env |-> V(j, b)]]
  BY DEF Rounds
<1> HIDE DEF V
<1>2. Rounds(x, meant)[i][a] = V(i, a)
  BY <1>1
<1> QED
  BY <1>2 DEF V

LEMMA BreakCaughtExtends ==
  ASSUME NEW a, NEW e \in Env, Extends(a, e) PROVE Extends(BreakCaught(a), e)
<1>1. Extends(Signalled(a, "go"), a)
  BY SignalledIs DEF Extends
<1>2. Extends(Signalled(a, "go"), e)
  BY <1>1, ExtendsChain
<1> QED
  BY <1>2 DEF BreakCaught

LEMMA RoundsAdd ==
  ASSUME NEW B, NEW meant, Adds(meant, B), NEW x, x.yes \in B, x.id \in Id,
         x.count \in Nat, NEW done \in 0..x.count
  PROVE  EachAdds(Rounds(x, meant), done, x.count)
<1> SUFFICES ASSUME NEW i \in (done + 1)..x.count, NEW a \in Env
             PROVE  Extends(Rounds(x, meant)[i][a], a)
  BY DEF EachAdds
<1>1. i \in 1..x.count /\ i \in Nat
  OBVIOUS
<1> DEFINE b == Logged(a, <<"round", x.id, i>>)
<1>2. Extends(b, a)
  <2>1. <<"round", x.id, i>> \in Event
    BY <1>1 DEF Event
  <2> QED
    BY <2>1, LoggedIs
<1>3. Rounds(x, meant)[i][a] = meant[x.yes][TRUE][b]
  BY <1>1, RoundIs
<1> HIDE DEF b
<1>4. Extends(meant[x.yes][TRUE][b], b)
  BY <1>2 DEF Adds, Extends
<1>5. Extends(meant[x.yes][TRUE][b], a)
  BY <1>2, <1>4, ExtendsChain
<1> QED
  BY <1>3, <1>5

LEMMA LoopExtends ==
  ASSUME NEW B, NEW meant, Adds(meant, B), NEW x, x.yes \in B, x.id \in Id,
         x.count \in Nat, NEW done \in 0..x.count, NEW e \in Env
  PROVE  Extends(AfterRounds(x, done, e, meant), e)
<1> DEFINE a == InTurn(Rounds(x, meant), done, x.count, e)
<1>1. EachAdds(Rounds(x, meant), done, x.count)
  BY RoundsAdd
<1>2. done \in Nat /\ done <= x.count
  OBVIOUS
<1>3. Extends(a, e)
  BY <1>1, <1>2, InTurnExtends
<1>4. AfterRounds(x, done, e, meant) = BreakCaught(a)
  BY DEF AfterRounds
<1> HIDE DEF a
<1> QED
  BY <1>3, <1>4, BreakCaughtExtends

LEMMA CardExtends ==
  ASSUME NEW B, NEW meant, Adds(meant, B), NEW x \in CardWith(B),
         NEW inLoop \in BOOLEAN, NEW e \in Env
  PROVE  Extends(AfterCard(x, e, inLoop, meant), e)
<1>1. /\ x.id \in Id /\ x.name \in Name \cup {NoName} /\ x.value \in Text
      /\ x.card \in Id /\ x.count \in Nat /\ x.yes \in B /\ x.no \in B
  BY CardIs
<1>2. CASE x.kind = "command"
  BY <1>1, <1>2, CommandExtends DEF AfterCard
<1>3. CASE x.kind = "variable"
  BY <1>1, <1>3, VariableExtends DEF AfterCard
<1>4. CASE x.kind = "break"
  <2>1. AfterCard(x, e, inLoop, meant) \in {Signalled(e, "break"), Signalled(e, "failed")}
    BY <1>4 DEF AfterCard
  <2> QED
    BY <2>1, SignalledIs
<1>5. CASE x.kind = "if"
  BY <1>1, <1>5, IfExtends DEF AfterCard
<1>6. CASE x.kind = "loop"
  <2>1. 0 \in 0..x.count
    BY <1>1
  <2>2. Extends(AfterRounds(x, 0, e, meant), e)
    BY <1>1, <2>1, LoopExtends
  <2> QED
    BY <1>6, <2>2 DEF AfterCard
<1>7. CASE x.kind \notin {"command", "variable", "break", "if", "loop"}
  BY <1>7, ExtendsItself DEF AfterCard
<1> QED
  BY <1>2, <1>3, <1>4, <1>5, <1>6, <1>7

LEMMA CardsApplied ==
  ASSUME NEW block, NEW inLoop, NEW meant, NEW i \in 1..Len(block), NEW a \in Env
  PROVE  Cards(block, inLoop, meant)[i][a] = AfterCard(block[i], a, inLoop, meant)
<1> DEFINE V(j, b) == AfterCard(block[j], b, inLoop, meant)
<1>1. Cards(block, inLoop, meant) = [j \in 1..Len(block) |-> [b \in Env |-> V(j, b)]]
  BY DEF Cards
<1> HIDE DEF V
<1>2. Cards(block, inLoop, meant)[i][a] = V(i, a)
  BY <1>1
<1> QED
  BY <1>2 DEF V

LEMMA CardsAdd ==
  ASSUME NEW B, NEW meant, Adds(meant, B), NEW block \in Seq(CardWith(B)),
         NEW inLoop \in BOOLEAN
  PROVE  EachAdds(Cards(block, inLoop, meant), 0, Len(block))
<1> SUFFICES ASSUME NEW i \in (0 + 1)..Len(block), NEW a \in Env
             PROVE  Extends(Cards(block, inLoop, meant)[i][a], a)
  BY DEF EachAdds
<1>1. i \in 1..Len(block) /\ block[i] \in CardWith(B)
  OBVIOUS
<1>2. Extends(AfterCard(block[i], a, inLoop, meant), a)
  BY <1>1, CardExtends
<1> QED
  BY <1>1, <1>2, CardsApplied

LEMMA MeantAdds ==
  ASSUME NEW n \in 0..Depth PROVE Adds(Meant[n], Block[n])
<1> DEFINE T == {m \in Nat: m <= Depth => Adds(Meant[m], Block[m])}
<1>0. Depth \in Nat
  BY ParametersHold
<1>1. 0 \in T
  <2> SUFFICES ASSUME NEW b \in Block[0], NEW l \in BOOLEAN, NEW e \in Env
               PROVE  Extends(Meant[0][b][l][e], e)
    BY DEF Adds
  <2>1. 0 \in 0..Depth
    BY <1>0
  <2>2. Meant[0][b][l][e] = e
    BY <1>0, <2>1, MeantApplied
  <2> QED
    BY <2>2, ExtendsItself
<1>2. ASSUME NEW m \in Nat, m \in T PROVE m + 1 \in T
  <2> SUFFICES ASSUME m + 1 <= Depth, NEW b \in Block[m + 1], NEW l \in BOOLEAN,
                      NEW e \in Env
               PROVE  Extends(Meant[m + 1][b][l][e], e)
    BY DEF Adds
  <2>1. m + 1 \in 0..Depth /\ m + 1 \in 1..Depth /\ (m + 1) - 1 = m /\ m + 1 # 0 /\ m <= Depth
    BY <1>0
  <2> DEFINE do == Cards(b, l, Meant[m])
  <2>2. Meant[m + 1][b][l][e] = InTurn(do, 0, Len(b), e)
    BY <1>0, <2>1, MeantApplied
  <2>3. Adds(Meant[m], Block[m])
    BY <1>2, <2>1
  <2>4. b \in Seq(CardWith(Block[m]))
    BY <1>0, <2>1, BlockIs
  <2>5. EachAdds(do, 0, Len(b))
    BY <2>3, <2>4, CardsAdd
  <2> HIDE DEF do
  <2>6. Len(b) \in Nat /\ 0 <= Len(b) /\ 0 \in Nat
    BY <2>4
  <2>7. Extends(InTurn(do, 0, Len(b), e), e)
    BY <2>5, <2>6, InTurnExtends
  <2> QED
    BY <2>2, <2>7
<1> HIDE DEF T
<1>3. n \in T
  BY <1>0, <1>1, <1>2, Induction
<1> QED
  BY <1>0, <1>3 DEF T

-----------------------------------------------------------------------------
(* What InTurn, and so a list of cards and a loop, makes of the next step.  *)

LEMMA InTurnEnds == ASSUME NEW do, NEW to \in Nat, NEW e PROVE InTurn(do, to, to, e) = e
<1>0. to <= to
  OBVIOUS
<1>1. PICK f: Turns(f, do, to, to, e) /\ InTurn(do, to, to, e) = f[to]
  BY <1>0, InTurnIs
<1>2. Stepwise(f, do, to, to, e)
  BY <1>0, <1>1, TurnsAre
<1> QED
  BY <1>1, <1>2 DEF Stepwise

LEMMA InTurnStops ==
  ASSUME NEW do, NEW from \in Nat, NEW to \in Nat, from <= to, NEW e, e.signal # "go"
  PROVE  InTurn(do, from, to, e) = e
<1>1. PICK f: Turns(f, do, from, to, e) /\ InTurn(do, from, to, e) = f[to]
  BY InTurnIs
<1>2. f[from] = e /\ \A i \in (from + 1)..to: f[i] = Turn(do, i, f[i - 1])
  BY <1>1, TurnsAre DEF Stepwise
<1> DEFINE T == {n \in Nat: from + n <= to => f[from + n] = e}
<1>3. 0 \in T
  <2>1. from + 0 = from
    OBVIOUS
  <2> QED
    BY <1>2, <2>1
<1>4. ASSUME NEW n \in Nat, n \in T PROVE n + 1 \in T
  <2> SUFFICES ASSUME from + (n + 1) <= to PROVE f[from + (n + 1)] = e
    OBVIOUS
  <2>1. from + (n + 1) \in (from + 1)..to /\ (from + (n + 1)) - 1 = from + n /\ from + n <= to
    OBVIOUS
  <2>2. f[from + n] = e
    BY <1>4, <2>1
  <2> QED
    BY <1>2, <2>1, <2>2 DEF Turn
<1> HIDE DEF T
<1>5. to - from \in Nat /\ from + (to - from) = to
  OBVIOUS
<1>6. to - from \in T
  BY <1>3, <1>4, <1>5, Induction
<1>7. f[from + (to - from)] = e
  BY <1>5, <1>6 DEF T
<1> QED
  BY <1>1, <1>5, <1>7

\* The first step, and then the others as another list has them.
Precedes(from, k, to) == k = from + 1 /\ k <= to

LEMMA InTurnFirst ==
  ASSUME NEW one, NEW other, NEW from \in Nat, NEW to \in Nat, NEW k \in Nat,
         Precedes(from, k, to),
         NEW begin \in Nat, NEW end \in Nat, NEW count \in Nat,
         Aligned(k, to, begin, end, count),
         NEW e, e.signal = "go", one[k][e] \in Env,
         EachAdds(other, begin, end),
         SameSteps(one, k, other, begin, count)
  PROVE  InTurn(one, from, to, e) = InTurn(other, begin, end, one[k][e])
<1> DEFINE a == one[k][e]
<1>0. /\ from <= to /\ begin <= end /\ k \in from..to /\ k \in (from + 1)..to
      /\ k - 1 = from
  BY DEF Precedes, Aligned
<1>1. PICK f: Turns(f, one, from, to, e) /\ InTurn(one, from, to, e) = f[to]
  BY <1>0, InTurnIs
<1>2. PICK g: Turns(g, other, begin, end, a) /\ InTurn(other, begin, end, a) = g[end]
  BY <1>0, InTurnIs
<1>3. f[k] = a
  <2>1. Stepwise(f, one, from, to, e)
    BY <1>0, <1>1, TurnsAre
  <2>2. f[k] = Turn(one, k, f[from])
    BY <1>0, <2>1 DEF Stepwise
  <2> QED
    BY <2>1, <2>2 DEF Stepwise, Turn
<1>4. AllEnv(g, begin, end)
  <2> SUFFICES ASSUME NEW i \in begin..end PROVE g[i] \in Env
    BY DEF AllEnv
  <2> HIDE DEF a
  <2>1. a \in Env
    BY DEF a
  <2> QED
    BY <1>0, <1>2, <2>1, TurnsExtend DEF Extends
<1>5. Turns(g, other, begin, end, f[k])
  BY <1>2, <1>3
<1> HIDE DEF a
<1>6. f[to] = g[end]
  BY <1>0, <1>1, <1>4, <1>5, TurnsAgree
<1> QED
  BY <1>1, <1>2, <1>6 DEF a

-----------------------------------------------------------------------------
(* What loops and lists of cards mean, one step at a time.                 *)

LEMMA RoundsEnd ==
  ASSUME NEW x, x.count \in Nat, NEW e, NEW meant
  PROVE  AfterRounds(x, x.count, e, meant) = BreakCaught(e)
BY InTurnEnds DEF AfterRounds

LEMMA RoundsStop ==
  ASSUME NEW x, x.count \in Nat, NEW done \in 0..x.count, NEW e, e.signal # "go", NEW meant
  PROVE  AfterRounds(x, done, e, meant) = BreakCaught(e)
<1>1. done \in Nat /\ done <= x.count
  OBVIOUS
<1> QED
  BY <1>1, InTurnStops DEF AfterRounds

\* Another round is to come.
RoundAhead(B, meant, x, done, e) ==
  /\ Adds(meant, B) /\ x.yes \in B /\ x.id \in Id
  /\ x.count \in Nat /\ done \in Nat /\ done < x.count
  /\ e \in Env /\ e.signal = "go"

\* What the rounds to come mean is what they mean after the next one.
RoundFirst(x, done, e, meant) ==
  AfterRounds(x, done, e, meant) =
    AfterRounds(x, done + 1,
                meant[x.yes][TRUE][Logged(e, <<"round", x.id, done + 1>>)], meant)

LEMMA RoundsNext ==
  ASSUME NEW B, NEW meant, NEW x, NEW done, NEW e, RoundAhead(B, meant, x, done, e)
  PROVE  RoundFirst(x, done, e, meant)
<1> DEFINE do == Rounds(x, meant)
           to == x.count
           k == done + 1
           count == to - k
           a == meant[x.yes][TRUE][Logged(e, <<"round", x.id, k>>)]
<1>0. /\ Adds(meant, B) /\ x.yes \in B /\ x.id \in Id
      /\ x.count \in Nat /\ done \in Nat /\ done < x.count
      /\ e \in Env /\ e.signal = "go"
  BY DEF RoundAhead
<1>1. /\ to \in Nat /\ k \in Nat /\ count \in Nat /\ k \in 1..x.count /\ k \in 0..x.count
      /\ Precedes(done, k, to) /\ Aligned(k, to, k, to, count)
      /\ k \in (done + 1)..to /\ done \in 0..x.count
  BY <1>0 DEF Precedes, Aligned
<1>2. do[k][e] = a
  BY <1>0, <1>1, RoundIs
<1>3. EachAdds(do, k, to)
  BY <1>0, <1>1, RoundsAdd
<1>4. EachAdds(do, done, to)
  BY <1>0, <1>1, RoundsAdd
<1>5. do[k][e] \in Env
  BY <1>0, <1>1, <1>4 DEF EachAdds, Extends
<1>6. SameSteps(do, k, do, k, count)
  BY DEF SameSteps
<1> HIDE DEF do, to, k, count, a
<1>7. InTurn(do, done, to, e) = InTurn(do, k, to, do[k][e])
  BY <1>0, <1>1, <1>3, <1>5, <1>6, InTurnFirst
<1>8. InTurn(do, done, to, e) = InTurn(do, k, to, a)
  BY <1>2, <1>7
<1> QED
  BY <1>8 DEF do, to, k, a, AfterRounds, RoundFirst

LEMMA InBlock ==
  ASSUME NEW n \in 0..Depth, NEW b \in Block[n], b # <<>>
  PROVE  /\ n \in 1..Depth /\ n - 1 \in 0..Depth
         /\ Block[n] = Seq(CardWith(Block[n - 1]))
         /\ Head(b) \in CardWith(Block[n - 1]) /\ Tail(b) \in Block[n]
         /\ Head(b) = b[1]
         /\ Len(b) \in Nat /\ Len(b) >= 1 /\ Len(Tail(b)) = Len(b) - 1
         /\ \A i \in 1..Len(Tail(b)): Tail(b)[i] = b[i + 1]
<1>1. Depth \in Nat
  BY ParametersHold
<1>2. n # 0
  BY <1>1, BlockIs
<1>3. n \in 1..Depth /\ n - 1 \in 0..Depth
  BY <1>1, <1>2
<1>4. Block[n] = Seq(CardWith(Block[n - 1]))
  BY <1>1, <1>3, BlockIs
<1> DEFINE C == CardWith(Block[n - 1])
<1>5. b \in Seq(C)
  BY <1>4
<1> HIDE DEF C
<1>6. /\ Head(b) \in C /\ Tail(b) \in Seq(C) /\ Head(b) = b[1]
      /\ Len(b) \in Nat /\ Len(b) >= 1 /\ Len(Tail(b)) = Len(b) - 1
  BY <1>5
<1>7. \A i \in 1..Len(Tail(b)): Tail(b)[i] = b[i + 1]
  BY <1>5, <1>6
<1> QED
  BY <1>3, <1>4, <1>6, <1>7 DEF C

LEMMA MeantNothing ==
  ASSUME NEW n \in 0..Depth, <<>> \in Block[n], NEW inLoop \in BOOLEAN, NEW e \in Env
  PROVE  Meant[n][<<>>][inLoop][e] = e
<1> DEFINE b == <<>>
           do == Cards(b, inLoop, Meant[n - 1])
<1>1. Meant[n][b][inLoop][e] = IF n = 0 THEN e ELSE InTurn(do, 0, Len(b), e)
  BY ParametersHold, MeantApplied
<1>2. Len(b) = 0
  OBVIOUS
<1> HIDE DEF do, b
<1>3. InTurn(do, 0, 0, e) = e
  BY InTurnEnds
<1>4. Meant[n][b][inLoop][e] = e
  BY <1>1, <1>2, <1>3
<1> QED
  BY <1>4 DEF b

LEMMA BlockLength ==
  ASSUME NEW n \in 0..Depth, NEW b \in Block[n] PROVE Len(b) \in Nat
<1>1. CASE b = <<>>
  BY <1>1
<1>2. CASE b # <<>>
  BY <1>2, InBlock
<1> QED
  BY <1>1, <1>2

LEMMA MeantStops ==
  ASSUME NEW n \in 0..Depth, NEW b \in Block[n], NEW inLoop \in BOOLEAN,
         NEW e \in Env, e.signal # "go"
  PROVE  Meant[n][b][inLoop][e] = e
<1> DEFINE do == Cards(b, inLoop, Meant[n - 1])
<1>1. Meant[n][b][inLoop][e] = IF n = 0 THEN e ELSE InTurn(do, 0, Len(b), e)
  BY ParametersHold, MeantApplied
<1>2. Len(b) \in Nat /\ 0 <= Len(b)
  BY BlockLength
<1> HIDE DEF do
<1>3. InTurn(do, 0, Len(b), e) = e
  BY <1>2, InTurnStops
<1> QED
  BY <1>1, <1>3

LEMMA MeantNext ==
  ASSUME NEW n \in 0..Depth, NEW b \in Block[n], b # <<>>, NEW inLoop \in BOOLEAN,
         NEW e \in Env, e.signal = "go"
  PROVE  /\ AfterCard(Head(b), e, inLoop, Meant[n - 1]) \in Env
         /\ Meant[n][b][inLoop][e] =
              Meant[n][Tail(b)][inLoop][AfterCard(Head(b), e, inLoop, Meant[n - 1])]
<1> DEFINE t == Tail(b)
           below == Meant[n - 1]
           C == CardWith(Block[n - 1])
           one == Cards(b, inLoop, below)
           other == Cards(t, inLoop, below)
           a == AfterCard(Head(b), e, inLoop, below)
           to == Len(b)
           end == Len(t)
<1>1. /\ n \in 1..Depth /\ n - 1 \in 0..Depth /\ Block[n] = Seq(C)
      /\ Head(b) \in C /\ t \in Block[n] /\ Head(b) = b[1]
      /\ to \in Nat /\ to >= 1 /\ end = to - 1
      /\ \A i \in 1..end: t[i] = b[i + 1]
  BY InBlock
<1>2. Meant[n][b][inLoop][e] = InTurn(one, 0, to, e)
  BY <1>1, ParametersHold, MeantApplied
<1>3. Adds(below, Block[n - 1])
  BY <1>1, MeantAdds
<1>4. a \in Env
  BY <1>1, <1>3, CardExtends DEF Extends
<1>5. Meant[n][t][inLoop][a] = InTurn(other, 0, end, a)
  <2> HIDE DEF a, t
  <2>1. Meant[n][t][inLoop][a] =
          IF n = 0 THEN a ELSE InTurn(Cards(t, inLoop, Meant[n - 1]), 0, Len(t), a)
    BY <1>1, <1>4, ParametersHold, MeantApplied
  <2> QED
    BY <1>1, <2>1
<1>6. one[1][e] = a
  <2>1. 1 \in 1..Len(b)
    BY <1>1
  <2>2. Cards(b, inLoop, below)[1][e] = AfterCard(b[1], e, inLoop, below)
    BY <2>1, CardsApplied
  <2> QED
    BY <1>1, <2>2
<1>7. EachAdds(other, 0, end)
  BY <1>1, <1>3, CardsAdd
<1>8. SameSteps(one, 1, other, 0, end)
  <2> SUFFICES ASSUME NEW i \in 1..end, NEW c \in Env
               PROVE  one[1 + i][c] = other[0 + i][c]
    BY DEF SameSteps
  <2>1. 1 + i \in 1..Len(b) /\ 0 + i = i /\ 1 + i = i + 1 /\ i \in 1..Len(t)
    BY <1>1
  <2>2. Cards(b, inLoop, below)[1 + i][c] = AfterCard(b[1 + i], c, inLoop, below)
    BY <2>1, CardsApplied
  <2>3. Cards(t, inLoop, below)[i][c] = AfterCard(t[i], c, inLoop, below)
    <3> HIDE DEF t, below
    <3> QED
      BY <2>1, CardsApplied
  <2>4. t[i] = b[1 + i]
    BY <1>1, <2>1
  <2> HIDE DEF t, below, to, end
  <2> QED
    BY <2>1, <2>2, <2>3, <2>4
<1> HIDE DEF one, other, to, end, a, below, t, C
<1>9. Precedes(0, 1, to) /\ Aligned(1, to, 0, end, end) /\ end \in Nat
  BY <1>1 DEF Precedes, Aligned
<1>10. one[1][e] \in Env
  BY <1>4, <1>6
<1>11. InTurn(one, 0, to, e) = InTurn(other, 0, end, one[1][e])
  <2>1. 0 \in Nat /\ 1 \in Nat /\ to \in Nat
    BY <1>1
  <2> QED
    BY <1>7, <1>8, <1>9, <1>10, <2>1, InTurnFirst
<1> QED
  BY <1>2, <1>4, <1>5, <1>6, <1>11 DEF a, below, t

-----------------------------------------------------------------------------
(* The frames.                                                             *)

\* How deep the cards of a frame may be, and whether a loop runs them.
Level(fr, j) == Depth - (Len(fr) - j)
Within(fr, j) == \E i \in j..Len(fr): fr[i].kind = "loop"

\* What ends a frame from environment e on, with the cards of b still to come.
ClosedAs(level, inLoop, kind, x, round, b, e) ==
  LET a == Meant[level][b][inLoop][e]
  IN  IF kind = "loop" THEN AfterRounds(x, round, a, Meant[level]) ELSE a
Closed(fr, j, b, e) ==
  ClosedAs(Level(fr, j), Within(fr, j), fr[j].kind, Head(fr[j + 1].rest),
           fr[j].round, b, e)

\* The frames around the innermost one end one after the other, from what that
\* one leaves behind.
Chain(F, fr) ==
  \A j \in 2..Len(fr): F[j] = Closed(fr, j, Tail(fr[j].rest), F[j - 1])
Outer(fr, e, result) ==
  \E F: F[1] = e /\ Chain(F, fr) /\ F[Len(fr)] = result

\* Every frame but the innermost one is at a card that opened the next.
NestedAt(fr, j) ==
  /\ fr[j].rest \in Block[Level(fr, j)]
  /\ j > 1 => fr[j].rest # <<>>
  /\ fr[j].kind \in {"root", "branch", "loop"}
  /\ fr[j].kind = "loop" => /\ j < Len(fr)
                            /\ fr[j].round \in 0..Head(fr[j + 1].rest).count
Nested(fr) ==
  /\ \E S: fr \in Seq(S)
  /\ Len(fr) > 0 /\ Len(fr) <= Depth + 1
  /\ \A j \in 1..Len(fr): NestedAt(fr, j)

LEMMA LevelIs ==
  ASSUME NEW fr, Nested(fr), NEW j \in 1..Len(fr)
  PROVE  /\ Len(fr) \in Nat /\ j \in Nat
         /\ Level(fr, j) \in 0..Depth /\ Level(fr, j + 1) = Level(fr, j) + 1
         /\ Level(fr, j + 1) - 1 = Level(fr, j)
         /\ Within(fr, j) \in BOOLEAN
<1>1. Depth \in Nat
  BY ParametersHold
<1>2. Len(fr) \in Nat /\ Len(fr) <= Depth + 1
  BY DEF Nested
<1>3. Within(fr, j) \in BOOLEAN
  BY DEF Within
<1> QED
  BY <1>1, <1>2, <1>3 DEF Level

\* The card of a loop's frame.
LEMMA LoopCard ==
  ASSUME NEW fr, Nested(fr), NEW j \in 1..Len(fr), fr[j].kind = "loop"
  PROVE  LET x == Head(fr[j + 1].rest) IN
         /\ j + 1 \in 1..Len(fr)
         /\ x \in CardWith(Block[Level(fr, j)])
         /\ x.count \in Nat /\ fr[j].round \in 0..x.count /\ x.id \in Id
         /\ x.yes \in Block[Level(fr, j)]
<1>1. j < Len(fr) /\ fr[j].round \in 0..Head(fr[j + 1].rest).count
  BY DEF Nested, NestedAt
<1>2. j + 1 \in 1..Len(fr) /\ j + 1 > 1
  BY <1>1, LevelIs
<1>3. NestedAt(fr, j + 1)
  BY <1>2 DEF Nested
<1>4. fr[j + 1].rest \in Block[Level(fr, j + 1)] /\ fr[j + 1].rest # <<>>
  BY <1>2, <1>3 DEF NestedAt
<1>5. Level(fr, j + 1) \in 0..Depth /\ Level(fr, j + 1) - 1 = Level(fr, j)
  BY <1>2, LevelIs
<1> DEFINE l == Level(fr, j + 1)
           b == fr[j + 1].rest
<1>6. l \in 0..Depth /\ b \in Block[l] /\ b # <<>>
  BY <1>4, <1>5
<1> HIDE DEF l, b
<1>7. Head(b) \in CardWith(Block[l - 1])
  BY <1>6, InBlock
<1>8. Head(fr[j + 1].rest) \in CardWith(Block[Level(fr, j)])
  BY <1>5, <1>7 DEF l, b
<1> QED
  BY <1>1, <1>2, <1>8, CardIs

LEMMA ClosedExtends ==
  ASSUME NEW fr, Nested(fr), NEW j \in 1..Len(fr), NEW b \in Block[Level(fr, j)],
         NEW e \in Env
  PROVE  Extends(Closed(fr, j, b, e), e)
<1> DEFINE level == Level(fr, j)
           l == Within(fr, j)
           a == Meant[level][b][l][e]
           x == Head(fr[j + 1].rest)
<1>1. level \in 0..Depth /\ l \in BOOLEAN
  BY LevelIs
<1>2. Adds(Meant[level], Block[level])
  BY <1>1, MeantAdds
<1>3. Extends(a, e)
  BY <1>1, <1>2 DEF Adds
<1>4. CASE fr[j].kind = "loop"
  <2>1. /\ x.count \in Nat /\ fr[j].round \in 0..x.count /\ x.id \in Id
        /\ x.yes \in Block[level]
    BY <1>4, LoopCard
  <2> HIDE DEF x, a, level
  <2>2. Extends(AfterRounds(x, fr[j].round, a, Meant[level]), a)
    BY <1>2, <1>3, <2>1, LoopExtends DEF Extends
  <2>3. Extends(AfterRounds(x, fr[j].round, a, Meant[level]), e)
    BY <1>3, <2>2, ExtendsChain
  <2> QED
    BY <1>4, <2>3 DEF Closed, ClosedAs, x, a, level
<1>5. CASE fr[j].kind # "loop"
  <2>1. Closed(fr, j, b, e) = a
    BY <1>5 DEF Closed, ClosedAs
  <2> HIDE DEF a
  <2> QED
    BY <1>3, <2>1
<1> QED
  BY <1>4, <1>5

\* A frame ends at once when something failed.
LEMMA ClosedStops ==
  ASSUME NEW fr, Nested(fr), NEW j \in 1..Len(fr), NEW b \in Block[Level(fr, j)],
         NEW e \in Env, e.signal # "go"
  PROVE  Closed(fr, j, b, e) = IF fr[j].kind = "loop" THEN BreakCaught(e) ELSE e
<1> DEFINE level == Level(fr, j)
           l == Within(fr, j)
           x == Head(fr[j + 1].rest)
<1>1. level \in 0..Depth /\ l \in BOOLEAN
  BY LevelIs
<1>2. Meant[level][b][l][e] = e
  BY <1>1, MeantStops
<1>3. CASE fr[j].kind = "loop"
  <2>1. x.count \in Nat /\ fr[j].round \in 0..x.count
    BY <1>3, LoopCard
  <2> HIDE DEF x
  <2>2. AfterRounds(x, fr[j].round, e, Meant[level]) = BreakCaught(e)
    BY <2>1, RoundsStop
  <2> QED
    BY <1>2, <1>3, <2>2 DEF Closed, ClosedAs, x
<1>4. CASE fr[j].kind # "loop"
  BY <1>2, <1>4 DEF Closed, ClosedAs
<1> QED
  BY <1>3, <1>4

\* The cards after the one that a frame around another is at.
LEMMA CardsAfter ==
  ASSUME NEW fr, Nested(fr), NEW j \in 1..Len(fr), fr[j].rest # <<>>
  PROVE  Tail(fr[j].rest) \in Block[Level(fr, j)]
<1>1. fr[j].rest \in Block[Level(fr, j)] /\ Level(fr, j) \in 0..Depth
  BY LevelIs DEF Nested, NestedAt
<1> QED
  BY <1>1, InBlock

LEMMA ChainExtends ==
  ASSUME NEW fr, Nested(fr), NEW F, Chain(F, fr), F[1] \in Env, NEW j \in 1..Len(fr)
  PROVE  Extends(F[j], F[1])
<1> DEFINE T == {n \in Nat: 1 + n <= Len(fr) => Extends(F[1 + n], F[1])}
<1>1. 0 \in T
  BY ExtendsItself
<1>2. ASSUME NEW n \in Nat, n \in T PROVE n + 1 \in T
  <2> SUFFICES ASSUME 1 + (n + 1) <= Len(fr) PROVE Extends(F[1 + (n + 1)], F[1])
    OBVIOUS
  <2> DEFINE k == 1 + (n + 1)
  <2>1. k \in 2..Len(fr) /\ k \in 1..Len(fr) /\ k - 1 = 1 + n /\ 1 + n <= Len(fr) /\ k > 1
    BY DEF Nested
  <2>2. Extends(F[k - 1], F[1])
    BY <1>2, <2>1
  <2>3. F[k] = Closed(fr, k, Tail(fr[k].rest), F[k - 1])
    BY <2>1 DEF Chain
  <2> HIDE DEF k
  <2>4. fr[k].rest # <<>>
    BY <2>1 DEF Nested, NestedAt
  <2>5. Tail(fr[k].rest) \in Block[Level(fr, k)]
    BY <2>1, <2>4, CardsAfter
  <2>6. Extends(F[k], F[k - 1])
    BY <2>1, <2>2, <2>3, <2>5, ClosedExtends DEF Extends
  <2>7. Extends(F[k], F[1])
    BY <2>2, <2>6, ExtendsChain
  <2> QED
    BY <2>7 DEF k
<1> HIDE DEF T
<1>3. j - 1 \in Nat /\ 1 + (j - 1) = j /\ j <= Len(fr)
  BY LevelIs
<1>4. j - 1 \in T
  BY <1>1, <1>2, <1>3, Induction
<1>5. 1 + (j - 1) <= Len(fr) => Extends(F[1 + (j - 1)], F[1])
  BY <1>4 DEF T
<1> QED
  BY <1>3, <1>5

LEMMA OuterExtends ==
  ASSUME NEW fr, Nested(fr), NEW e \in Env, NEW result, Outer(fr, e, result)
  PROVE  Extends(result, e)
<1>1. PICK F: F[1] = e /\ Chain(F, fr) /\ F[Len(fr)] = result
  BY DEF Outer
<1>2. Len(fr) \in 1..Len(fr)
  BY DEF Nested
<1>3. Extends(F[Len(fr)], F[1])
  BY <1>1, <1>2, ChainExtends
<1> QED
  BY <1>1, <1>3

\* While frames that are no loops end, a signal goes through them.
LEMMA ChainStops ==
  ASSUME NEW fr, Nested(fr), NEW F, Chain(F, fr), F[1] \in Env, F[1].signal # "go",
         NEW j \in 1..Len(fr),
         \A i \in 2..j: fr[i].kind # "loop" \/ F[1].signal # "break"
  PROVE  F[j] = F[1]
<1> DEFINE T == {n \in Nat: 1 + n <= j => F[1 + n] = F[1]}
<1>0. j \in Nat /\ Len(fr) \in Nat /\ j <= Len(fr)
  BY LevelIs
<1>1. 0 \in T
  OBVIOUS
<1>2. ASSUME NEW n \in Nat, n \in T PROVE n + 1 \in T
  <2> SUFFICES ASSUME 1 + (n + 1) <= j PROVE F[1 + (n + 1)] = F[1]
    OBVIOUS
  <2> DEFINE k == 1 + (n + 1)
  <2>1. /\ k \in 2..Len(fr) /\ k \in 1..Len(fr) /\ k \in 2..j
        /\ k - 1 = 1 + n /\ 1 + n <= j /\ k > 1
    BY <1>0
  <2>2. F[k - 1] = F[1]
    BY <1>2, <2>1
  <2>3. F[k] = Closed(fr, k, Tail(fr[k].rest), F[1])
    BY <2>1, <2>2 DEF Chain
  <2>4. fr[k].kind # "loop" \/ F[1].signal # "break"
    BY <2>1
  <2> HIDE DEF k
  <2>5. fr[k].rest # <<>>
    BY <2>1 DEF Nested, NestedAt
  <2>6. Tail(fr[k].rest) \in Block[Level(fr, k)]
    BY <2>1, <2>5, CardsAfter
  <2> DEFINE b == Tail(fr[k].rest)
             e == F[1]
  <2>7. b \in Block[Level(fr, k)] /\ e \in Env /\ e.signal # "go"
    BY <2>6
  <2> HIDE DEF b, e
  <2>8. Closed(fr, k, b, e) = IF fr[k].kind = "loop" THEN BreakCaught(e) ELSE e
    BY <2>1, <2>7, ClosedStops
  <2>9. F[k] = F[1]
    BY <2>3, <2>4, <2>8 DEF b, e, BreakCaught
  <2> QED
    BY <2>9 DEF k
<1> HIDE DEF T
<1>3. j - 1 \in Nat /\ 1 + (j - 1) = j
  BY <1>0
<1>4. j - 1 \in T
  BY <1>1, <1>2, <1>3, Induction
<1>5. 1 + (j - 1) <= j => F[1 + (j - 1)] = F[1]
  BY <1>4 DEF T
<1> QED
  BY <1>0, <1>3, <1>5

LEMMA OuterFails ==
  ASSUME NEW fr, Nested(fr), NEW e \in Env, e.signal \in {"failed", "pending"},
         NEW result, Outer(fr, e, result)
  PROVE  result = e
<1>1. PICK F: F[1] = e /\ Chain(F, fr) /\ F[Len(fr)] = result
  BY DEF Outer
<1>2. Len(fr) \in 1..Len(fr)
  BY DEF Nested
<1>3. F[Len(fr)] = F[1]
  BY <1>1, <1>2, ChainStops
<1> QED
  BY <1>1, <1>3

-----------------------------------------------------------------------------
(* Frames left and frames put on top.                                      *)

\* What t has left of the frames of s when i of them have ended: the innermost
\* one may have come to another card.
Resumes(s, i, t) ==
  /\ \E S: t \in Seq(S)
  /\ i \in Nat /\ i < Len(s) /\ Len(t) = Len(s) - i
  /\ t[1].kind = s[i + 1].kind
  /\ \A j \in 2..Len(t): t[j] = s[j + i]

LEMMA ResumesAt ==
  ASSUME NEW s, NEW t, NEW i, Len(s) \in Nat, Resumes(s, i, t), NEW j \in 1..Len(t)
  PROVE  /\ i \in Nat /\ j \in Nat /\ Len(t) \in Nat /\ 1 \in 1..Len(t)
         /\ j + i \in 1..Len(s)
         /\ t[j].kind = s[j + i].kind
         /\ Level(t, j) = Level(s, j + i)
         /\ j > 1 => t[j] = s[j + i]
         /\ j < Len(t) => j + 1 \in 2..Len(t) /\ t[j + 1] = s[j + i + 1]
<1>1. Depth \in Nat
  BY ParametersHold
<1>2. i \in Nat /\ j \in Nat /\ Len(t) \in Nat /\ Len(t) = Len(s) - i /\ i < Len(s)
  BY DEF Resumes
<1>3. j + i \in 1..Len(s) /\ Level(t, j) = Level(s, j + i)
  BY <1>1, <1>2 DEF Level
<1>4. j > 1 => t[j] = s[j + i]
  BY <1>2 DEF Resumes
<1>5. t[j].kind = s[j + i].kind
  <2>1. CASE j = 1
    <3>1. j + i = i + 1
      BY <1>2, <2>1
    <3> QED
      BY <2>1, <3>1 DEF Resumes
  <2>2. CASE j # 1
    BY <1>2, <1>4, <2>2
  <2> QED
    BY <2>1, <2>2
<1>6. j < Len(t) => j + 1 \in 2..Len(t) /\ t[j + 1] = s[j + i + 1]
  <2> SUFFICES ASSUME j < Len(t) PROVE j + 1 \in 2..Len(t) /\ t[j + 1] = s[j + i + 1]
    OBVIOUS
  <2>1. j + 1 \in 2..Len(t) /\ (j + 1) + i = j + i + 1
    BY <1>2
  <2> QED
    BY <2>1 DEF Resumes
<1> QED
  BY <1>2, <1>3, <1>4, <1>5, <1>6

LEMMA ResumesWithin ==
  ASSUME NEW s, NEW t, NEW i, Len(s) \in Nat, Resumes(s, i, t), NEW j \in 1..Len(t)
  PROVE  Within(t, j) = Within(s, j + i)
<1>1. i \in Nat /\ j \in Nat /\ Len(t) \in Nat /\ Len(t) = Len(s) - i
  BY ResumesAt DEF Resumes
<1>2. ASSUME NEW k \in j..Len(t), t[k].kind = "loop" PROVE Within(s, j + i)
  <2>1. k \in 1..Len(t) /\ k + i \in (j + i)..Len(s)
    BY <1>1
  <2>2. s[k + i].kind = "loop"
    BY <1>2, <2>1, ResumesAt
  <2> QED
    BY <2>1, <2>2 DEF Within
<1>3. ASSUME NEW k \in (j + i)..Len(s), s[k].kind = "loop" PROVE Within(t, j)
  <2>1. k - i \in j..Len(t) /\ k - i \in 1..Len(t) /\ (k - i) + i = k
    BY <1>1
  <2>2. t[k - i].kind = "loop"
    BY <1>3, <2>1, ResumesAt
  <2> QED
    BY <2>1, <2>2 DEF Within
<1> QED
  BY <1>2, <1>3 DEF Within

\* The frames still there end as before.
LEMMA ResumesClosed ==
  ASSUME NEW s, NEW t, NEW i, Len(s) \in Nat, Resumes(s, i, t), NEW j \in 1..Len(t),
         j = 1 => t[1].round = s[i + 1].round,
         t[j].kind = "loop" => j < Len(t),
         NEW b, NEW e
  PROVE  Closed(t, j, b, e) = Closed(s, j + i, b, e)
<1>1. /\ Level(t, j) = Level(s, j + i) /\ Within(t, j) = Within(s, j + i)
      /\ t[j].kind = s[j + i].kind
  BY ResumesAt, ResumesWithin
<1>2. t[j].round = s[j + i].round
  <2>1. i \in Nat /\ j \in Nat /\ 1 + i = i + 1
    BY ResumesAt
  <2>2. CASE j = 1
    BY <2>1, <2>2
  <2>3. CASE j # 1
    <3>1. j > 1
      BY <2>1, <2>3
    <3>2. t[j] = s[j + i]
      BY <3>1, ResumesAt
    <3> QED
      BY <3>2
  <2> QED
    BY <2>2, <2>3
<1>3. CASE t[j].kind = "loop"
  <2>1. t[j + 1] = s[j + i + 1]
    BY <1>3, ResumesAt
  <2> QED
    BY <1>1, <1>2, <2>1 DEF Closed
<1>4. CASE t[j].kind # "loop"
  BY <1>1, <1>4 DEF Closed, ClosedAs
<1> QED
  BY <1>3, <1>4

LEMMA ResumesNested ==
  ASSUME NEW s, NEW t, NEW i, Nested(s), Resumes(s, i, t),
         t[1].rest \in Block[Level(s, i + 1)],
         t[1].kind = "loop" => t[1].round \in 0..Head(s[i + 2].rest).count
  PROVE  Nested(t)
<1>0. Len(s) \in Nat /\ Len(s) <= Depth + 1 /\ Depth \in Nat
  BY ParametersHold DEF Nested
<1>1. i \in Nat /\ Len(t) = Len(s) - i /\ Len(t) \in Nat /\ Len(t) > 0 /\ Len(t) <= Depth + 1
  BY <1>0 DEF Resumes
<1>2. ASSUME NEW j \in 1..Len(t) PROVE NestedAt(t, j)
  <2>1. /\ j + i \in 1..Len(s) /\ t[j].kind = s[j + i].kind
        /\ Level(t, j) = Level(s, j + i)
        /\ j > 1 => t[j] = s[j + i]
        /\ j < Len(t) => t[j + 1] = s[j + i + 1]
    BY <1>0, <1>2, ResumesAt
  <2>2. NestedAt(s, j + i)
    BY <2>1 DEF Nested
  <2>3. j + i < Len(s) <=> j < Len(t)
    BY <1>0, <1>1
  <2>4. CASE j = 1
    <3>1. 1 + i = i + 1 /\ i + 1 + 1 = i + 2
      BY <1>1
    <3>2. t[1].kind = "loop" => t[2] = s[i + 2]
      BY <2>1, <2>2, <2>3, <2>4, <3>1 DEF NestedAt
    <3>3. t[1].rest \in Block[Level(t, 1)]
      BY <2>1, <2>4, <3>1
    <3>4. t[1].kind = "loop" => 1 < Len(t)
      BY <2>1, <2>2, <2>3, <2>4 DEF NestedAt
    <3>5. t[1].kind \in {"root", "branch", "loop"}
      BY <2>1, <2>2, <2>4 DEF NestedAt
    <3> QED
      BY <2>4, <3>2, <3>3, <3>4, <3>5 DEF NestedAt
  <2>5. CASE j # 1
    <3>1. j > 1 /\ j + i > 1 /\ t[j] = s[j + i]
      BY <1>1, <2>1, <2>5
    <3> QED
      BY <2>1, <2>2, <2>3, <3>1 DEF NestedAt
  <2> QED
    BY <2>4, <2>5
<1> QED
  BY <1>1, <1>2 DEF Nested, Resumes

\* The frames around the one resumed.
LEMMA ResumesChain ==
  ASSUME NEW s, NEW t, NEW i, Nested(s), Nested(t), Resumes(s, i, t),
         NEW F, Chain(F, s)
  PROVE  Outer(t, F[i + 1], F[Len(s)])
<1>0. Len(s) \in Nat /\ i \in Nat /\ Len(t) = Len(s) - i /\ Len(t) \in Nat /\ Len(t) > 0
  BY DEF Nested, Resumes
<1> DEFINE G == [j \in 1..Len(t) |-> F[j + i]]
<1>1. \A j \in 1..Len(t): G[j] = F[j + i]
  OBVIOUS
<1> HIDE DEF G
<1>2. ASSUME NEW j \in 2..Len(t)
      PROVE  G[j] = Closed(t, j, Tail(t[j].rest), G[j - 1])
  <2>1. /\ j \in 1..Len(t) /\ j - 1 \in 1..Len(t) /\ j \in Nat /\ j # 1 /\ j > 1
        /\ j + i \in 2..Len(s) /\ (j - 1) + i = (j + i) - 1
    BY <1>0
  <2>2. t[j] = s[j + i]
    BY <1>0, <2>1, ResumesAt
  <2>3. F[j + i] = Closed(s, j + i, Tail(s[j + i].rest), F[(j + i) - 1])
    BY <2>1 DEF Chain
  <2>4. t[j].kind = "loop" => j < Len(t)
    BY <2>1 DEF Nested, NestedAt
  <2>5. G[j] = F[j + i] /\ G[j - 1] = F[(j + i) - 1]
    BY <1>1, <2>1
  <2> DEFINE b == Tail(t[j].rest)
             e == G[j - 1]
  <2> HIDE DEF b, e
  <2>6. Closed(t, j, b, e) = Closed(s, j + i, b, e)
    BY <1>0, <2>1, <2>4, ResumesClosed
  <2> QED
    BY <2>2, <2>3, <2>5, <2>6 DEF b, e
<1>3. Chain(G, t)
  BY <1>2 DEF Chain
<1>4. G[1] = F[i + 1] /\ G[Len(t)] = F[Len(s)]
  <2>1. 1 \in 1..Len(t) /\ Len(t) \in 1..Len(t) /\ 1 + i = i + 1 /\ Len(t) + i = Len(s)
    BY <1>0
  <2> QED
    BY <1>1, <2>1
<1> QED
  BY <1>3, <1>4 DEF Outer

\* Another card, or round, of the innermost frame.
LEMMA SameOuter ==
  ASSUME NEW s, NEW t, Nested(s), Nested(t), Resumes(s, 0, t), NEW e, NEW result,
         Outer(s, e, result)
  PROVE  Outer(t, e, result)
<1>1. PICK F: F[1] = e /\ Chain(F, s) /\ F[Len(s)] = result
  BY DEF Outer
<1>2. Outer(t, F[0 + 1], F[Len(s)])
  BY <1>1, ResumesChain
<1> QED
  BY <1>1, <1>2

\* A frame that ended, and the cards left in the one around it.
LEMMA LeftOuter ==
  ASSUME NEW s, NEW t, Nested(s), Nested(t), NEW i \in 1..(Len(s) - 1), Resumes(s, i, t),
         t[1].rest = Tail(s[i + 1].rest), t[1].round = s[i + 1].round,
         NEW F, Chain(F, s)
  PROVE  Outer(t, Closed(t, 1, t[1].rest, F[i]), F[Len(s)])
<1>0. Len(s) \in Nat /\ i \in Nat /\ i + 1 \in 2..Len(s) /\ (i + 1) - 1 = i /\ 1 + i = i + 1
      /\ 1 \in 1..Len(t)
  BY DEF Nested
<1>1. F[i + 1] = Closed(s, i + 1, Tail(s[i + 1].rest), F[i])
  BY <1>0 DEF Chain
<1> DEFINE b == t[1].rest
           e == F[i]
<1>2. t[1].kind = "loop" => 1 < Len(t)
  BY <1>0 DEF Nested, NestedAt
<1> HIDE DEF b, e
<1>3. Closed(t, 1, b, e) = Closed(s, 1 + i, b, e)
  BY <1>0, <1>2, ResumesClosed
<1>4. Closed(t, 1, t[1].rest, F[i]) = F[i + 1]
  BY <1>0, <1>1, <1>3 DEF b, e
<1>5. Outer(t, F[i + 1], F[Len(s)])
  BY ResumesChain
<1> QED
  BY <1>4, <1>5

\* A frame put on top of the one whose card opened it.
Pushed(t, f, s) ==
  /\ t = <<f>> \o s
  /\ f.kind \in {"branch", "loop"}
  /\ f.kind = "loop" => Head(s[1].rest).count \in Nat
  /\ f.round = 0
  /\ f.rest \in Block[Level(s, 1) - 1]

LEMMA PushedNested ==
  ASSUME NEW s, Nested(s), s[1].rest # <<>>, NEW f, NEW t, Pushed(t, f, s)
  PROVE  /\ Nested(t) /\ Len(t) = Len(s) + 1 /\ t[1] = f /\ t[2] = s[1]
         /\ Resumes(t, 1, s) /\ Level(t, 1) = Level(s, 1) - 1
         /\ Within(t, 1) = (f.kind = "loop" \/ Within(s, 1))
<1>1. PICK S: s \in Seq(S)
  BY DEF Nested
<1>2. Len(s) \in Nat /\ Len(s) > 0 /\ Depth \in Nat /\ 1 \in 1..Len(s)
  BY ParametersHold DEF Nested
<1>3. /\ t \in Seq(S \cup {f}) /\ Len(t) = Len(s) + 1 /\ t[1] = f
      /\ \A j \in 1..Len(s): t[j + 1] = s[j]
      /\ \A j \in 2..Len(t): t[j] = s[j - 1]
  BY <1>1 DEF Pushed
<1>4. Level(s, 1) \in 1..Depth
  <2> DEFINE b == s[1].rest
             n == Level(s, 1)
  <2>1. n \in 0..Depth /\ b \in Block[n] /\ b # <<>>
    BY <1>2, LevelIs DEF Nested, NestedAt
  <2> HIDE DEF b, n
  <2>2. n \in 1..Depth
    BY <2>1, InBlock
  <2> QED
    BY <2>2 DEF n
<1>5. Len(t) <= Depth + 1 /\ Level(t, 1) = Level(s, 1) - 1
  BY <1>2, <1>3, <1>4 DEF Level
<1>6. s \in Seq(S) /\ t[2] = s[1]
  <2>1. 1 + 1 = 2
    OBVIOUS
  <2> QED
    BY <1>1, <1>2, <1>3, <2>1
<1>7. Resumes(t, 1, s)
  <2>1. Len(s) = Len(t) - 1 /\ 1 < Len(t) /\ 1 + 1 = 2
    BY <1>2, <1>3
  <2>2. \A j \in 2..Len(s): s[j] = t[j + 1]
    BY <1>2, <1>3
  <2> QED
    BY <1>1, <1>6, <2>1, <2>2 DEF Resumes
<1>8. ASSUME NEW j \in 1..Len(t) PROVE NestedAt(t, j)
  <2>1. CASE j = 1
    <3>1. 1 < Len(t)
      BY <1>2, <1>3
    <3>2. f.kind = "loop" => f.round \in 0..Head(s[1].rest).count
      BY DEF Pushed
    <3>3. t[1].kind \in {"branch", "loop"} /\ t[1].rest \in Block[Level(t, 1)]
      BY <1>3, <1>5 DEF Pushed
    <3> QED
      BY <1>3, <1>6, <2>1, <3>1, <3>2, <3>3 DEF NestedAt
  <2>2. CASE j # 1
    <3>1. j \in 2..Len(t) /\ j - 1 \in 1..Len(s) /\ j \in Nat /\ (j - 1) + 1 = j
      BY <1>2, <1>3, <2>2
    <3>2. t[j] = s[j - 1] /\ NestedAt(s, j - 1)
      BY <1>3, <3>1 DEF Nested
    <3>3. Level(s, j - 1) = Level(t, j)
      BY <1>2, <1>3, <3>1 DEF Level
    <3>4. t[j].rest # <<>>
      <4>1. CASE j = 2
        BY <1>6, <4>1
      <4>2. CASE j # 2
        <5>1. j - 1 > 1
          BY <3>1, <4>2
        <5> QED
          BY <3>2, <5>1 DEF NestedAt
      <4> QED
        BY <4>1, <4>2
    <3>5. t[j].kind = "loop" => j < Len(t) /\ t[j + 1] = s[(j - 1) + 1]
      <4> SUFFICES ASSUME t[j].kind = "loop" PROVE j < Len(t) /\ t[j + 1] = s[(j - 1) + 1]
        OBVIOUS
      <4>1. j - 1 < Len(s)
        BY <3>2 DEF NestedAt
      <4>2. j < Len(t) /\ j \in 1..Len(s)
        BY <1>2, <1>3, <3>1, <4>1
      <4> QED
        BY <1>3, <3>1, <4>2
    <3> QED
      BY <3>1, <3>2, <3>3, <3>4, <3>5 DEF NestedAt
  <2> QED
    BY <2>1, <2>2
<1>9. Nested(t)
  BY <1>2, <1>3, <1>5, <1>8 DEF Nested
<1>10. Within(t, 1) = (f.kind = "loop" \/ Within(s, 1))
  <2>1. Within(s, 1) = Within(t, 1 + 1)
    BY <1>2, <1>3, <1>7, ResumesWithin
  <2>2. 1..Len(t) = {1} \cup ((1 + 1)..Len(t))
    BY <1>2, <1>3
  <2> QED
    BY <1>3, <2>1, <2>2 DEF Within
<1> QED
  BY <1>3, <1>5, <1>6, <1>7, <1>9, <1>10

LEMMA PushedOuter ==
  ASSUME NEW s, NEW t, Nested(s), Nested(t), Resumes(t, 1, s), t[2] = s[1],
         NEW e, NEW result, Outer(s, Closed(s, 1, Tail(s[1].rest), e), result)
  PROVE  Outer(t, e, result)
<1>0. /\ Len(s) \in Nat /\ Len(t) \in Nat /\ Len(s) = Len(t) - 1 /\ Len(s) > 0
      /\ 1 \in 1..Len(s) /\ 1 + 1 = 2 /\ 2 - 1 = 1
  BY DEF Nested, Resumes
<1>1. PICK G: /\ G[1] = Closed(s, 1, Tail(s[1].rest), e) /\ Chain(G, s)
              /\ G[Len(s)] = result
  BY DEF Outer
<1> DEFINE F == [j \in 1..Len(t) |-> IF j = 1 THEN e ELSE G[j - 1]]
<1>2. F[1] = e /\ \A j \in 2..Len(t): F[j] = G[j - 1]
  BY <1>0
<1> HIDE DEF F
<1>3. ASSUME NEW j \in 2..Len(t)
      PROVE  F[j] = Closed(t, j, Tail(t[j].rest), F[j - 1])
  <2>1. j - 1 \in 1..Len(s) /\ (j - 1) + 1 = j /\ j \in Nat /\ j \in 1..Len(t)
    BY <1>0
  <2>2. t[j] = s[j - 1]
    <3>1. CASE j = 2
      BY <1>0, <3>1
    <3>2. CASE j # 2
      <4> DEFINE i == j - 1
      <4>1. i > 1 /\ i \in 1..Len(s) /\ i + 1 = j
        BY <2>1, <3>2
      <4> HIDE DEF i
      <4>2. s[i] = t[i + 1]
        BY <1>0, <4>1, ResumesAt
      <4> QED
        BY <4>1, <4>2 DEF i
    <3> QED
      BY <3>1, <3>2
  <2>3. s[j - 1].kind = "loop" => j - 1 < Len(s)
    BY <2>1 DEF Nested, NestedAt
  <2>4. s[1].round = t[1 + 1].round
    BY <1>0
  <2> DEFINE b == Tail(t[j].rest)
             a == F[j - 1]
             k == j - 1
  <2>5. k \in 1..Len(s) /\ (s[k].kind = "loop" => k < Len(s))
    BY <2>1, <2>3
  <2> HIDE DEF b, a, k
  <2>6. Closed(s, k, b, a) = Closed(t, k + 1, b, a)
    BY <1>0, <2>4, <2>5, ResumesClosed
  <2>7. Closed(s, j - 1, b, a) = Closed(t, j, b, a)
    BY <2>1, <2>6 DEF k
  <2>8. F[j] = Closed(s, j - 1, Tail(s[j - 1].rest), F[j - 1])
    <3>1. F[j] = G[j - 1]
      BY <1>2
    <3>2. CASE j = 2
      BY <1>0, <1>1, <1>2, <3>1, <3>2
    <3>3. CASE j # 2
      <4>1. j - 1 \in 2..Len(s) /\ j - 1 \in 2..Len(t)
        BY <1>0, <2>1, <3>3
      <4>2. G[j - 1] = Closed(s, j - 1, Tail(s[j - 1].rest), G[(j - 1) - 1])
        BY <1>1, <4>1 DEF Chain
      <4>3. F[j - 1] = G[(j - 1) - 1]
        BY <1>2, <4>1
      <4> QED
        BY <3>1, <4>2, <4>3
    <3> QED
      BY <3>2, <3>3
  <2> QED
    BY <2>2, <2>7, <2>8 DEF b, a
<1>4. Chain(F, t)
  BY <1>3 DEF Chain
<1>5. F[Len(t)] = result
  <2>1. Len(t) \in 2..Len(t) /\ Len(t) - 1 = Len(s)
    BY <1>0
  <2> QED
    BY <1>1, <1>2, <2>1
<1> QED
  BY <1>2, <1>4, <1>5 DEF Outer

-----------------------------------------------------------------------------
(* What the cards to come make of an environment.                          *)

\* From e on, with the cards of b to come in the innermost frame, the frames of
\* s end with result.
Ends(s, b, e, result) == Outer(s, Closed(s, 1, b, e), result)

LEMMA InnermostIs ==
  ASSUME NEW s, Nested(s)
  PROVE  /\ Len(s) \in Nat /\ Len(s) > 0 /\ 1 \in 1..Len(s)
         /\ NestedAt(s, 1) /\ s[1].rest \in Block[Level(s, 1)]
         /\ Level(s, 1) \in 0..Depth /\ Within(s, 1) \in BOOLEAN
<1>1. Len(s) \in Nat /\ Len(s) > 0 /\ 1 \in 1..Len(s)
  BY DEF Nested
<1>2. NestedAt(s, 1)
  BY <1>1 DEF Nested
<1> QED
  BY <1>1, <1>2, LevelIs DEF NestedAt

LEMMA NothingIsABlock == ASSUME NEW n \in 0..Depth PROVE <<>> \in Block[n]
<1>1. Depth \in Nat
  BY ParametersHold
<1>2. CASE n = 0
  BY <1>1, <1>2, BlockIs
<1>3. CASE n # 0
  <2>1. Block[n] = Seq(CardWith(Block[n - 1]))
    BY <1>1, <1>3, BlockIs
  <2> DEFINE C == CardWith(Block[n - 1])
  <2>2. <<>> \in Seq(C)
    OBVIOUS
  <2> QED
    BY <2>1, <2>2
<1> QED
  BY <1>2, <1>3

\* The innermost frame of those left comes to its next card.
LEMMA AdvancedResumes ==
  ASSUME NEW s, Nested(s), Shape(s), NEW m \in 0..(Len(s) - 1), NEW q,
         Outward(q, s, m), s[m + 1].rest # <<>>
  PROVE  LET t == Advanced(q) IN
         /\ Resumes(s, m, t) /\ Nested(t)
         /\ t[1].rest = Tail(s[m + 1].rest) /\ t[1].round = s[m + 1].round
<1> DEFINE t == Advanced(q)
<1>1. Len(s) \in Nat /\ m \in Nat /\ m < Len(s) /\ Len(t) = Len(q) /\ Len(q) = Len(s) - m
  BY AdvancedAre
<1>2. \E S: t \in Seq(S)
  BY AdvancedAre
<1>3. /\ t[1].rest = Tail(s[m + 1].rest) /\ t[1].round = s[m + 1].round
  BY AdvancedAre
<1>4. \A i \in 2..Len(q): t[i] = s[i + m]
  BY AdvancedAre
<1>5. \A i \in 1..Len(q): t[i].kind = s[i + m].kind
  BY AdvancedAre
<1> HIDE DEF t
<1>6. t[1].kind = s[m + 1].kind
  <2>1. 1 \in 1..Len(q) /\ 1 + m = m + 1
    BY <1>1
  <2> QED
    BY <1>5, <2>1
<1>7. Resumes(s, m, t)
  BY <1>1, <1>2, <1>4, <1>6 DEF Resumes
<1>8. m + 1 \in 1..Len(s) /\ m + 1 + 1 = m + 2
  BY <1>1
<1>9. Tail(s[m + 1].rest) \in Block[Level(s, m + 1)]
  BY <1>8, CardsAfter
<1>10. NestedAt(s, m + 1)
  BY <1>8 DEF Nested
<1>11. t[1].kind = "loop" => t[1].round \in 0..Head(s[m + 2].rest).count
  BY <1>3, <1>6, <1>8, <1>10 DEF NestedAt
<1>12. Nested(t)
  BY <1>3, <1>7, <1>9, <1>11, ResumesNested
<1> QED
  BY <1>3, <1>7, <1>12 DEF t

-----------------------------------------------------------------------------
(* What the frames mean, one step of the run at a time.                    *)

\* The next card does what it means.
LEMMA EndsNext ==
  ASSUME NEW s, Nested(s), NEW b \in Block[Level(s, 1)], b # <<>>,
         NEW e \in Env, e.signal = "go", NEW result, Ends(s, b, e, result)
  PROVE  LET a == AfterCard(Head(b), e, Within(s, 1), Meant[Level(s, 1) - 1]) IN
         a \in Env /\ Ends(s, Tail(b), a, result)
<1> DEFINE n == Level(s, 1)
           l == Within(s, 1)
           a == AfterCard(Head(b), e, l, Meant[n - 1])
<1>1. n \in 0..Depth /\ l \in BOOLEAN
  BY InnermostIs
<1>2. a \in Env /\ Meant[n][b][l][e] = Meant[n][Tail(b)][l][a]
  BY <1>1, MeantNext
<1>3. Closed(s, 1, b, e) = Closed(s, 1, Tail(b), a)
  BY <1>2 DEF Closed, ClosedAs
<1> HIDE DEF a
<1> QED
  BY <1>2, <1>3 DEF Ends, a

\* The card is done.
LEMMA EndsAdvanced ==
  ASSUME NEW s, Nested(s), Shape(s), s[1].rest # <<>>, NEW e, NEW result,
         Ends(s, Tail(s[1].rest), e, result)
  PROVE  LET t == Advanced(s) IN
         Nested(t) /\ t[1].rest = Tail(s[1].rest) /\ Ends(t, t[1].rest, e, result)
<1> DEFINE t == Advanced(s)
<1>1. Len(s) \in Nat /\ Len(s) > 0 /\ 0 \in 0..(Len(s) - 1) /\ 0 + 1 = 1 /\ 1 + 0 = 1
  BY InnermostIs
<1>2. Outward(s, s, 0)
  BY <1>1 DEF Outward, Shape
<1>3. s[0 + 1].rest # <<>>
  BY <1>1
<1>4. /\ Resumes(s, 0, t) /\ Nested(t)
      /\ t[1].rest = Tail(s[0 + 1].rest) /\ t[1].round = s[0 + 1].round
  BY <1>1, <1>2, <1>3, AdvancedResumes
<1> HIDE DEF t
<1> DEFINE b == t[1].rest
<1>5. b = Tail(s[1].rest)
  BY <1>1, <1>4
<1>6. 1 \in 1..Len(t) /\ (t[1].kind = "loop" => 1 < Len(t))
  BY <1>4, InnermostIs DEF NestedAt
<1>7. Outer(t, Closed(s, 1, b, e), result)
  BY <1>4, <1>5, SameOuter DEF Ends
<1> HIDE DEF b
<1>8. Closed(t, 1, b, e) = Closed(s, 1 + 0, b, e)
  BY <1>1, <1>4, <1>6, ResumesClosed
<1> QED
  BY <1>1, <1>4, <1>5, <1>7, <1>8 DEF Ends, b, t

\* The branch of an if card.
LEMMA EndsBranch ==
  ASSUME NEW s, Nested(s), s[1].rest # <<>>, NEW f, f.kind = "branch", f.round = 0,
         f.rest \in Block[Level(s, 1) - 1], NEW e, NEW result,
         Ends(s, Tail(s[1].rest), Meant[Level(s, 1) - 1][f.rest][Within(s, 1)][e], result)
  PROVE  LET t == <<f>> \o s IN
         Nested(t) /\ t[1].rest = f.rest /\ Ends(t, t[1].rest, e, result)
<1> DEFINE t == <<f>> \o s
           a == Meant[Level(s, 1) - 1][f.rest][Within(s, 1)][e]
<1>1. /\ Nested(t) /\ Len(t) = Len(s) + 1 /\ t[1] = f /\ t[2] = s[1]
      /\ Resumes(t, 1, s) /\ Level(t, 1) = Level(s, 1) - 1
      /\ Within(t, 1) = (f.kind = "loop" \/ Within(s, 1))
  <2>1. Pushed(t, f, s)
    BY DEF Pushed
  <2> HIDE DEF t
  <2> QED
    BY <2>1, PushedNested
<1> HIDE DEF t
<1>2. Within(t, 1) = Within(s, 1)
  BY <1>1, InnermostIs
<1>3. Closed(t, 1, t[1].rest, e) = a
  BY <1>1, <1>2 DEF Closed, ClosedAs
<1> HIDE DEF a
<1>4. Outer(s, Closed(s, 1, Tail(s[1].rest), a), result)
  BY DEF Ends, a
<1>5. Outer(t, a, result)
  BY <1>1, <1>4, PushedOuter
<1> QED
  BY <1>1, <1>3, <1>5 DEF Ends, t

\* The first round of a loop is to come.
LEMMA EndsEntered ==
  ASSUME NEW s, Nested(s), s[1].rest # <<>>, NEW f, f.kind = "loop", f.round = 0,
         f.rest = <<>>, NEW e \in Env, NEW result,
         Ends(s, Tail(s[1].rest),
              AfterRounds(Head(s[1].rest), 0, e, Meant[Level(s, 1) - 1]), result)
  PROVE  LET t == <<f>> \o s IN
         Nested(t) /\ t[1] = f /\ Ends(t, <<>>, e, result)
<1> DEFINE t == <<f>> \o s
           x == Head(s[1].rest)
           n == Level(s, 1)
           b == s[1].rest
           a == AfterRounds(x, 0, e, Meant[Level(s, 1) - 1])
<1>1. n - 1 \in 0..Depth /\ x \in CardWith(Block[n - 1])
  <2>1. n \in 0..Depth /\ b \in Block[n] /\ b # <<>> /\ x = Head(b)
    BY InnermostIs
  <2> HIDE DEF n, b, x
  <2> QED
    BY <2>1, InBlock
<1>2. x.count \in Nat
  <2> HIDE DEF x, n
  <2> QED
    BY <1>1, CardIs
<1>3. f.rest \in Block[Level(s, 1) - 1]
  BY <1>1, NothingIsABlock
<1>4. /\ Nested(t) /\ Len(t) = Len(s) + 1 /\ t[1] = f /\ t[2] = s[1]
      /\ Resumes(t, 1, s) /\ Level(t, 1) = Level(s, 1) - 1
      /\ Within(t, 1) = (f.kind = "loop" \/ Within(s, 1))
  <2>1. Pushed(t, f, s)
    BY <1>2, <1>3 DEF Pushed
  <2> HIDE DEF t
  <2> QED
    BY <2>1, PushedNested
<1> HIDE DEF t
<1>5. Within(t, 1) = TRUE /\ Level(t, 1) = n - 1
  BY <1>4
<1>6. Meant[n - 1][<<>>][TRUE][e] = e
  <2> DEFINE k == n - 1
  <2>1. k \in 0..Depth /\ <<>> \in Block[k]
    BY <1>1, NothingIsABlock
  <2> HIDE DEF k
  <2>2. Meant[k][<<>>][TRUE][e] = e
    BY <2>1, MeantNothing
  <2> QED
    BY <2>2 DEF k
<1>7. Closed(t, 1, <<>>, e) = a
  <2>1. 1 + 1 = 2
    OBVIOUS
  <2> QED
    BY <1>4, <1>5, <1>6, <2>1 DEF Closed, ClosedAs
<1> HIDE DEF a, x, n, b
<1>8. Outer(s, Closed(s, 1, Tail(s[1].rest), a), result)
  BY DEF Ends, a, x
<1>9. Outer(t, a, result)
  BY <1>4, <1>8, PushedOuter
<1> QED
  BY <1>4, <1>7, <1>9 DEF Ends, t

\* A loop's frame before its next round, from go on.
LEMMA LoopAhead ==
  ASSUME NEW s, Nested(s), s[1].kind = "loop", NEW e \in Env
  PROVE  Closed(s, 1, <<>>, e) =
           AfterRounds(Head(s[2].rest), s[1].round, e, Meant[Level(s, 1)])
<1>1. Within(s, 1) = TRUE
  BY InnermostIs DEF Within
<1> DEFINE n == Level(s, 1)
<1>2. n \in 0..Depth /\ <<>> \in Block[n]
  BY InnermostIs, NothingIsABlock
<1> HIDE DEF n
<1>3. Meant[n][<<>>][TRUE][e] = e
  BY <1>2, MeantNothing
<1>4. 1 + 1 = 2
  OBVIOUS
<1> QED
  BY <1>1, <1>3, <1>4 DEF Closed, ClosedAs, n

\* Another frame in the place of the innermost one.
LEMMA Replaced ==
  ASSUME NEW s, Nested(s), NEW f, f.kind = s[1].kind, NEW t, t = <<f>> \o Tail(s)
  PROVE  Resumes(s, 0, t) /\ t[1] = f /\ Len(t) = Len(s)
<1>1. PICK S: s \in Seq(S)
  BY DEF Nested
<1>2. Len(s) \in Nat /\ Len(s) > 0
  BY InnermostIs
<1>3. /\ Tail(s) \in Seq(S \cup {f}) /\ Len(Tail(s)) = Len(s) - 1
      /\ \A i \in 1..(Len(s) - 1): Tail(s)[i] = s[i + 1]
  BY <1>1, <1>2
<1> DEFINE u == Tail(s)
<1>4. /\ <<f>> \o u \in Seq(S \cup {f}) /\ Len(<<f>> \o u) = Len(s)
      /\ (<<f>> \o u)[1] = f
      /\ \A i \in 2..Len(s): (<<f>> \o u)[i] = s[i]
  <2>1. u \in Seq(S \cup {f}) /\ Len(u) = Len(s) - 1
    BY <1>3
  <2>2. \A i \in 1..(Len(s) - 1): u[i] = s[i + 1]
    BY <1>3
  <2> HIDE DEF u
  <2> QED
    BY <1>2, <2>1, <2>2
<1> DEFINE v == <<f>> \o u
<1>5. v = t
  OBVIOUS
<1> HIDE DEF v
<1>6. /\ v \in Seq(S \cup {f}) /\ Len(v) = Len(s) /\ v[1] = f
      /\ \A i \in 2..Len(s): v[i] = s[i]
  BY <1>4 DEF v
<1>7. \A i \in 2..Len(v): v[i] = s[i + 0]
  BY <1>2, <1>6
<1>8. v[1].kind = s[0 + 1].kind
  <2>1. 0 + 1 = 1
    OBVIOUS
  <2> QED
    BY <1>6, <2>1
<1>9. Resumes(s, 0, v)
  BY <1>2, <1>6, <1>7, <1>8 DEF Resumes
<1> QED
  BY <1>5, <1>6, <1>9

\* Another round.
AtRound(s, x, r) ==
  s[1].kind = "loop" /\ x = Head(s[2].rest) /\ r = s[1].round /\ r < x.count

LEMMA RoundIn ==
  ASSUME NEW s, Nested(s), NEW x, NEW r, AtRound(s, x, r)
  PROVE  /\ 2 \in 1..Len(s) /\ x \in CardWith(Block[Level(s, 1)])
         /\ x.count \in Nat /\ r \in 0..x.count /\ r < x.count /\ x.id \in Id
         /\ x.yes \in Block[Level(s, 1)]
         /\ Level(s, 1) \in 0..Depth /\ 1 \in 1..Len(s)
<1>1. 1 \in 1..Len(s) /\ 1 + 1 = 2
  BY InnermostIs
<1> QED
  BY <1>1, LoopCard, InnermostIs DEF AtRound

LEMMA RoundTaken ==
  ASSUME NEW s, Nested(s), NEW x, NEW r, AtRound(s, x, r), NEW e \in Env, e.signal = "go"
  PROVE  LET n == Level(s, 1) IN
         Closed(s, 1, <<>>, e) =
           AfterRounds(x, r + 1,
             Meant[n][x.yes][TRUE][Logged(e, <<"round", x.id, r + 1>>)], Meant[n])
<1> DEFINE n == Level(s, 1)
           B == Block[n]
           meant == Meant[n]
<1>1. Adds(meant, B)
  <2>1. n \in 0..Depth
    BY RoundIn
  <2> HIDE DEF n
  <2> QED
    BY <2>1, MeantAdds
<1>2. x.yes \in B /\ x.id \in Id /\ x.count \in Nat /\ r \in Nat /\ r < x.count
  BY RoundIn
<1>3. Closed(s, 1, <<>>, e) = AfterRounds(x, r, e, meant)
  BY LoopAhead DEF AtRound
<1> HIDE DEF B, meant, n
<1>4. RoundAhead(B, meant, x, r, e)
  BY <1>1, <1>2 DEF RoundAhead
<1>5. RoundFirst(x, r, e, meant)
  BY <1>4, RoundsNext
<1> QED
  BY <1>3, <1>5 DEF RoundFirst, meant, n

LEMMA EndsRound ==
  ASSUME NEW s, Nested(s), NEW x, NEW r, AtRound(s, x, r),
         NEW f, f.kind = "loop", f.rest = x.yes, f.round = r + 1,
         NEW e \in Env, e.signal = "go", NEW result, Ends(s, <<>>, e, result)
  PROVE  LET t == <<f>> \o Tail(s) IN
         Nested(t) /\ t[1] = f
         /\ Ends(t, f.rest, Logged(e, <<"round", x.id, r + 1>>), result)
<1> DEFINE t == <<f>> \o Tail(s)
           n == Level(s, 1)
           a == Logged(e, <<"round", x.id, r + 1>>)
<1>1. Resumes(s, 0, t) /\ t[1] = f /\ Len(t) = Len(s)
  BY Replaced DEF AtRound
<1> HIDE DEF t
<1>2. /\ x.count \in Nat /\ r \in 0..x.count /\ r < x.count
      /\ x.yes \in Block[n] /\ 2 \in 1..Len(s)
  BY RoundIn
<1>3. Nested(t)
  <2>1. f.round \in 0..x.count /\ 0 + 2 = 2 /\ 0 + 1 = 1
    BY <1>2
  <2>2. t[1].rest \in Block[Level(s, 0 + 1)]
    BY <1>1, <1>2, <2>1
  <2>3. t[1].kind = "loop" => t[1].round \in 0..Head(s[0 + 2].rest).count
    BY <1>1, <2>1 DEF AtRound
  <2> QED
    BY <1>1, <2>2, <2>3, ResumesNested
<1>4. Level(t, 1) = n /\ Within(t, 1) = TRUE /\ t[2] = s[2]
  <2>1. 1 \in 1..Len(t) /\ 1 < Len(t)
    BY <1>1, <1>3, InnermostIs DEF NestedAt
  <2>2. Len(t) = Len(s) /\ 2 \in 2..Len(t) /\ 2 + 0 = 2
    BY <1>1, <2>1
  <2>3. t[2] = s[2]
    BY <1>1, <2>2 DEF Resumes
  <2>4. Within(t, 1) = TRUE
    BY <1>1, <2>1 DEF Within
  <2> QED
    BY <1>1, <2>3, <2>4 DEF Level
<1>5. Closed(s, 1, <<>>, e) = AfterRounds(x, r + 1, Meant[n][x.yes][TRUE][a], Meant[n])
  BY RoundTaken
<1> HIDE DEF n, a
<1>6. Closed(t, 1, f.rest, a) = AfterRounds(x, r + 1, Meant[n][x.yes][TRUE][a], Meant[n])
  <2>1. 1 + 1 = 2
    OBVIOUS
  <2> QED
    BY <1>1, <1>4, <2>1 DEF Closed, ClosedAs, AtRound
<1>7. Outer(t, Closed(t, 1, f.rest, a), result)
  BY <1>1, <1>3, <1>5, <1>6, SameOuter DEF Ends
<1> QED
  BY <1>1, <1>3, <1>7 DEF Ends, t, a

\* The frames of s without m of them, at the card after the one that opened
\* the last of those.
LEMMA LeftFor ==
  ASSUME NEW s, Nested(s), Shape(s), NEW m \in 1..(Len(s) - 1), NEW q, Outward(q, s, m),
         NEW F, Chain(F, s)
  PROVE  LET t == Advanced(q) IN
         Nested(t) /\ Ends(t, t[1].rest, F[m], F[Len(s)])
<1> DEFINE t == Advanced(q)
<1>1. Len(s) \in Nat /\ m \in 0..(Len(s) - 1) /\ m + 1 \in 1..Len(s) /\ m + 1 > 1
  BY InnermostIs
<1>2. s[m + 1].rest # <<>>
  BY <1>1 DEF Nested, NestedAt
<1>3. /\ Resumes(s, m, t) /\ Nested(t)
      /\ t[1].rest = Tail(s[m + 1].rest) /\ t[1].round = s[m + 1].round
  BY <1>1, <1>2, AdvancedResumes
<1> HIDE DEF t
<1>4. Outer(t, Closed(t, 1, t[1].rest, F[m]), F[Len(s)])
  BY <1>3, LeftOuter
<1> QED
  BY <1>3, <1>4 DEF Ends, t

\* The cards of a branch, or the rounds of a loop, are used up.
LEMMA EndsLeft ==
  ASSUME NEW s, Nested(s), Shape(s), s[1].kind # "root",
         s[1].kind = "loop" => s[1].round = Head(s[2].rest).count,
         NEW e \in Env, e.signal = "go", NEW result, Ends(s, <<>>, e, result)
  PROVE  LET t == Advanced(Tail(s)) IN
         Nested(t) /\ Ends(t, t[1].rest, e, result)
<1>1. Len(s) \in Nat /\ Len(s) > 1 /\ 1 \in 1..(Len(s) - 1) /\ 1 \in 1..Len(s)
  BY InnermostIs DEF Shape
<1>2. Outward(Tail(s), s, 1)
  BY <1>1 DEF Outward, Shape
<1>3. Closed(s, 1, <<>>, e) = e
  <2> DEFINE n == Level(s, 1)
             l == Within(s, 1)
  <2>1. n \in 0..Depth /\ l \in BOOLEAN /\ <<>> \in Block[n]
    BY InnermostIs, NothingIsABlock
  <2>2. CASE s[1].kind = "loop"
    <3> DEFINE x == Head(s[2].rest)
    <3>1. Closed(s, 1, <<>>, e) = AfterRounds(x, x.count, e, Meant[n])
      BY <2>2, LoopAhead
    <3>2. x.count \in Nat
      <4>1. 1 + 1 = 2
        OBVIOUS
      <4> QED
        BY <1>1, <2>2, <4>1, LoopCard
    <3> HIDE DEF x, n
    <3>3. AfterRounds(x, x.count, e, Meant[n]) = BreakCaught(e)
      BY <3>2, RoundsEnd
    <3> QED
      BY <3>1, <3>3 DEF BreakCaught
  <2>3. CASE s[1].kind # "loop"
    <3> HIDE DEF n, l
    <3>1. Meant[n][<<>>][l][e] = e
      BY <2>1, MeantNothing
    <3> QED
      BY <2>3, <3>1 DEF Closed, ClosedAs, n, l
  <2> QED
    BY <2>2, <2>3
<1>4. PICK F: F[1] = e /\ Chain(F, s) /\ F[Len(s)] = result
  BY <1>3 DEF Ends, Outer
<1> DEFINE q == Tail(s)
<1>5. Outward(q, s, 1)
  BY <1>2
<1> HIDE DEF q
<1>6. Nested(Advanced(q)) /\ Ends(Advanced(q), Advanced(q)[1].rest, F[1], F[Len(s)])
  BY <1>1, <1>4, <1>5, LeftFor
<1> QED
  BY <1>4, <1>6 DEF q

\* A break ends the loop of frame m, the innermost one.
LEMMA EndsBroken ==
  ASSUME NEW s, Nested(s), Shape(s), NEW m \in 1..Len(s), s[m].kind = "loop",
         \A i \in 1..Len(s): s[i].kind = "loop" => m <= i,
         NEW b \in Block[Level(s, 1)], NEW e \in Env, e.signal = "go", NEW result,
         Ends(s, b, Signalled(e, "break"), result),
         NEW q, Outward(q, s, m)
  PROVE  LET t == Advanced(q) IN
         Nested(t) /\ Ends(t, t[1].rest, e, result)
<1> DEFINE broken == Signalled(e, "break")
<1>1. Len(s) \in Nat /\ m \in Nat /\ m < Len(s) /\ m \in 1..(Len(s) - 1) /\ 1 \in 1..Len(s)
  BY InnermostIs DEF Nested, NestedAt
<1>2. broken \in Env /\ broken.signal = "break"
  BY SignalledIs DEF Extends
<1>3. BreakCaught(broken) = e
  BY DEF BreakCaught, Signalled, Env
<1> HIDE DEF broken
<1>4. PICK F: F[1] = Closed(s, 1, b, broken) /\ Chain(F, s) /\ F[Len(s)] = result
  BY DEF Ends, Outer, broken
<1>5. F[1] = IF s[1].kind = "loop" THEN BreakCaught(broken) ELSE broken
  BY <1>1, <1>2, <1>4, ClosedStops
<1>6. F[m] = e
  <2>1. CASE m = 1
    BY <1>3, <1>5, <2>1
  <2>2. CASE m # 1
    <3> DEFINE k == m - 1
    <3>1. k \in Nat /\ k \in 1..Len(s) /\ k + 1 = m /\ m \in 2..Len(s) /\ m - 1 = k /\ m > 1
      BY <1>1, <2>2
    <3>2. F[1] = broken /\ s[1].kind # "loop"
      BY <1>1, <1>5, <3>1
    <3> HIDE DEF k
    <3>3. \A i \in 2..k: s[i].kind # "loop" \/ F[1].signal # "break"
      BY <1>1, <3>1
    <3>4. F[k] = F[1]
      BY <1>2, <1>4, <3>1, <3>2, <3>3, ChainStops
    <3>5. F[m] = Closed(s, m, Tail(s[m].rest), broken)
      BY <1>4, <3>1, <3>2, <3>4 DEF Chain
    <3>6. s[m].rest # <<>>
      BY <3>1 DEF Nested, NestedAt
    <3>7. Tail(s[m].rest) \in Block[Level(s, m)]
      BY <3>6, CardsAfter
    <3> DEFINE c == Tail(s[m].rest)
    <3>8. c \in Block[Level(s, m)]
      BY <3>7
    <3> HIDE DEF c
    <3>9. Closed(s, m, c, broken) = BreakCaught(broken)
      BY <1>2, <3>8, ClosedStops
    <3> QED
      BY <1>3, <3>5, <3>9 DEF c
  <2> QED
    BY <2>1, <2>2
<1>7. Nested(Advanced(q)) /\ Ends(Advanced(q), Advanced(q)[1].rest, F[m], F[Len(s)])
  BY <1>1, <1>4, LeftFor
<1> QED
  BY <1>4, <1>6, <1>7

\* The sequence is done.
LEMMA EndsAtRoot ==
  ASSUME NEW s, Nested(s), Shape(s), s[1].kind = "root", NEW e \in Env,
         NEW result, Ends(s, <<>>, e, result)
  PROVE  result = e
<1>1. 1 \in 1..Len(s) /\ Len(s) = 1
  BY InnermostIs DEF Shape
<1> DEFINE n == Level(s, 1)
           l == Within(s, 1)
<1>2. n \in 0..Depth /\ l \in BOOLEAN /\ <<>> \in Block[n]
  BY InnermostIs, NothingIsABlock
<1> HIDE DEF n, l
<1>3. Meant[n][<<>>][l][e] = e
  BY <1>2, MeantNothing
<1>4. Closed(s, 1, <<>>, e) = e
  BY <1>3 DEF Closed, ClosedAs, n, l
<1> QED
  BY <1>1, <1>4 DEF Ends, Outer

\* What failed leaves every frame as it is.
LEMMA EndsFailed ==
  ASSUME NEW s, Nested(s), NEW b \in Block[Level(s, 1)],
         NEW e \in Env, e.signal \in {"failed", "pending"},
         NEW result, Ends(s, b, e, result)
  PROVE  result = e
<1>1. 1 \in 1..Len(s) /\ e.signal # "go" /\ e.signal # "break"
  BY InnermostIs
<1>2. Closed(s, 1, b, e) = e
  BY <1>1, ClosedStops DEF BreakCaught
<1> QED
  BY <1>2, OuterFails DEF Ends

LEMMA EndsExtends ==
  ASSUME NEW s, Nested(s), NEW b \in Block[Level(s, 1)], NEW e \in Env,
         NEW result, Ends(s, b, e, result)
  PROVE  Extends(result, e)
<1> DEFINE a == Closed(s, 1, b, e)
<1>1. Extends(a, e)
  BY InnermostIs, ClosedExtends
<1> HIDE DEF a
<1>2. Extends(result, a)
  BY <1>1, OuterExtends DEF Extends, Ends, a
<1> QED
  BY <1>1, <1>2, ExtendsChain

-----------------------------------------------------------------------------
(* The environment the engine stands for.                                  *)

EnvOf(a, l, h, c, v, o, g) ==
  [answers |-> a, last |-> l, heard |-> h, cards |-> c, vars |-> v, over |-> o,
   log |-> g, signal |-> "go"]

LEMMA EnvOfIs ==
  ASSUME NEW a \in Seq(Result), NEW l \in Result, NEW h \in Text, NEW c \in [Id -> Result],
         NEW v \in [Name -> Text], NEW o \in Transport, NEW g \in Seq(Event)
  PROVE  EnvOf(a, l, h, c, v, o, g) \in Env
BY DEF EnvOf, Env

LEMMA EnvOfHas ==
  ASSUME NEW a, NEW l, NEW h, NEW c, NEW v, NEW o, NEW g
  PROVE  LET e == EnvOf(a, l, h, c, v, o, g) IN
         /\ e.answers = a /\ e.last = l /\ e.heard = h /\ e.cards = c /\ e.vars = v
         /\ e.over = o /\ e.log = g /\ e.signal = "go"
BY DEF EnvOf

LEMMA LoggedOf ==
  ASSUME NEW a, NEW l, NEW h, NEW c, NEW v, NEW o, NEW g, NEW event
  PROVE  Logged(EnvOf(a, l, h, c, v, o, g), event) = EnvOf(a, l, h, c, v, o, Append(g, event))
<1> DEFINE b == Append(g, event)
<1>1. Logged(EnvOf(a, l, h, c, v, o, g), event) = [EnvOf(a, l, h, c, v, o, g) EXCEPT !.log = b]
  BY EnvOfHas DEF Logged
<1> HIDE DEF b
<1> QED
  BY <1>1 DEF EnvOf, b

LEMMA SignalledOf ==
  ASSUME NEW a, NEW l, NEW h, NEW c, NEW v, NEW o, NEW g, NEW signal
  PROVE  LET e == Signalled(EnvOf(a, l, h, c, v, o, g), signal) IN
         e.signal = signal /\ e.log = g
BY DEF Signalled, EnvOf

LEMMA SignalledAs ==
  ASSUME NEW a, NEW l, NEW h, NEW c, NEW v, NEW o, NEW g, NEW signal
  PROVE  Signalled(EnvOf(a, l, h, c, v, o, g), signal) =
           [answers |-> a, last |-> l, heard |-> h, cards |-> c, vars |-> v, over |-> o,
            log |-> g, signal |-> signal]
BY DEF Signalled, EnvOf

LEMMA AssignedOf ==
  ASSUME NEW a, NEW l, NEW h, NEW c, NEW v, NEW o, NEW g, NEW x, NEW value
  PROVE  Assigned(x, EnvOf(a, l, h, c, v, o, g), value) =
           EnvOf(a, l, h, c, [v EXCEPT ![x.name] = value], o,
                 Append(g, <<"variable", x.id, value>>))
<1> DEFINE u == [v EXCEPT ![x.name] = value]
           event == <<"variable", x.id, value>>
<1>1. Assigned(x, EnvOf(a, l, h, c, v, o, g), value) =
        Logged([EnvOf(a, l, h, c, v, o, g) EXCEPT !.vars = u], event)
  BY EnvOfHas DEF Assigned
<1> HIDE DEF u, event
<1>2. [EnvOf(a, l, h, c, v, o, g) EXCEPT !.vars = u] = EnvOf(a, l, h, c, u, o, g)
  BY DEF EnvOf
<1> QED
  BY <1>1, <1>2, LoggedOf DEF u, event

LEMMA FirstOf ==
  ASSUME NEW a \in Result, NEW m \in Seq(Result)
  PROVE  LET b == <<a>> \o m IN b # <<>> /\ Head(b) = a /\ Tail(b) = m
<1> DEFINE b == <<a>> \o m
<1>1. b \in Seq(Result) /\ Len(b) = Len(m) + 1 /\ Len(m) \in Nat
  OBVIOUS
<1>2. b # <<>> /\ Head(b) = a
  OBVIOUS
<1>3. Tail(b) \in Seq(Result) /\ Len(Tail(b)) = Len(m)
  BY <1>1
<1>4. \A i \in 1..Len(m): Tail(b)[i] = m[i]
  OBVIOUS
<1>5. Tail(b) = m
  BY <1>3, <1>4
<1> QED
  BY <1>2, <1>5

\* An answer used up.
LEMMA UsedOf ==
  ASSUME NEW a \in Result, NEW m \in Seq(Result), NEW l, NEW h, NEW c, NEW v, NEW o, NEW g
  PROVE  LET e == EnvOf(<<a>> \o m, l, h, c, v, o, g) IN
         /\ e.answers # <<>> /\ Head(e.answers) = a
         /\ [e EXCEPT !.answers = Tail(@)] = EnvOf(m, l, h, c, v, o, g)
<1> DEFINE b == <<a>> \o m
           e == EnvOf(b, l, h, c, v, o, g)
<1>1. b # <<>> /\ Head(b) = a /\ Tail(b) = m
  BY FirstOf
<1> HIDE DEF b
<1>2. [e EXCEPT !.answers = Tail(@)] = [e EXCEPT !.answers = m]
  BY <1>1, EnvOfHas
<1>3. [e EXCEPT !.answers = m] = EnvOf(m, l, h, c, v, o, g)
  BY DEF EnvOf
<1>4. e.answers = b
  BY EnvOfHas
<1> QED
  BY <1>1, <1>2, <1>3, <1>4 DEF b

Suits(x, o) == x.local \in {"", o}

LEMMA AnsweredOf ==
  ASSUME NEW a \in Result, NEW m \in Seq(Result), NEW l, NEW h, NEW c, NEW v, NEW o, NEW g,
         NEW x, Suits(x, o)
  PROVE  LET e == Answered(x, EnvOf(<<a>> \o m, l, h, c, v, o, g))
             next == EnvOf(m, a, Latest(a, h), [c EXCEPT ![x.id] = a], v, o, g)
         IN  IF a.status \in BadStatus /\ ~x.ignore
             THEN e = Signalled(next, "failed")
             ELSE e = next
<1> DEFINE b == <<a>> \o m
           e == EnvOf(b, l, h, c, v, o, g)
           d == [c EXCEPT ![x.id] = a]
           s == IF a.status \in BadStatus /\ ~x.ignore THEN "failed" ELSE "go"
           w == Latest(a, h)
           next == EnvOf(m, a, w, d, v, o, g)
<1>1. b # <<>> /\ Head(b) = a /\ Tail(b) = m
  BY FirstOf
<1> HIDE DEF b
<1> HIDE DEF d, s, w
<1>2. e.answers = b /\ e.over = o /\ e.cards = c /\ e.heard = h
  BY DEF EnvOf
<1>3. Answered(x, e) = [e EXCEPT !.answers = m, !.last = a, !.cards[x.id] = a,
                                 !.heard = w, !.signal = s]
  <2> HIDE DEF e
  <2> QED
    BY <1>1, <1>2 DEF Answered, s, w, Latest, Suits
<1>4. Answered(x, e) = [e EXCEPT !.answers = m, !.last = a, !.cards = d,
                                 !.heard = w, !.signal = s]
  <2> HIDE DEF e
  <2> QED
    BY <1>2, <1>3 DEF d
<1>5. Answered(x, e) = [answers |-> m, last |-> a, heard |-> w, cards |-> d, vars |-> v,
                        over |-> o, log |-> g, signal |-> s]
  BY <1>4 DEF EnvOf
<1> HIDE DEF e
<1>6. CASE a.status \in BadStatus /\ ~x.ignore
  <2>1. s = "failed"
    BY <1>6 DEF s
  <2>2. Answered(x, e) = [answers |-> m, last |-> a, heard |-> w, cards |-> d,
                          vars |-> v, over |-> o, log |-> g, signal |-> "failed"]
    BY <1>5, <2>1
  <2>3. Signalled(next, "failed") =
          [answers |-> m, last |-> a, heard |-> w, cards |-> d, vars |-> v, over |-> o,
           log |-> g, signal |-> "failed"]
    BY SignalledAs
  <2> QED
    BY <1>6, <2>2, <2>3 DEF e, b, d, w
<1>7. CASE ~(a.status \in BadStatus /\ ~x.ignore)
  <2>1. s = "go"
    BY <1>7 DEF s
  <2>2. Answered(x, e) = next
    BY <1>5, <2>1 DEF EnvOf
  <2> QED
    BY <1>7, <2>2 DEF e, b, d, w
<1> QED
  BY <1>6, <1>7 DEF e, b, d, w

-----------------------------------------------------------------------------
(* The invariant.                                                          *)

Now(more) ==
  EnvOf(more, lastResult, lastResponse, cardResults, variables, transport, log)
Start(more) == IF control = "asked" THEN Answered(Card, Now(more)) ELSE Now(more)
ToCome == IF control \in {"asked", "sleep"} THEN Tail(Top.rest) ELSE Top.rest
Value(results) == Meant[Depth][program][FALSE][Fresh(results)]

Known ==
  /\ program \in Block[Depth] /\ transport \in Transport
  /\ lastResult \in Result /\ lastResponse \in Text
  /\ cardResults \in [Id -> Result]
  /\ variables \in [Name -> Text]
  /\ log \in Seq(Event) /\ answers \in Seq(Result)

Placed ==
  /\ verdict = "none"
  /\ Nested(stack)
  /\ control \in {"step", "card", "asked", "sleep", "round"}
  /\ control \in {"card", "asked", "sleep"} => Top.rest # <<>>
  /\ control = "round" => Top.rest = <<>>
  /\ control = "asked" => Card.kind = "command"

\* Whatever the answers still to come, the frames lead to what the sequence
\* means.
OnTheWay ==
  \A more \in Seq(Result): Ends(stack, ToCome, Start(more), Value(answers \o more))

Judged ==
  /\ Before(log, Value(answers).log)
  /\ verdict = "completed" =>
       Value(answers).signal = "go" /\ log = Value(answers).log
  /\ verdict = "failed" =>
       Value(answers).signal \in {"failed", "pending"} /\ log = Value(answers).log

MeaningInv == Known /\ IF control = "ended" THEN Judged ELSE Placed /\ OnTheWay

LEMMA NowIs ==
  ASSUME Known, NEW more \in Seq(Result)
  PROVE  /\ Now(more) \in Env /\ Now(more).signal = "go"
         /\ Now(more).answers = more /\ Now(more).log = log
         /\ Now(more).last = lastResult /\ Now(more).heard = lastResponse
         /\ Now(more).cards = cardResults
         /\ Now(more).vars = variables /\ Now(more).over = transport
<1>1. Now(more) \in Env
  BY EnvOfIs DEF Known, Now
<1> QED
  BY <1>1 DEF Now, EnvOf

LEMMA TopIs ==
  ASSUME NEW s, Nested(s)
  PROVE  Head(s) = s[1]
<1>1. PICK S: s \in Seq(S)
  BY DEF Nested
<1> QED
  BY <1>1, InnermostIs

LEMMA PlacedIs ==
  ASSUME Placed
  PROVE  /\ Nested(stack) /\ Top = stack[1]
         /\ Top.rest \in Block[Level(stack, 1)]
         /\ ToCome \in Block[Level(stack, 1)]
<1>1. Nested(stack) /\ Top = stack[1]
  BY TopIs DEF Placed, Top
<1>2. Top.rest \in Block[Level(stack, 1)]
  BY <1>1, InnermostIs
<1>3. Top.rest # <<>> => Tail(Top.rest) \in Block[Level(stack, 1)]
  BY <1>1, InnermostIs, CardsAfter
<1> QED
  BY <1>1, <1>2, <1>3 DEF Placed, ToCome

\* The card the innermost frame is at.
LEMMA CardAt ==
  ASSUME Placed, Top.rest # <<>>
  PROVE  /\ Card \in CardWith(Block[Level(stack, 1) - 1])
         /\ Level(stack, 1) - 1 \in 0..Depth /\ Level(stack, 1) \in 0..Depth
         /\ Tail(Top.rest) \in Block[Level(stack, 1)]
         /\ Card.id \in Id /\ Card.card \in Id /\ Card.value \in Text
         /\ Card.name \in Name \cup {NoName} /\ Card.count \in Nat
         /\ Card.yes \in Block[Level(stack, 1) - 1]
         /\ Card.no \in Block[Level(stack, 1) - 1]
<1> DEFINE n == Level(stack, 1)
           b == Top.rest
<1>1. n \in 0..Depth /\ b \in Block[n] /\ b # <<>> /\ Card = Head(b)
  BY PlacedIs, InnermostIs DEF Card
<1> HIDE DEF n, b
<1>2. Card \in CardWith(Block[n - 1]) /\ n - 1 \in 0..Depth /\ Tail(b) \in Block[n]
  BY <1>1, InBlock
<1>3. /\ Card.id \in Id /\ Card.card \in Id /\ Card.value \in Text
      /\ Card.name \in Name \cup {NoName} /\ Card.count \in Nat
      /\ Card.yes \in Block[n - 1] /\ Card.no \in Block[n - 1]
  BY <1>2, CardIs
<1> QED
  BY <1>1, <1>2, <1>3 DEF n, b

LEMMA StartIs ==
  ASSUME Known, NEW more \in Seq(Result)
  PROVE  Extends(Start(more), Now(more))
<1>1. Now(more) \in Env
  BY NowIs
<1> QED
  BY <1>1, AnsweredExtends, ExtendsItself DEF Start

LEMMA AppendNothing ==
  ASSUME NEW S, NEW s \in Seq(S) PROVE s \o <<>> = s /\ <<>> \o s = s /\ <<>> \in Seq(S)
OBVIOUS

LEMMA NoAnswers == <<>> \in Seq(Result)
OBVIOUS

LEMMA AppendFirst ==
  ASSUME NEW S, NEW s \in Seq(S), NEW x \in S, NEW t \in Seq(S)
  PROVE  /\ Append(s, x) \o t = s \o (<<x>> \o t)
         /\ <<x>> \o t \in Seq(S) /\ Append(s, x) \in Seq(S)
<1> DEFINE a == Append(s, x) \o t
           b == s \o (<<x>> \o t)
<1>1. Append(s, x) \in Seq(S) /\ <<x>> \o t \in Seq(S)
  OBVIOUS
<1>2. a \in Seq(S) /\ b \in Seq(S) /\ Len(a) = Len(b)
  OBVIOUS
<1>3. \A i \in 1..Len(a): a[i] = b[i]
  OBVIOUS
<1>4. a = b
  BY <1>2, <1>3
<1> QED
  BY <1>1, <1>4

\* What was done so far is part of what the sequence means.
LEMMA LogIsMeant ==
  ASSUME Known, Placed, OnTheWay
  PROVE  Before(log, Value(answers).log)
<1> DEFINE e == Start(<<>>)
           v == Value(answers)
<1>1. answers \o <<>> = answers /\ <<>> \in Seq(Result)
  BY AppendNothing DEF Known
<1>2. Extends(e, Now(<<>>)) /\ Now(<<>>) \in Env /\ Now(<<>>).log = log
  BY <1>1, StartIs, NowIs
<1>3. Ends(stack, ToCome, e, v)
  BY <1>1 DEF OnTheWay
<1> HIDE DEF e, v
<1>4. Extends(v, e)
  BY <1>2, <1>3, PlacedIs, EndsExtends DEF Extends
<1>5. Extends(v, Now(<<>>))
  BY <1>2, <1>4, ExtendsChain
<1> QED
  BY <1>2, <1>5 DEF Extends, v

LEMMA PrefixIs ==
  ASSUME NEW S, NEW s \in Seq(S), NEW t \in Seq(S), Before(s, t)
  PROVE  IsPrefix(s, t)
<1>1. Len(s) \in Nat /\ Len(t) \in Nat /\ Len(s) <= Len(t) /\ \A i \in 1..Len(s): t[i] = s[i]
  BY DEF Before
<1>2. SubSeq(s, 1, Len(s)) = s
  OBVIOUS
<1>3. SubSeq(t, 1, Len(s)) \in Seq(S) /\ Len(SubSeq(t, 1, Len(s))) = Len(s)
  BY <1>1
<1>4. \A i \in 1..Len(s): SubSeq(t, 1, Len(s))[i] = s[i]
  BY <1>1
<1>5. SubSeq(t, 1, Len(s)) = s
  BY <1>3, <1>4
<1> QED
  BY <1>1, <1>2, <1>5 DEF IsPrefix

LEMMA FreshIs ==
  ASSUME Known, NEW results \in Seq(Result)
  PROVE  Fresh(results) \in Env /\ Value(results) \in Env
<1>1. NoResult \in Result
  BY DEF Result
<1> DEFINE c == [i \in Id |-> NoResult]
           v == [n \in Name |-> "none"]
<1>2. c \in [Id -> Result]
  BY <1>1
<1>3. v \in [Name -> Text]
  BY ParametersHold
<1>4. <<>> \in Seq(Event)
  OBVIOUS
<1> HIDE DEF c, v
<1>5. EnvOf(results, NoResult, "", c, v, transport, <<>>) \in Env
  BY <1>1, <1>2, <1>3, <1>4, EnvOfIs, EngineAssumption DEF Known
<1>6. Fresh(results) = EnvOf(results, NoResult, "", c, v, transport, <<>>)
  BY DEF Fresh, EnvOf, c, v
<1> DEFINE e == Fresh(results)
<1>7. e \in Env
  BY <1>5, <1>6
<1> HIDE DEF e
<1>8. Depth \in 0..Depth /\ FALSE \in BOOLEAN /\ program \in Block[Depth]
  BY ParametersHold DEF Known
<1>9. Extends(Meant[Depth][program][FALSE][e], e)
  BY <1>7, <1>8, MeantAdds DEF Adds
<1> QED
  BY <1>7, <1>9 DEF e, Extends, Value

LEMMA InvGivesMeaning == MeaningInv => FollowsTheSequence
<1> SUFFICES ASSUME MeaningInv PROVE FollowsTheSequence
  OBVIOUS
<1>1. Known
  BY DEF MeaningInv
<1> DEFINE v == Value(answers)
<1>2. v.log \in Seq(Event) /\ log \in Seq(Event)
  BY <1>1, FreshIs, EnvIs DEF Known
<1>3. v = Meaning
  BY DEF Meaning, Value
<1>4. Before(log, v.log)
  BY LogIsMeant DEF MeaningInv, Judged
<1>5. IsPrefix(log, v.log)
  BY <1>2, <1>4, PrefixIs
<1>6. CASE control = "ended"
  BY <1>3, <1>5, <1>6 DEF FollowsTheSequence, MeaningInv, Judged
<1>7. CASE control # "ended"
  BY <1>3, <1>5, <1>7 DEF FollowsTheSequence, MeaningInv, Placed
<1> QED
  BY <1>6, <1>7

-----------------------------------------------------------------------------
(* The initial state.                                                      *)

LEMMA MeaningInit == Init => MeaningInv
<1> SUFFICES ASSUME Init PROVE MeaningInv
  OBVIOUS
<1> DEFINE f == [kind |-> "root", rest |-> program, round |-> 0]
<1>1. Known
  <2>1. PICK r \in Request: program = r.steps /\ transport = r.transport
    BY DEF Init
  <2>2. program \in Block[Depth] /\ transport \in Transport
    BY <2>1, ParametersHold
  <2>3. NoResult \in Result
    BY DEF Result
  <2>4. lastResult \in Result /\ lastResponse \in Text /\ cardResults \in [Id -> Result]
    BY <2>3, EngineAssumption DEF Init
  <2>5. variables \in [Name -> Text]
    BY ParametersHold DEF Init
  <2>6. log \in Seq(Event) /\ answers \in Seq(Result)
    <3>1. log = <<>> /\ answers = <<>>
      BY Zenon DEF Init
    <3> QED
      BY <3>1
  <2> QED
    BY <2>2, <2>4, <2>5, <2>6 DEF Known
<1>2. stack = <<f>>
  BY DEF Init
<1>3. f.kind = "root" /\ f.rest = program
  OBVIOUS
<1> HIDE DEF f
<1>4. stack \in Seq({f}) /\ Len(stack) = 1 /\ stack[1] = f /\ Top = f
  BY <1>2 DEF Top
<1>5. Depth \in Nat /\ program \in Block[Depth]
  BY <1>1, ParametersHold DEF Known
<1>6. Level(stack, 1) = Depth /\ Within(stack, 1) = FALSE
  BY <1>3, <1>4, <1>5 DEF Level, Within
<1>7. Nested(stack)
  <2>1. NestedAt(stack, 1)
    BY <1>3, <1>4, <1>5, <1>6 DEF NestedAt
  <2> QED
    BY <1>4, <1>5, <2>1 DEF Nested
<1>8. control = "step" /\ verdict = "none"
  BY DEF Init
<1>9. Placed
  BY <1>7, <1>8 DEF Placed
<1>10. OnTheWay
  <2> SUFFICES ASSUME NEW more \in Seq(Result)
               PROVE  Ends(stack, ToCome, Start(more), Value(answers \o more))
    BY DEF OnTheWay
  <2>1. answers \o more = more
    <3>1. answers = <<>>
      BY DEF Init
    <3> QED
      BY <3>1, AppendNothing
  <2>2. ToCome = program /\ Start(more) = Now(more)
    BY <1>3, <1>4, <1>8 DEF ToCome, Start
  <2>3. Now(more) = Fresh(more)
    BY DEF Init, Now, EnvOf, Fresh
  <2>4. Closed(stack, 1, program, Fresh(more)) = Value(more)
    BY <1>3, <1>4, <1>6 DEF Closed, ClosedAs, Value
  <2> DEFINE v == Value(more)
             F == [i \in {1} |-> v]
  <2>5. F[1] = v
    OBVIOUS
  <2> HIDE DEF v, F
  <2>6. Chain(F, stack)
    BY <1>4 DEF Chain
  <2>7. Outer(stack, v, v)
    BY <1>4, <2>5, <2>6 DEF Outer
  <2> QED
    BY <2>1, <2>2, <2>3, <2>4, <2>7 DEF Ends, v
<1> QED
  BY <1>1, <1>8, <1>9, <1>10 DEF MeaningInv

-----------------------------------------------------------------------------
(* The steps, by what they do to the frames.                               *)

\* A step that only moves on in the same place.
LEMMA Stays ==
  ASSUME MeaningInv, control # "ended",
         UNCHANGED <<given, stack, data, verdict, log, answers>>,
         control' # "ended", Placed',
         ToCome' = ToCome,
         control # "asked", control' # "asked"
  PROVE  MeaningInv'
<1>1. Known'
  BY DEF MeaningInv, Known, given, data
<1>2. ASSUME NEW more \in Seq(Result)
      PROVE  Ends(stack, ToCome, Start(more), Value(answers \o more))'
  <2>1. Ends(stack, ToCome, Start(more), Value(answers \o more))
    BY DEF MeaningInv, OnTheWay
  <2>2. Start(more)' = Start(more)
    BY DEF Start, Now, given, data
  <2>3. Value(answers \o more)' = Value(answers \o more)
    BY DEF Value, Fresh, given
  <2>4. stack' = stack
    OBVIOUS
  <2> QED
    BY <2>1, <2>2, <2>3, <2>4
<1> QED
  BY <1>1, <1>2 DEF MeaningInv, OnTheWay

\* A card done, whatever it made of the environment.
LEMMA CardIsDone ==
  ASSUME MeaningInv, DepthInv, control # "ended", Top.rest # <<>>, CardDone,
         UNCHANGED <<given, verdict>>, Known',
         \A more \in Seq(Result):
           Ends(stack, Tail(Top.rest), Now(more)', Value(answers \o more)')
  PROVE  MeaningInv'
<1>1. Placed /\ Shape(stack) /\ Nested(stack) /\ Top = stack[1]
  BY PlacedIs DEF MeaningInv, DepthInv
<1> DEFINE t == Advanced(stack)
<1>2. stack' = t /\ control' = "step"
  BY DEF CardDone
<1>3. ASSUME NEW more \in Seq(Result)
      PROVE  Nested(t) /\ Ends(t, t[1].rest, Now(more)', Value(answers \o more)')
  <2> DEFINE e == Now(more)'
             r == Value(answers \o more)'
  <2>1. Ends(stack, Tail(stack[1].rest), e, r)
    BY <1>1
  <2> HIDE DEF e, r
  <2>2. Nested(t) /\ Ends(t, t[1].rest, e, r)
    BY <1>1, <2>1, EndsAdvanced
  <2> QED
    BY <2>2 DEF e, r
<1> HIDE DEF t
<1>4. Nested(t)
  BY <1>3, NoAnswers
<1>5. Placed'
  BY <1>1, <1>2, <1>4 DEF Placed
<1>6. ToCome' = t[1].rest
  BY <1>2, <1>4, TopIs DEF ToCome, Top
<1>7. ASSUME NEW more \in Seq(Result)
      PROVE  Ends(stack, ToCome, Start(more), Value(answers \o more))'
  BY <1>2, <1>3, <1>6, <1>7 DEF Start
<1> QED
  BY <1>2, <1>5, <1>7 DEF MeaningInv, OnTheWay

\* A failure that the sequence means, or that comes where an answer is awaited.
LEMMA FailureIsMeant ==
  ASSUME UNCHANGED <<given, log>>, Known', verdict' = "failed", control' = "ended",
         NEW v, v = Value(answers)', v.log = log, v.signal \in {"failed", "pending"}
  PROVE  MeaningInv'
<1>1. log' = log /\ Before(log, log)
  BY BeforeItself DEF Known
<1>2. Judged'
  BY <1>1 DEF Judged
<1> QED
  BY <1>2 DEF MeaningInv

\* The card under way fails.
LEMMA CardFails ==
  ASSUME MeaningInv, control = "card",
         Unwind("failed"), UNCHANGED <<given, data, history>>,
         AfterCard(Card, Now(<<>>), Within(stack, 1), Meant[Level(stack, 1) - 1]) =
           Signalled(Now(<<>>), "failed")
  PROVE  MeaningInv'
<1>1. Known /\ Placed /\ OnTheWay
  BY DEF MeaningInv
<1>2. Nested(stack) /\ Top.rest \in Block[Level(stack, 1)] /\ Top.rest # <<>>
  BY <1>1, PlacedIs DEF Placed
<1> DEFINE b == Top.rest
           e == Now(<<>>)
           v == Value(answers)
           a == AfterCard(Card, e, Within(stack, 1), Meant[Level(stack, 1) - 1])
<1>3. e \in Env /\ e.signal = "go" /\ e.log = log
  BY <1>1, NowIs, NoAnswers
<1>4. Ends(stack, b, e, v)
  <2>1. answers \o <<>> = answers /\ <<>> \in Seq(Result)
    BY <1>1, AppendNothing DEF Known
  <2>2. ToCome = Top.rest /\ Start(<<>>) = Now(<<>>)
    BY DEF ToCome, Start
  <2> QED
    BY <1>1, <2>1, <2>2 DEF OnTheWay
<1>5. b \in Block[Level(stack, 1)] /\ b # <<>> /\ Card = Head(b)
  BY <1>2 DEF Card
<1>6. Tail(b) \in Block[Level(stack, 1)]
  BY <1>1, <1>2, CardAt
<1> DEFINE c == Tail(b)
<1> HIDE DEF b, e, v
<1>7. a \in Env /\ Ends(stack, c, a, v)
  BY <1>2, <1>3, <1>4, <1>5, EndsNext
<1>8. a = Signalled(e, "failed")
  BY DEF e
<1>9. a.signal = "failed" /\ a.log = log
  BY <1>3, <1>8, SignalledIs
<1> HIDE DEF a, c
<1>10. v = a
  BY <1>2, <1>6, <1>7, <1>9, EndsFailed DEF c
<1>11. Known' /\ v = Value(answers)'
  BY <1>1 DEF Known, given, data, history, v, Value, Fresh
<1> QED
  BY <1>9, <1>10, <1>11, FailureIsMeant DEF Unwind, history

LEMMA CardRuns ==
  ASSUME MeaningInv, control = "card", NEW more \in Seq(Result)
  PROVE  LET a == AfterCard(Card, Now(more), Within(stack, 1), Meant[Level(stack, 1) - 1])
         IN  a \in Env /\ Ends(stack, Tail(Top.rest), a, Value(answers \o more))
<1>1. Known /\ Placed /\ OnTheWay
  BY DEF MeaningInv
<1>2. Nested(stack) /\ Top.rest \in Block[Level(stack, 1)] /\ Top.rest # <<>>
  BY <1>1, PlacedIs DEF Placed
<1> DEFINE b == Top.rest
           e == Now(more)
           v == Value(answers \o more)
<1>3. e \in Env /\ e.signal = "go"
  BY <1>1, NowIs
<1>4. Ends(stack, b, e, v)
  <2>1. ToCome = Top.rest /\ Start(more) = Now(more)
    BY DEF ToCome, Start
  <2> QED
    BY <1>1, <2>1 DEF OnTheWay
<1>5. b \in Block[Level(stack, 1)] /\ b # <<>> /\ Card = Head(b)
  BY <1>2 DEF Card
<1> HIDE DEF b, e, v
<1>6. LET a == AfterCard(Card, e, Within(stack, 1), Meant[Level(stack, 1) - 1])
      IN  a \in Env /\ Ends(stack, Tail(b), a, v)
  BY <1>2, <1>3, <1>4, <1>5, EndsNext
<1> QED
  BY <1>6 DEF b, e, v

-----------------------------------------------------------------------------
(* The actions.                                                            *)

LEMMA BeginCardMeans == ASSUME MeaningInv, BeginCard PROVE MeaningInv'
<1>1. Placed /\ control # "ended"
  BY DEF MeaningInv, BeginCard
<1>2. Placed'
  BY <1>1 DEF Placed, BeginCard, Top
<1>3. ToCome' = ToCome
  BY DEF ToCome, Top, BeginCard
<1> QED
  BY <1>1, <1>2, <1>3, Stays DEF BeginCard, history

LEMMA BeginDelayMeans == ASSUME MeaningInv, BeginDelay PROVE MeaningInv'
<1>1. Known /\ Placed /\ control = "card" /\ Card.kind = "delay" /\ control' = "sleep"
  BY DEF MeaningInv, BeginDelay, At
<1>2. UNCHANGED <<given, stack, data, verdict, log, answers>>
  BY DEF BeginDelay, history
<1>3. Known'
  BY <1>1, <1>2 DEF Known, given, data
<1>4. Placed'
  BY <1>1, <1>2 DEF Placed, Top
<1>5. ASSUME NEW more \in Seq(Result)
      PROVE  Ends(stack, ToCome, Start(more), Value(answers \o more))'
  <2>1. Ends(stack, Tail(Top.rest), Now(more), Value(answers \o more))
    <3>1. AfterCard(Card, Now(more), Within(stack, 1), Meant[Level(stack, 1) - 1]) = Now(more)
      BY <1>1 DEF AfterCard
    <3> QED
      BY <1>1, <3>1, CardRuns
  <2>2. Start(more)' = Now(more)
    BY <1>1, <1>2 DEF Start, Now, given, data
  <2>3. ToCome' = Tail(Top.rest)
    BY <1>1, <1>2 DEF ToCome, Top
  <2>4. Value(answers \o more)' = Value(answers \o more)
    BY <1>2 DEF Value, Fresh, given
  <2> QED
    BY <1>2, <2>1, <2>2, <2>3, <2>4
<1> QED
  BY <1>1, <1>3, <1>4, <1>5 DEF MeaningInv, OnTheWay

LEMMA NoteMeans == ASSUME MeaningInv, DepthInv, Note PROVE MeaningInv'
<1>1. Known /\ Placed /\ control = "card" /\ Card.kind = "note" /\ CardDone
  BY DEF MeaningInv, Note, At
<1>2. UNCHANGED <<given, data, verdict, log, answers>>
  BY DEF Note, history
<1>3. Known'
  BY <1>1, <1>2 DEF Known, given, data
<1>4. ASSUME NEW more \in Seq(Result)
      PROVE  Ends(stack, Tail(Top.rest), Now(more)', Value(answers \o more)')
  <2>1. AfterCard(Card, Now(more), Within(stack, 1), Meant[Level(stack, 1) - 1]) = Now(more)
    BY <1>1 DEF AfterCard
  <2>2. Now(more)' = Now(more)
    BY <1>2 DEF Now, given, data
  <2>3. Value(answers \o more)' = Value(answers \o more)
    BY <1>2 DEF Value, Fresh, given
  <2> QED
    BY <1>1, <2>1, <2>2, <2>3, CardRuns
<1>5. Top.rest # <<>>
  BY <1>1 DEF Placed
<1> QED
  BY <1>1, <1>2, <1>3, <1>4, <1>5, CardIsDone

LEMMA SleepMeans == ASSUME MeaningInv, DepthInv, Sleep PROVE MeaningInv'
<1>1. Known /\ Placed /\ OnTheWay /\ control = "sleep"
  BY DEF MeaningInv, Sleep
<1>2. UNCHANGED <<given, data, verdict, log, answers>>
  BY DEF Sleep, history
<1>3. CASE UNCHANGED <<stack, control>>
  <2>1. Placed' /\ ToCome' = ToCome
    BY <1>1, <1>2, <1>3 DEF Placed, ToCome, Top, Card
  <2> QED
    BY <1>1, <1>2, <1>3, <2>1, Stays
<1>4. CASE CardDone
  <2>1. Known'
    BY <1>1, <1>2 DEF Known, given, data
  <2>2. ASSUME NEW more \in Seq(Result)
        PROVE  Ends(stack, Tail(Top.rest), Now(more)', Value(answers \o more)')
    <3>1. ToCome = Tail(Top.rest) /\ Start(more) = Now(more)
      BY <1>1 DEF ToCome, Start
    <3>2. Now(more)' = Now(more)
      BY <1>2 DEF Now, given, data
    <3>3. Value(answers \o more)' = Value(answers \o more)
      BY <1>2 DEF Value, Fresh, given
    <3> QED
      BY <1>1, <3>1, <3>2, <3>3 DEF OnTheWay
  <2>3. Top.rest # <<>>
    BY <1>1 DEF Placed
  <2> QED
    BY <1>1, <1>2, <1>4, <2>1, <2>2, <2>3, CardIsDone
<1> QED
  BY <1>3, <1>4 DEF Sleep

LEMMA StopSeenMeans == ASSUME MeaningInv, StopSeen PROVE MeaningInv'
<1>1. Known /\ Placed /\ OnTheWay
  BY DEF MeaningInv, StopSeen
<1>2. /\ control' = "ended" /\ verdict' = "stopped"
      /\ UNCHANGED <<given, data, log, answers>>
  BY DEF StopSeen, Raise, Unwind, history
<1>3. Known' /\ Value(answers)' = Value(answers)
  BY <1>1, <1>2 DEF Known, given, data, Value, Fresh
<1>4. Judged'
  BY <1>1, <1>2, <1>3, LogIsMeant DEF Judged
<1> QED
  BY <1>2, <1>3, <1>4 DEF MeaningInv

LEMMA EndFrameMeans == ASSUME MeaningInv, DepthInv, EndFrame PROVE MeaningInv'
<1>1. /\ Known /\ Placed /\ OnTheWay /\ Shape(stack) /\ control = "step" /\ Top.rest = <<>>
      /\ UNCHANGED <<given, data, log, answers>>
  BY DEF MeaningInv, DepthInv, EndFrame, history
<1>2. Nested(stack) /\ Top = stack[1]
  BY <1>1, PlacedIs
<1>3. Known'
  BY <1>1 DEF Known, given, data
<1>4. ASSUME NEW more \in Seq(Result)
      PROVE  /\ Ends(stack, <<>>, Now(more), Value(answers \o more))
             /\ Now(more)' = Now(more) /\ Now(more) \in Env
             /\ Now(more).signal = "go" /\ Now(more).log = log
             /\ Value(answers \o more)' = Value(answers \o more)
  <2>1. ToCome = <<>> /\ Start(more) = Now(more)
    BY <1>1 DEF ToCome, Start
  <2>2. Now(more)' = Now(more)
    BY <1>1 DEF Now, given, data
  <2>3. Value(answers \o more)' = Value(answers \o more)
    BY <1>1 DEF Value, Fresh, given
  <2> QED
    BY <1>1, <2>1, <2>2, <2>3, NowIs DEF OnTheWay
<1>5. CASE Top.kind = "root"
  <2> DEFINE e == Now(<<>>)
             v == Value(answers)
  <2>1. answers \o <<>> = answers /\ <<>> \in Seq(Result)
    BY <1>1, AppendNothing DEF Known
  <2>2. Ends(stack, <<>>, e, v) /\ e \in Env /\ e.signal = "go" /\ e.log = log
    BY <1>4, <2>1
  <2> HIDE DEF e, v
  <2>3. v = e
    BY <1>1, <1>2, <1>5, <2>2, EndsAtRoot
  <2>4. verdict' = "completed" /\ control' = "ended" /\ log' = log /\ answers' = answers
    BY <1>1, <1>5 DEF EndFrame, Unwind
  <2>5. Value(answers)' = v
    BY <1>1 DEF Value, Fresh, given, v
  <2>6. Before(log, log)
    BY <1>1, BeforeItself DEF Known
  <2>7. Judged'
    BY <2>2, <2>3, <2>4, <2>5, <2>6 DEF Judged
  <2> QED
    BY <1>3, <2>4, <2>7 DEF MeaningInv
<1>6. CASE Top.kind = "branch"
  <2> DEFINE t == Advanced(Tail(stack))
  <2>1. stack' = t /\ control' = "step" /\ verdict' = verdict
    BY <1>1, <1>6 DEF EndFrame
  <2>2. ASSUME NEW more \in Seq(Result)
        PROVE  Nested(t) /\ Ends(t, t[1].rest, Now(more), Value(answers \o more))
    <3> DEFINE e == Now(more)
               v == Value(answers \o more)
    <3>1. Ends(stack, <<>>, e, v) /\ e \in Env /\ e.signal = "go"
      BY <1>4
    <3>2. stack[1].kind # "root" /\ stack[1].kind # "loop"
      BY <1>2, <1>6
    <3> HIDE DEF e, v
    <3>3. Nested(t) /\ Ends(t, t[1].rest, e, v)
      BY <1>1, <1>2, <3>1, <3>2, EndsLeft
    <3> QED
      BY <3>3 DEF e, v
  <2> HIDE DEF t
  <2>3. Nested(t)
    BY <2>2, NoAnswers
  <2>4. Placed' /\ ToCome' = t[1].rest
    BY <1>1, <2>1, <2>3, TopIs DEF Placed, ToCome, Top
  <2>5. ASSUME NEW more \in Seq(Result)
        PROVE  Ends(stack, ToCome, Start(more), Value(answers \o more))'
    BY <1>4, <2>1, <2>2, <2>4 DEF Start
  <2> QED
    BY <1>3, <2>1, <2>4, <2>5 DEF MeaningInv, OnTheWay
<1>7. CASE Top.kind = "loop"
  <2>1. stack' = stack /\ control' = "round" /\ verdict' = verdict
    BY <1>1, <1>7 DEF EndFrame
  <2>2. Placed' /\ ToCome' = ToCome
    BY <1>1, <2>1 DEF Placed, ToCome, Top
  <2> QED
    BY <1>1, <2>1, <2>2, Stays
<1> QED
  BY <1>5, <1>6, <1>7 DEF EndFrame

LEMMA SendCommandMeans == ASSUME MeaningInv, SendCommand PROVE MeaningInv'
<1>1. /\ Known /\ Placed /\ control = "card" /\ Card.kind = "command" /\ control' = "asked"
      /\ Resolved(Card) /\ Top.rest # <<>>
  BY DEF MeaningInv, SendCommand, At, Placed
<1> DEFINE event == <<"tx", Card.id, Argument(Card)>>
<1>2. UNCHANGED <<given, stack, data, verdict, answers>> /\ log' = Append(log, event)
  BY DEF SendCommand
<1>3. Card.id \in Id /\ Card.name \in Name \cup {NoName}
  BY <1>1, CardAt
<1>4. Argument(Card) \in Text
  BY <1>1, <1>3, ParametersHold DEF Argument, Known
<1>5. event \in Event
  BY <1>3, <1>4, EventIs
<1> HIDE DEF event
<1>6. Known'
  <2>1. log' \in Seq(Event)
    BY <1>1, <1>2, <1>5 DEF Known
  <2> QED
    BY <1>1, <1>2, <2>1 DEF Known, given, data
<1>7. Placed'
  BY <1>1, <1>2 DEF Placed, Top, Card
<1>8. ASSUME NEW more \in Seq(Result)
      PROVE  Ends(stack, ToCome, Start(more), Value(answers \o more))'
  <2>1. Now(more)' = Logged(Now(more), event)
    BY <1>2, LoggedOf DEF Now, given, data
  <2>2. Card' = Card /\ Start(more)' = Answered(Card, Logged(Now(more), event))
    BY <1>1, <1>2, <2>1 DEF Start, Card, Top
  <2>3. AfterCommand(Card, Now(more)) = Answered(Card, Logged(Now(more), event))
    <3>1. CASE Card.name = NoName
      BY <3>1 DEF AfterCommand, event, Argument
    <3>2. CASE Card.name # NoName
      <4>1. variables[Card.name] # "none" /\ Now(more).vars = variables
        BY <1>1, <3>2, NowIs DEF Resolved
      <4> QED
        BY <3>2, <4>1 DEF AfterCommand, event, Argument
    <3> QED
      BY <3>1, <3>2
  <2>4. AfterCard(Card, Now(more), Within(stack, 1), Meant[Level(stack, 1) - 1])
          = Start(more)'
    BY <1>1, <2>2, <2>3 DEF AfterCard
  <2>5. Ends(stack, Tail(Top.rest), Start(more)', Value(answers \o more))
    BY <1>1, <2>4, CardRuns
  <2>6. ToCome' = Tail(Top.rest)
    BY <1>1, <1>2 DEF ToCome, Top
  <2>7. Value(answers \o more)' = Value(answers \o more)
    BY <1>2 DEF Value, Fresh, given
  <2> QED
    BY <1>2, <2>5, <2>6, <2>7
<1> QED
  BY <1>1, <1>6, <1>7, <1>8 DEF MeaningInv, OnTheWay

LEMMA MissingVariableMeans == ASSUME MeaningInv, MissingVariable PROVE MeaningInv'
<1>1. /\ Known /\ Placed /\ control = "card" /\ Card.kind = "command" /\ ~Resolved(Card)
  BY DEF MeaningInv, MissingVariable, At
<1>2. Unwind("failed") /\ UNCHANGED <<given, data, history>>
  BY DEF MissingVariable, Raise
<1>3. Now(<<>>).vars = variables
  BY <1>1, NowIs, NoAnswers
<1>4. AfterCard(Card, Now(<<>>), Within(stack, 1), Meant[Level(stack, 1) - 1]) =
        Signalled(Now(<<>>), "failed")
  BY <1>1, <1>3 DEF AfterCard, AfterCommand, Resolved
<1> QED
  BY <1>1, <1>2, <1>4, CardFails

LEMMA SendFailsMeans == ASSUME MeaningInv, SendFails PROVE MeaningInv'
<1>1. Known /\ Placed /\ OnTheWay /\ control = "asked"
  BY DEF MeaningInv, SendFails
<1>2. /\ verdict' = "failed" /\ control' = "ended"
      /\ UNCHANGED <<given, data, log, answers>>
  BY DEF SendFails, Raise, Unwind, history
<1>3. Known' /\ Value(answers)' = Value(answers)
  BY <1>1, <1>2 DEF Known, given, data, Value, Fresh
<1> DEFINE e == Start(<<>>)
           v == Value(answers)
<1>4. Ends(stack, ToCome, e, v)
  <2>1. answers \o <<>> = answers /\ <<>> \in Seq(Result)
    BY <1>1, AppendNothing DEF Known
  <2> QED
    BY <1>1, <2>1 DEF OnTheWay
<1>5. e = Signalled(Now(<<>>), "failed") \/ e = Signalled(Now(<<>>), "pending")
  <2>1. Now(<<>>).answers = <<>>
    BY <1>1, NowIs, NoAnswers
  <2> QED
    BY <1>1, <2>1 DEF Start, Answered
<1>6. Now(<<>>) \in Env /\ Now(<<>>).log = log
  BY <1>1, NowIs, NoAnswers
<1>7. e \in Env /\ e.signal \in {"failed", "pending"} /\ e.log = log
  BY <1>5, <1>6, SignalledIs DEF Extends
<1> HIDE DEF e, v
<1>8. v = e
  BY <1>1, <1>4, <1>7, PlacedIs, EndsFailed
<1>9. v = Value(answers)'
  BY <1>3 DEF v
<1> QED
  BY <1>2, <1>3, <1>7, <1>8, <1>9, FailureIsMeant

LEMMA AnswerMeans ==
  ASSUME MeaningInv, DepthInv, NEW result \in DeviceResult \cup {Unheard, Switched},
         Answer(result)
  PROVE  MeaningInv'
<1>1. /\ Known /\ Placed /\ OnTheWay /\ control = "asked" /\ Top.rest # <<>>
      /\ result \in Results(Card) /\ answers' = Append(answers, result)
      /\ lastResult' = result /\ lastResponse' = Latest(result, lastResponse)
      /\ cardResults' = [cardResults EXCEPT ![Card.id] = result]
      /\ variables' = variables /\ UNCHANGED <<given, log>>
  BY DEF MeaningInv, Answer, Placed, Remember, Latest
<1>2. result \in Result /\ Card.id \in Id
  BY <1>1, CardAt DEF Result
<1>3. Suits(Card, transport)
  BY <1>1 DEF Results, Suits
<1>4. Known'
  <2>1. answers' \in Seq(Result)
    BY <1>1, <1>2 DEF Known
  <2>2. cardResults' \in [Id -> Result]
    BY <1>1, <1>2 DEF Known
  <2>3. lastResponse' \in Text
    BY <1>1, <1>2, ResultIs DEF Known, Latest
  <2> QED
    BY <1>1, <1>2, <2>1, <2>2, <2>3 DEF Known, given
<1>5. ASSUME NEW more \in Seq(Result)
      PROVE  /\ Ends(stack, Tail(Top.rest),
                     IF Fatal(result) THEN Signalled(Now(more)', "failed") ELSE Now(more)',
                     Value(answers \o more)')
             /\ Now(more)' \in Env /\ Now(more)'.log = log
  <2> DEFINE m == <<result>> \o more
  <2>1. answers' \o more = answers \o m /\ m \in Seq(Result)
    BY <1>1, <1>2, AppendFirst DEF Known
  <2>2. Ends(stack, ToCome, Start(m), Value(answers \o m))
    BY <1>1, <2>1 DEF OnTheWay
  <2>3. ToCome = Tail(Top.rest) /\ Start(m) = Answered(Card, Now(m))
    BY <1>1 DEF ToCome, Start
  <2>4. Start(m) = IF Fatal(result) THEN Signalled(Now(more)', "failed") ELSE Now(more)'
    <3>1. Now(more)' = EnvOf(more, result, Latest(result, lastResponse),
                             [cardResults EXCEPT ![Card.id] = result], variables,
                             transport, log)
      BY <1>1 DEF Now, given
    <3> QED
      BY <1>2, <1>3, <2>3, <3>1, AnsweredOf DEF Now, Fatal
  <2>5. Value(answers \o more)' = Value(answers \o m)
    BY <1>1, <2>1 DEF Value, Fresh, given
  <2>6. Now(more)' \in Env /\ Now(more)'.log = log
    <3>1. Now(more)' = EnvOf(more, lastResult', lastResponse', cardResults', variables',
                             transport', log')
      BY DEF Now
    <3>2. EnvOf(more, lastResult', lastResponse', cardResults', variables', transport',
                log') \in Env
      BY <1>4, EnvOfIs DEF Known
    <3> QED
      BY <1>1, <3>1, <3>2, EnvOfHas
  <2> QED
    BY <2>2, <2>3, <2>4, <2>5, <2>6
<1>6. CASE Fatal(result)
  <2> DEFINE e == Now(<<>>)'
             v == Value(answers)'
             a == Signalled(e, "failed")
             b == Tail(Top.rest)
  <2>1. answers' \o <<>> = answers'
    BY <1>4, AppendNothing DEF Known
  <2>2. Ends(stack, b, a, v) /\ e \in Env /\ e.log = log
    <3>1. Value(answers \o <<>>)' = Value(answers)'
      BY <2>1 DEF Value, Fresh
    <3> QED
      BY <1>5, <1>6, <3>1, NoAnswers
  <2>3. b \in Block[Level(stack, 1)] /\ Nested(stack)
    BY <1>1, CardAt, PlacedIs
  <2> HIDE DEF e, v, b
  <2>4. a \in Env /\ a.signal = "failed" /\ a.log = log
    BY <2>2, SignalledIs DEF Extends
  <2> HIDE DEF a
  <2>5. v = a
    BY <2>2, <2>3, <2>4, EndsFailed
  <2>6. verdict' = "failed" /\ control' = "ended"
    BY <1>6 DEF Answer, Unwind
  <2> QED
    BY <1>1, <1>4, <2>4, <2>5, <2>6, FailureIsMeant DEF v
<1>7. CASE ~Fatal(result)
  <2>1. CardDone /\ verdict' = verdict
    BY <1>7 DEF Answer
  <2>2. \A more \in Seq(Result):
          Ends(stack, Tail(Top.rest), Now(more)', Value(answers \o more)')
    BY <1>5, <1>7
  <2> QED
    BY <1>1, <1>4, <2>1, <2>2, CardIsDone
<1> QED
  BY <1>6, <1>7

\* The words of the result area are those at even offsets.
LEMMA WordsAre ==
  ASSUME NEW n \in Nat, NEW size \in Nat
  PROVE  (n % 2 = 0 /\ n + 2 <= size) <=> \E k \in 1..size \div 2: n = 2 * k - 2
<1>1. ASSUME n % 2 = 0, n + 2 <= size
      PROVE  \E k \in 1..size \div 2: n = 2 * k - 2
  <2>1. n = 2 * (n \div 2) + (n % 2) /\ size = 2 * (size \div 2) + (size % 2)
        /\ n \div 2 \in Int /\ size \div 2 \in Int /\ size % 2 \in 0..1
    OBVIOUS
  <2> DEFINE h == n \div 2
             s == size \div 2
             r == size % 2
  <2>2. n = 2 * h /\ size = 2 * s + r /\ h \in Int /\ s \in Int /\ r \in 0..1
    BY <1>1, <2>1
  <2> HIDE DEF h, s, r
  <2>3. h + 1 \in 1..s /\ n = 2 * (h + 1) - 2
    BY <1>1, <2>2
  <2> QED
    BY <2>3 DEF s
<1>2. ASSUME NEW k \in 1..size \div 2, n = 2 * k - 2
      PROVE  n % 2 = 0 /\ n + 2 <= size
  <2>1. size = 2 * (size \div 2) + (size % 2) /\ size \div 2 \in Int /\ size % 2 \in 0..1
    OBVIOUS
  <2> DEFINE s == size \div 2
             r == size % 2
  <2>2. size = 2 * s + r /\ s \in Int /\ r \in 0..1 /\ k \in 1..s
    BY <2>1
  <2> HIDE DEF s, r
  <2>3. n + 2 <= size
    BY <1>2, <2>2
  <2>4. n = 2 * (k - 1) /\ k - 1 \in Int
    BY <1>2, <2>2
  <2>5. n % 2 = 0
    BY <2>4
  <2> QED
    BY <2>3, <2>5
<1> QED
  BY <1>1, <1>2

Allowed(x, over) ==
  IF x.source = "output_port"
  THEN over = "plclink" /\ x.count >= 1 /\ x.count <= PortCount
  ELSE over # "tcp" /\ \E k \in 1..ResultSize \div 2: x.count = 2 * k - 2

LEMMA AllowedIs ==
  ASSUME NEW x, IsReading(x), x.count \in Nat
  PROVE  Readable(x) <=> Allowed(x, transport)
<1>1. PortCount \in Nat /\ ResultSize \in Nat
  BY EngineAssumption
<1>2. CASE x.source = "output_port"
  BY <1>1, <1>2 DEF Readable, Allowed
<1>3. CASE x.source = "result_data"
  <2>1. (x.count % 2 = 0 /\ x.count + 2 <= ResultSize)
          <=> \E k \in 1..ResultSize \div 2: x.count = 2 * k - 2
    BY <1>1, WordsAre
  <2> QED
    BY <1>3, <2>1 DEF Readable, Allowed
<1> QED
  BY <1>2, <1>3 DEF IsReading

LEMMA ReadingIs ==
  ASSUME NEW x, NEW e
  PROVE  AfterReading(x, e) =
           IF ~Allowed(x, e.over) THEN Signalled(e, "failed")
           ELSE IF e.answers = <<>> THEN Signalled(e, "pending")
           ELSE Assigned(x, [e EXCEPT !.answers = Tail(@)], LastLine(Head(e.answers).lines))
BY DEF AfterReading, Allowed

\* What a source that is no reading gives, in the model and in the meaning.
LEMMA RecalledIs ==
  ASSUME Known, NEW x, ~IsReading(x), x.source # "literal", NEW more \in Seq(Result)
  PROVE  Remembered(x) = {Recalled(x, Now(more))} \ {""}
<1> DEFINE e == Now(more)
<1>1. e.last = lastResult /\ e.heard = lastResponse /\ e.cards = cardResults
  BY NowIs
<1> HIDE DEF e
<1>2. Remembered(x) = {Recalled(x, e)} \ {""}
  BY <1>1 DEF Remembered, Recalled
<1> QED
  BY <1>2 DEF e

LEMMA RememberedIs ==
  ASSUME Known, NEW x, ~IsReading(x), x.name # NoName, NEW more \in Seq(Result)
  PROVE  AfterVariable(x, Now(more)) =
           IF Remembered(x) = {} THEN Signalled(Now(more), "failed")
           ELSE Assigned(x, Now(more), CHOOSE value \in Remembered(x): TRUE)
<1> DEFINE e == Now(more)
           known == Recalled(x, e)
<1>1. x.source # "literal" => Remembered(x) = {known} \ {""}
  BY RecalledIs
<1> HIDE DEF e, known
<1>2. AfterVariable(x, e) =
        IF x.source = "literal" THEN Assigned(x, e, x.value)
        ELSE IF known = "" THEN Signalled(e, "failed")
        ELSE Assigned(x, e, known)
  BY DEF AfterVariable, IsReading, known
<1>3. CASE x.source = "literal"
  <2>1. Remembered(x) = {x.value} /\ Remembered(x) # {}
    BY <1>3 DEF Remembered
  <2> QED
    BY <1>2, <1>3, <2>1 DEF e
<1>4. CASE x.source # "literal" /\ known = ""
  <2>1. Remembered(x) = {}
    BY <1>1, <1>4
  <2> QED
    BY <1>2, <1>4, <2>1 DEF e
<1>5. CASE x.source # "literal" /\ known # ""
  <2>1. Remembered(x) = {known} /\ Remembered(x) # {}
    BY <1>1, <1>5
  <2> QED
    BY <1>2, <1>5, <2>1 DEF e
<1> QED
  BY <1>3, <1>4, <1>5

\* One value at most.
LEMMA RememberedOne ==
  ASSUME NEW x, NEW value \in Remembered(x)
  PROVE  Remembered(x) = {value}
BY DEF Remembered

LEMMA RememberedText ==
  ASSUME Known, NEW x, ~IsReading(x), x.card \in Id, x.value \in Text,
         NEW value \in Remembered(x)
  PROVE  value \in Text
<1>1. CASE x.source = "literal"
  BY <1>1 DEF Remembered
<1>2. CASE x.source # "literal"
  <2> DEFINE e == Now(<<>>)
  <2>1. e \in Env /\ Remembered(x) = {Recalled(x, e)} \ {""}
    BY <1>2, NoAnswers, NowIs, RecalledIs
  <2> HIDE DEF e
  <2> QED
    BY <2>1, RecalledText
<1> QED
  BY <1>1, <1>2

LEMMA SetVariableMeans == ASSUME MeaningInv, DepthInv, SetVariable PROVE MeaningInv'
<1>1. /\ Known /\ Placed /\ control = "card" /\ Card.kind = "variable" /\ Top.rest # <<>>
      /\ CardDone /\ UNCHANGED <<given, lastResult, lastResponse, cardResults, verdict>>
      /\ Card.name # NoName
  BY DEF MeaningInv, SetVariable, At, Placed
<1>2. PICK value \in IF IsReading(Card) THEN Reading ELSE Remembered(Card):
        /\ IsReading(Card) => Readable(Card)
        /\ variables' = [variables EXCEPT ![Card.name] = value]
        /\ log' = Append(log, <<"variable", Card.id, value>>)
        /\ answers' = IF IsReading(Card) THEN Append(answers, Read(value)) ELSE answers
  BY DEF SetVariable
<1>3. /\ Card.id \in Id /\ Card.card \in Id /\ Card.value \in Text /\ Card.count \in Nat
  BY <1>1, CardAt
<1>4. value \in Text
  <2>1. CASE IsReading(Card)
    BY <1>2, <2>1, ParametersHold
  <2>2. CASE ~IsReading(Card)
    BY <1>1, <1>2, <1>3, <2>2, RememberedText
  <2> QED
    BY <2>1, <2>2
<1> DEFINE event == <<"variable", Card.id, value>>
<1>5. event \in Event /\ log' = Append(log, event)
  BY <1>2, <1>3, <1>4, EventIs
<1>6. IsReading(Card) => Read(value) \in Result
  BY <1>2 DEF Result
<1> HIDE DEF event
<1>7. Known'
  <2>1. log' \in Seq(Event)
    BY <1>1, <1>5 DEF Known
  <2>2. variables' \in [Name -> Text]
    BY <1>1, <1>2, <1>4 DEF Known
  <2>3. answers' \in Seq(Result)
    BY <1>1, <1>2, <1>6 DEF Known
  <2> QED
    BY <1>1, <2>1, <2>2, <2>3 DEF Known, given
<1>8. ASSUME NEW more \in Seq(Result)
      PROVE  Now(more)' = Assigned(Card, Now(more), value)
  <2>1. Now(more)' = EnvOf(more, lastResult, lastResponse, cardResults,
                           [variables EXCEPT ![Card.name] = value], transport,
                           Append(log, <<"variable", Card.id, value>>))
    BY <1>1, <1>2 DEF Now, given
  <2> QED
    BY <2>1, AssignedOf DEF Now
<1>9. ASSUME NEW more \in Seq(Result)
      PROVE  Ends(stack, Tail(Top.rest), Now(more)', Value(answers \o more)')
  <2>1. CASE IsReading(Card)
    <3> DEFINE a == Read(value)
               m == <<a>> \o more
               e == Now(m)
    <3>1. answers' \o more = answers \o m /\ m \in Seq(Result) /\ a \in Result
      BY <1>1, <1>2, <1>6, <2>1, AppendFirst DEF Known
    <3>2. AfterVariable(Card, e) = AfterReading(Card, e)
      BY <1>1, <2>1 DEF AfterVariable, IsReading
    <3>3. e.over = transport
      BY <1>1, <3>1, NowIs
    <3>4. Allowed(Card, e.over)
      BY <1>2, <1>3, <2>1, <3>3, AllowedIs
    <3>5. /\ e.answers # <<>> /\ Head(e.answers) = a
          /\ [e EXCEPT !.answers = Tail(@)] = Now(more)
      <4> HIDE DEF a
      <4> QED
        BY <3>1, UsedOf DEF Now
    <3>6. LastLine(a.lines) = value
      BY DEF Read, LastLine
    <3> HIDE DEF e, a
    <3>7. AfterReading(Card, e) = Assigned(Card, Now(more), value)
      BY <3>4, <3>5, <3>6, ReadingIs
    <3>8. AfterCard(Card, e, Within(stack, 1), Meant[Level(stack, 1) - 1]) = Now(more)'
      BY <1>1, <1>8, <3>2, <3>7 DEF AfterCard
    <3>9. Ends(stack, Tail(Top.rest), Now(more)', Value(answers \o m))
      BY <1>1, <3>1, <3>8, CardRuns DEF e
    <3>10. Value(answers \o more)' = Value(answers \o m)
      BY <1>1, <3>1 DEF Value, Fresh, given
    <3> QED
      BY <3>9, <3>10
  <2>2. CASE ~IsReading(Card)
    <3>1. Remembered(Card) = {value}
      BY <1>2, <2>2, RememberedOne
    <3>2. AfterVariable(Card, Now(more)) = Assigned(Card, Now(more), value)
      BY <1>1, <2>2, <3>1, RememberedIs
    <3>3. AfterCard(Card, Now(more), Within(stack, 1), Meant[Level(stack, 1) - 1])
            = Now(more)'
      BY <1>1, <1>8, <3>2 DEF AfterCard
    <3>4. Ends(stack, Tail(Top.rest), Now(more)', Value(answers \o more))
      BY <1>1, <3>3, CardRuns
    <3>5. Value(answers \o more)' = Value(answers \o more)
      BY <1>1, <1>2, <2>2 DEF Value, Fresh, given
    <3> QED
      BY <3>4, <3>5
  <2> QED
    BY <2>1, <2>2
<1> QED
  BY <1>1, <1>7, <1>9, CardIsDone

LEMMA MissingSourceMeans == ASSUME MeaningInv, MissingSource PROVE MeaningInv'
<1>1. /\ Known /\ Placed /\ control = "card" /\ Card.kind = "variable" /\ Top.rest # <<>>
      /\ Card.name # NoName =>
           IF IsReading(Card) THEN ~Readable(Card) ELSE Remembered(Card) = {}
  BY DEF MeaningInv, MissingSource, At, Placed
<1>2. Unwind("failed") /\ UNCHANGED <<given, data, history>>
  BY DEF MissingSource, Raise
<1>3. Now(<<>>).over = transport
  BY <1>1, NowIs, NoAnswers
<1>4. AfterVariable(Card, Now(<<>>)) = Signalled(Now(<<>>), "failed")
  <2>1. CASE Card.name # NoName /\ IsReading(Card)
    <3>1. ~Allowed(Card, Now(<<>>).over)
      BY <1>1, <1>3, <2>1, CardAt, AllowedIs
    <3>2. AfterVariable(Card, Now(<<>>)) = AfterReading(Card, Now(<<>>))
      BY <2>1 DEF AfterVariable, IsReading
    <3> QED
      BY <3>1, <3>2, ReadingIs
  <2>2. CASE Card.name # NoName /\ ~IsReading(Card)
    BY <1>1, <2>2, RememberedIs, NoAnswers
  <2>3. CASE Card.name = NoName
    BY <2>3 DEF AfterVariable
  <2> QED
    BY <2>1, <2>2, <2>3
<1>5. AfterCard(Card, Now(<<>>), Within(stack, 1), Meant[Level(stack, 1) - 1]) =
        Signalled(Now(<<>>), "failed")
  BY <1>1, <1>4 DEF AfterCard
<1> QED
  BY <1>1, <1>2, <1>5, CardFails

\* The condition of an if card, in the model and in the meaning: an empty text
\* is within any line, and lines there are none of are an empty one.
LEMMA MatchedIs ==
  ASSUME NEW x, NEW e \in Env, e.last = lastResult
  PROVE  Holds(x, e) <=> Matched(x)
<1> DEFINE actual == IF x.source = "status" THEN <<lastResult.status>>
                     ELSE lastResult.lines
           looked == Looked(x, e)
           v == x.value
<1>1. actual \in Seq(Text)
  BY EnvIs, ResultIs
<1>2. looked = IF actual = <<>> THEN <<"">> ELSE actual
  BY DEF Looked
<1>3. Matched(x) <=> CASE x.test = "equals" -> Same(actual, v)
                       [] x.test = "contains" -> InLines(v, actual)
                       [] OTHER -> ~InLines(v, actual)
  BY DEF Matched
<1>4. Holds(x, e) <=> CASE x.test = "equals" -> looked = <<v>>
                        [] x.test = "contains" ->
                             \E k \in DOMAIN looked: v \in Part[looked[k]]
                        [] OTHER -> \A k \in DOMAIN looked: v \notin Part[looked[k]]
  BY DEF Holds
<1> HIDE DEF actual, looked, v
<1>5. looked = <<v>> <=> Same(actual, v)
  <2>1. CASE actual = <<>>
    BY <1>2, <2>1 DEF Same
  <2>2. CASE actual # <<>>
    BY <1>2, <2>2 DEF Same
  <2> QED
    BY <2>1, <2>2
<1>6. (\E k \in DOMAIN looked: v \in Part[looked[k]]) <=> InLines(v, actual)
  <2>1. CASE actual = <<>>
    <3>1. looked = <<"">>
      BY <1>2, <2>1
    <3>2. "" \in Text
      BY EngineAssumption
    <3>3. DOMAIN looked = {1} /\ looked[1] = ""
      BY <3>1, <3>2, LinesIs
    <3>4. (\E k \in DOMAIN looked: v \in Part[looked[k]]) <=> v = ""
      BY <3>3, EngineAssumption
    <3>5. InLines(v, actual) <=> v = ""
      BY <2>1 DEF InLines
    <3> QED
      BY <3>4, <3>5
  <2>2. CASE actual # <<>>
    <3>1. /\ looked = actual /\ DOMAIN looked = 1..Len(actual)
          /\ 1 \in DOMAIN looked /\ looked[1] \in Text
      BY <1>1, <1>2, <2>2
    <3>2. "" \in Part[looked[1]]
      BY <3>1, EngineAssumption
    <3> QED
      BY <3>1, <3>2 DEF InLines
  <2> QED
    BY <2>1, <2>2
<1>7. CASE x.test = "equals"
  BY <1>3, <1>4, <1>5, <1>7
<1>8. CASE x.test = "contains"
  BY <1>3, <1>4, <1>6, <1>8
<1>9. CASE x.test # "equals" /\ x.test # "contains"
  BY <1>3, <1>4, <1>6, <1>9
<1> QED
  BY <1>7, <1>8, <1>9

LEMMA IfMeans == ASSUME MeaningInv, If PROVE MeaningInv'
<1> DEFINE branch == IF Matched(Card) THEN Card.yes ELSE Card.no
           word == IF Matched(Card) THEN "yes" ELSE "no"
           event == <<"condition", Card.id, word>>
           f == [kind |-> "branch", round |-> 0, rest |-> branch]
           t == <<f>> \o stack
           n == Level(stack, 1)
<1>1. /\ Known /\ Placed /\ control = "card" /\ Card.kind = "if" /\ Top.rest # <<>>
      /\ Nested(stack) /\ Top = stack[1]
  BY PlacedIs DEF MeaningInv, If, At, Placed
<1>2. /\ UNCHANGED <<given, data, verdict, answers>> /\ control' = "step"
      /\ stack' = t /\ log' = Append(log, event)
  BY DEF If, history
<1>3. branch \in Block[n - 1] /\ n - 1 \in 0..Depth /\ Card.id \in Id
  BY <1>1, CardAt
<1>4. event \in Event
  BY <1>3, ParametersHold, EventIs
<1>5. Known'
  <2> HIDE DEF event
  <2>1. log' \in Seq(Event)
    BY <1>1, <1>2, <1>4 DEF Known
  <2> QED
    BY <1>1, <1>2, <2>1 DEF Known, given, data
<1>6. f.kind = "branch" /\ f.round = 0 /\ f.rest = branch
  OBVIOUS
<1>7. ASSUME NEW more \in Seq(Result)
      PROVE  /\ Nested(t) /\ t[1].rest = branch
             /\ Ends(t, t[1].rest, Now(more)', Value(answers \o more)')
  <2> DEFINE e == Now(more)'
             v == Value(answers \o more)
             l == Within(stack, 1)
             a == Meant[n - 1][branch][l][e]
  <2>1. e = Logged(Now(more), event)
    BY <1>2, LoggedOf DEF Now, given, data
  <2>2. Holds(Card, Now(more)) <=> Matched(Card)
    BY <1>1, NowIs, MatchedIs
  <2>3. AfterCard(Card, Now(more), l, Meant[n - 1]) = a
    BY <1>1, <2>1, <2>2 DEF AfterCard, AfterIf
  <2>4. Ends(stack, Tail(Top.rest), a, v)
    BY <1>1, <2>3, CardRuns
  <2>5. v = Value(answers \o more)'
    BY <1>2 DEF Value, Fresh, given
  <2> HIDE DEF e, v, branch, f
  <2>6. /\ Nested(<<f>> \o stack) /\ (<<f>> \o stack)[1].rest = f.rest
        /\ Ends(<<f>> \o stack, (<<f>> \o stack)[1].rest, e, v)
    BY <1>1, <1>3, <1>6, <2>4, EndsBranch
  <2> QED
    BY <1>6, <2>5, <2>6 DEF e
<1> HIDE DEF t
<1>8. Nested(t)
  BY <1>7, NoAnswers
<1>9. Placed' /\ ToCome' = t[1].rest
  BY <1>1, <1>2, <1>8, TopIs DEF Placed, ToCome, Top
<1>10. ASSUME NEW more \in Seq(Result)
       PROVE  Ends(stack, ToCome, Start(more), Value(answers \o more))'
  BY <1>2, <1>7, <1>9 DEF Start
<1> QED
  BY <1>2, <1>5, <1>9, <1>10 DEF MeaningInv, OnTheWay

LEMMA EnterLoopMeans == ASSUME MeaningInv, EnterLoop PROVE MeaningInv'
<1> DEFINE f == [kind |-> "loop", rest |-> <<>>, round |-> 0]
           t == <<f>> \o stack
           n == Level(stack, 1)
<1>1. /\ Known /\ Placed /\ control = "card" /\ Card.kind = "loop" /\ Top.rest # <<>>
      /\ Nested(stack) /\ Top = stack[1]
  BY PlacedIs DEF MeaningInv, EnterLoop, At, Placed
<1>2. /\ UNCHANGED <<given, data, verdict, answers, log>> /\ control' = "round"
      /\ stack' = t
  BY DEF EnterLoop, history
<1>3. Known'
  BY <1>1, <1>2 DEF Known, given, data
<1>4. f.kind = "loop" /\ f.round = 0 /\ f.rest = <<>>
  OBVIOUS
<1>5. ASSUME NEW more \in Seq(Result)
      PROVE  /\ Nested(t) /\ t[1].rest = <<>>
             /\ Ends(t, <<>>, Now(more)', Value(answers \o more)')
  <2> DEFINE e == Now(more)
             v == Value(answers \o more)
             a == AfterRounds(Card, 0, e, Meant[n - 1])
  <2>1. AfterCard(Card, e, Within(stack, 1), Meant[n - 1]) = a
    BY <1>1 DEF AfterCard
  <2>2. Ends(stack, Tail(Top.rest), a, v)
    BY <1>1, <2>1, CardRuns
  <2>3. e \in Env /\ Card = Head(Top.rest)
    BY <1>1, NowIs DEF Card
  <2>4. v = Value(answers \o more)' /\ e = Now(more)'
    BY <1>2 DEF Value, Fresh, given, Now, data
  <2> HIDE DEF e, v, f
  <2>5. /\ Nested(<<f>> \o stack) /\ (<<f>> \o stack)[1] = f
        /\ Ends(<<f>> \o stack, <<>>, e, v)
    BY <1>1, <1>4, <2>2, <2>3, EndsEntered
  <2> QED
    BY <1>4, <2>4, <2>5
<1> HIDE DEF t
<1>6. Nested(t) /\ t[1].rest = <<>>
  BY <1>5, NoAnswers
<1>7. Top' = t[1]
  BY <1>2, <1>6, TopIs DEF Top
<1>8. Placed' /\ ToCome' = <<>>
  BY <1>1, <1>2, <1>6, <1>7 DEF Placed, ToCome
<1>9. ASSUME NEW more \in Seq(Result)
      PROVE  Ends(stack, ToCome, Start(more), Value(answers \o more))'
  BY <1>2, <1>5, <1>8 DEF Start
<1> QED
  BY <1>2, <1>3, <1>8, <1>9 DEF MeaningInv, OnTheWay

\* A frame that ended leaves the one around it at its next card.
LEMMA FrameIsLeft ==
  ASSUME MeaningInv, UNCHANGED <<given, data, verdict, answers, log>>,
         verdict = "none", control' = "step", NEW t, stack' = t,
         \A more \in Seq(Result):
           Nested(t) /\ Ends(t, t[1].rest, Now(more), Value(answers \o more))
  PROVE  MeaningInv'
<1>1. Known'
  BY DEF MeaningInv, Known, given, data
<1>2. Nested(t)
  BY NoAnswers
<1>3. Placed' /\ ToCome' = t[1].rest
  BY <1>2, TopIs DEF Placed, ToCome, Top
<1>4. ASSUME NEW more \in Seq(Result)
      PROVE  Ends(stack, ToCome, Start(more), Value(answers \o more))'
  <2>1. Start(more)' = Now(more)
    BY DEF Start, Now, given, data
  <2>2. Value(answers \o more)' = Value(answers \o more)
    BY DEF Value, Fresh, given
  <2> QED
    BY <1>3, <2>1, <2>2
<1> QED
  BY <1>1, <1>3, <1>4 DEF MeaningInv, OnTheWay

LEMMA NextRoundMeans == ASSUME MeaningInv, DepthInv, NextRound PROVE MeaningInv'
<1> DEFINE x == Head(stack[2].rest)
           r == stack[1].round
<1>1. /\ Known /\ Placed /\ OnTheWay /\ Shape(stack) /\ control = "round"
      /\ stack[1].kind = "loop" /\ Nested(stack) /\ Top = stack[1] /\ Top.rest = <<>>
      /\ UNCHANGED <<given, data, verdict, answers>> /\ verdict = "none"
  BY PlacedIs DEF MeaningInv, DepthInv, NextRound, Placed
<1>2. ASSUME NEW more \in Seq(Result)
      PROVE  /\ Ends(stack, <<>>, Now(more), Value(answers \o more))
             /\ Now(more) \in Env /\ Now(more).signal = "go"
             /\ Value(answers \o more)' = Value(answers \o more)
  <2>1. ToCome = <<>> /\ Start(more) = Now(more)
    BY <1>1 DEF ToCome, Start
  <2>2. Value(answers \o more)' = Value(answers \o more)
    BY <1>1 DEF Value, Fresh, given
  <2> QED
    BY <1>1, <2>1, <2>2, NowIs DEF OnTheWay
<1>3. CASE /\ r < x.count
           /\ stack' = <<[kind |-> "loop", rest |-> x.yes, round |-> r + 1]>> \o Tail(stack)
           /\ log' = Append(log, <<"round", x.id, r + 1>>)
           /\ control' = "step"
  <2> DEFINE f == [kind |-> "loop", rest |-> x.yes, round |-> r + 1]
             t == <<f>> \o Tail(stack)
             event == <<"round", x.id, r + 1>>
  <2>1. AtRound(stack, x, r)
    BY <1>1, <1>3 DEF AtRound
  <2>2. x.id \in Id /\ r + 1 \in Nat
    <3> HIDE DEF x, r
    <3>1. x.count \in Nat /\ r \in 0..x.count /\ x.id \in Id
      BY <1>1, <2>1, RoundIn
    <3> QED
      BY <3>1
  <2>3. event \in Event
    BY <2>2 DEF Event
  <2>4. log' = Append(log, event) /\ stack' = t
    BY <1>3
  <2>5. f.kind = "loop" /\ f.rest = x.yes /\ f.round = r + 1
    OBVIOUS
  <2> HIDE DEF f
  <2>6. Known'
    <3> HIDE DEF event
    <3>1. log' \in Seq(Event)
      BY <1>1, <2>3, <2>4 DEF Known
    <3> QED
      BY <1>1, <3>1 DEF Known, given, data
  <2>7. ASSUME NEW more \in Seq(Result)
        PROVE  /\ Nested(t) /\ t[1] = f
               /\ Ends(t, f.rest, Now(more)', Value(answers \o more)')
    <3> DEFINE e == Now(more)
               v == Value(answers \o more)
    <3>1. Now(more)' = Logged(e, event)
      BY <1>1, <2>4, LoggedOf DEF Now, given, data
    <3>2. Ends(stack, <<>>, e, v) /\ e \in Env /\ e.signal = "go"
      BY <1>2
    <3> HIDE DEF e, v, x, r
    <3>3. /\ Nested(<<f>> \o Tail(stack)) /\ (<<f>> \o Tail(stack))[1] = f
          /\ Ends(<<f>> \o Tail(stack), f.rest, Logged(e, <<"round", x.id, r + 1>>), v)
      BY <1>1, <2>1, <2>5, <3>2, EndsRound
    <3> QED
      BY <1>2, <3>1, <3>3 DEF v
  <2> HIDE DEF t
  <2>8. Nested(t) /\ t[1] = f
    BY <2>7, NoAnswers
  <2>9. Top' = f
    BY <2>4, <2>8, TopIs DEF Top
  <2>10. Placed' /\ ToCome' = f.rest
    BY <1>1, <1>3, <2>4, <2>8, <2>9 DEF Placed, ToCome
  <2>11. ASSUME NEW more \in Seq(Result)
         PROVE  Ends(stack, ToCome, Start(more), Value(answers \o more))'
    BY <1>3, <2>4, <2>7, <2>10 DEF Start
  <2> QED
    BY <1>3, <2>6, <2>10, <2>11 DEF MeaningInv, OnTheWay
<1>4. CASE r = x.count /\ LeaveLoop(Tail(stack)) /\ log' = log
  <2> DEFINE t == Advanced(Tail(stack))
  <2>1. stack' = t /\ control' = "step"
    BY <1>4 DEF LeaveLoop
  <2>2. ASSUME NEW more \in Seq(Result)
        PROVE  Nested(t) /\ Ends(t, t[1].rest, Now(more), Value(answers \o more))
    <3> DEFINE e == Now(more)
               v == Value(answers \o more)
    <3>1. Ends(stack, <<>>, e, v) /\ e \in Env /\ e.signal = "go"
      BY <1>2
    <3> HIDE DEF e, v
    <3>2. Nested(t) /\ Ends(t, t[1].rest, e, v)
      BY <1>1, <1>4, <3>1, EndsLeft
    <3> QED
      BY <3>2 DEF e, v
  <2> HIDE DEF t
  <2> QED
    BY <1>1, <1>4, <2>1, <2>2, FrameIsLeft
<1> QED
  BY <1>1, <1>3, <1>4 DEF NextRound

\* loop_depth counts loops: a break is within one where there are any.
LEMMA LoopsWithin ==
  ASSUME NEW s, Len(s) \in Nat, Len(s) > 0
  PROVE  Within(s, 1) <=> LoopsIn(s) > 0
<1>1. IsFiniteSet(LoopsAt(s)) /\ LoopsIn(s) = Cardinality(LoopsAt(s)) /\ LoopsIn(s) \in Nat
  BY LoopsFinite
<1>2. LoopsIn(s) = 0 <=> LoopsAt(s) = {}
  BY <1>1, FS_EmptySet
<1>3. LoopsAt(s) # {} <=> Within(s, 1)
  BY DEF LoopsAt, Within
<1> QED
  BY <1>1, <1>2, <1>3

LEMMA BreakMeans == ASSUME MeaningInv, DepthInv, Break PROVE MeaningInv'
<1>1. /\ Known /\ Placed /\ Shape(stack) /\ control = "card" /\ Card.kind = "break"
      /\ Nested(stack) /\ Top.rest # <<>> /\ loopDepth > 0 /\ loopDepth = LoopsIn(stack)
      /\ verdict = "none" /\ UNCHANGED <<given, data, answers, log>>
  BY PlacedIs DEF MeaningInv, DepthInv, Break, At, Placed, history
<1>2. LeaveLoop(AroundLoop) /\ UNCHANGED verdict
  BY <1>1 DEF Break
<1> DEFINE loops == {i \in 1..Len(stack): stack[i].kind = "loop"}
           m == CHOOSE i \in loops: \A j \in loops: i <= j
           q == SubSeq(stack, m + 1, Len(stack))
           t == Advanced(q)
<1>3. Len(stack) \in Nat /\ Len(stack) > 0 /\ Within(stack, 1) = TRUE
  <2>1. Len(stack) \in Nat /\ Len(stack) > 0 /\ Within(stack, 1) \in BOOLEAN
    BY <1>1, InnermostIs
  <2> QED
    BY <1>1, <2>1, LoopsWithin
<1>4. m \in loops /\ \A j \in loops: m <= j
  <2>1. loops # {} /\ loops \subseteq Nat
    BY <1>3 DEF Within
  <2>2. \E i \in loops: \A j \in loops: i <= j
    BY <2>1, LeastExists
  <2> QED
    BY <2>2
<1>5. stack' = t /\ control' = "step"
  BY <1>2 DEF LeaveLoop, AroundLoop
<1> HIDE DEF m
<1>6. /\ m \in 1..Len(stack) /\ stack[m].kind = "loop"
      /\ \A i \in 1..Len(stack): stack[i].kind = "loop" => m <= i
  BY <1>4
<1>7. Outward(q, stack, m)
  BY DEF Outward
<1> HIDE DEF q
<1>8. ASSUME NEW more \in Seq(Result)
      PROVE  Nested(t) /\ Ends(t, t[1].rest, Now(more), Value(answers \o more))
  <2> DEFINE e == Now(more)
             v == Value(answers \o more)
             b == Tail(Top.rest)
  <2>1. e \in Env /\ e.signal = "go" /\ b \in Block[Level(stack, 1)]
    BY <1>1, NowIs, CardAt
  <2>2. AfterCard(Card, e, Within(stack, 1), Meant[Level(stack, 1) - 1])
          = Signalled(e, "break")
    BY <1>1, <1>3 DEF AfterCard
  <2>3. Ends(stack, b, Signalled(e, "break"), v)
    BY <1>1, <2>2, CardRuns
  <2> HIDE DEF e, v, b
  <2>4. Nested(t) /\ Ends(t, t[1].rest, e, v)
    BY <1>1, <1>6, <1>7, <2>1, <2>3, EndsBroken
  <2> QED
    BY <2>4 DEF e, v
<1> HIDE DEF t
<1> QED
  BY <1>1, <1>2, <1>5, <1>8, FrameIsLeft

LEMMA BreakOutsideMeans == ASSUME MeaningInv, DepthInv, BreakOutside PROVE MeaningInv'
<1>1. /\ Known /\ Placed /\ control = "card" /\ Card.kind = "break" /\ Nested(stack)
      /\ loopDepth = 0 /\ loopDepth = LoopsIn(stack)
      /\ Unwind("failed") /\ UNCHANGED <<given, data, history>>
  BY PlacedIs DEF MeaningInv, DepthInv, BreakOutside, At, Placed, Raise
<1>2. Within(stack, 1) = FALSE
  <2>1. Len(stack) \in Nat /\ Len(stack) > 0 /\ Within(stack, 1) \in BOOLEAN
    BY <1>1, InnermostIs
  <2> QED
    BY <1>1, <2>1, LoopsWithin
<1>3. AfterCard(Card, Now(<<>>), Within(stack, 1), Meant[Level(stack, 1) - 1]) =
        Signalled(Now(<<>>), "failed")
  BY <1>1, <1>2 DEF AfterCard
<1> QED
  BY <1>1, <1>3, CardFails

-----------------------------------------------------------------------------
(* The sequence is followed.                                               *)

LEMMA KeepsMeaning ==
  ASSUME MeaningInv, UNCHANGED <<given, stack, control, data, verdict, log, answers>>
  PROVE  MeaningInv'
<1>1. Known <=> Known'
  BY DEF Known, given, data
<1>2. Judged <=> Judged'
  BY DEF Judged, Value, Fresh, given
<1>3. Placed <=> Placed'
  BY DEF Placed, Top, Card
<1>4. ToCome' = ToCome
  BY DEF ToCome, Top
<1>5. ASSUME NEW more \in Seq(Result)
      PROVE  /\ Start(more)' = Start(more)
             /\ Value(answers \o more)' = Value(answers \o more)
  BY DEF Start, Card, Top, Now, Value, Fresh, given, data
<1>6. OnTheWay => OnTheWay'
  BY <1>4, <1>5 DEF OnTheWay
<1> QED
  BY <1>1, <1>2, <1>3, <1>6 DEF MeaningInv

LEMMA MeaningStep == MeaningInv /\ DepthInv /\ [Next]_vars => MeaningInv'
<1> SUFFICES ASSUME MeaningInv, DepthInv, [Next]_vars PROVE MeaningInv'
  OBVIOUS
<1>1. CASE Stop \/ UNCHANGED vars
  <2>1. UNCHANGED <<given, stack, control, data, verdict, log, answers>>
    BY <1>1 DEF Stop, vars, history
  <2> QED
    BY <2>1, KeepsMeaning
<1>2. CASE BeginCard \/ StopSeen \/ EndFrame
  BY <1>2, BeginCardMeans, StopSeenMeans, EndFrameMeans
<1>3. CASE SendCommand \/ MissingVariable \/ SendFails
  BY <1>3, SendCommandMeans, MissingVariableMeans, SendFailsMeans
<1>4. CASE \E result \in DeviceResult \cup {Unheard, Switched}: Answer(result)
  BY <1>4, AnswerMeans
<1>5. CASE BeginDelay \/ Sleep \/ Note
  BY <1>5, BeginDelayMeans, SleepMeans, NoteMeans
<1>6. CASE SetVariable \/ MissingSource
  BY <1>6, SetVariableMeans, MissingSourceMeans
<1>7. CASE If \/ EnterLoop \/ NextRound \/ Break \/ BreakOutside
  BY <1>7, IfMeans, EnterLoopMeans, NextRoundMeans, BreakMeans, BreakOutsideMeans
<1> QED
  BY <1>1, <1>2, <1>3, <1>4, <1>5, <1>6, <1>7 DEF Next, Run

\* Whatever answers come, what SequenceEngine._run_steps, _run_if and _run_loop
\* do with their own calls and exceptions is what the tree of cards means:
\* every card, branch and round in its order and no other, and the end that
\* belongs to it.
THEOREM SequenceIsFollowed == Spec => []FollowsTheSequence
<1>1. Init => MeaningInv /\ DepthInv
  BY MeaningInit, DepthInit
<1>2. MeaningInv /\ DepthInv /\ [Next]_vars => MeaningInv' /\ DepthInv'
  BY MeaningStep, DepthStep
<1> QED
  BY <1>1, <1>2, InvGivesMeaning, PTL DEF Spec
=============================================================================
