--------------------- MODULE FieldNetworkHandshake_proofs ---------------------
(***************************************************************************)
(* Proofs about FieldNetworkHandshake, for any commands, any number of     *)
(* callers and any number of copies under way.                             *)
(*                                                                         *)
(* Nothing in a copy is compared, so AnswerIsOwn rests on the order of the *)
(* copies alone: on a network that keeps it, and until an exchange fails   *)
(* or meets another, the copies from the one the client read last to the   *)
(* one the device sends next pass through the three stages of the current  *)
(* command - before it, executing it, after it - one after the other.      *)
(***************************************************************************)
EXTENDS FieldNetworkHandshake, TLAPS

Issued == {c \in Command : stage[c] \notin {"unsent", "queued"}}
Current == out.command
Calm == inOrder /\ ~disturbed

\* Types that are a little finer than TypeOK: whoever raises the trigger has
\* written a command, and the device works on one.
Types ==
    /\ TypeOK
    /\ out.trigger = 1 => out.command # None
    /\ devOut.trigger = 1 => devOut.command # None
    /\ Len(wireOut) <= 1
    /\ wireOut # <<>> /\ wireOut[1].trigger = 1 => wireOut[1].command # None
    /\ dev # "rest" => devCmd # None

\* What the copies and the device know was issued, and an answer was given.
KnownInput(x) == x.response # None =>
    x.response.cmd \in Issued /\ x.response \in executed

Known ==
    /\ {out.command, devOut.command, devCmd} \subseteq Issued \cup {None}
    /\ wireOut # <<>> => wireOut[1].command \in Issued \cup {None}
    /\ KnownInput(in) /\ KnownInput(devIn)
    /\ \A k \in 1 .. Len(wireIn) : KnownInput(wireIn[k])
    /\ out.command = None => Issued = {}
    /\ clean \subseteq Issued
    /\ \A c \in Command \ Issued : outcome[c] = "none"

\* The trigger is on for the command written last.
TriggerOnCurrent == out.trigger = 1 => stage[Current] = "busy_on"

\* How far a copy of the input assembly is with command c.
Rank(x, c) == IF x.busy = 1 THEN 1
              ELSE IF x.response # None /\ x.response.cmd = c THEN 2 ELSE 0

\* The input copies, in the order the client reads them.
RanksAscend ==
    /\ Rank(in, Current) <= Rank(devIn, Current)
    /\ \A k \in 1 .. Len(wireIn) :
          /\ Rank(in, Current) <= Rank(wireIn[k], Current)
          /\ Rank(wireIn[k], Current) <= Rank(devIn, Current)
    /\ \A j, k \in 1 .. Len(wireIn) :
          j <= k => Rank(wireIn[j], Current) <= Rank(wireIn[k], Current)

\* The device is at the stage its next copy shows, and works on the current
\* command, whose output it has seen.
DeviceOnCurrent ==
    /\ devIn.busy = 1 <=> dev # "rest"
    /\ dev # "rest" => devCmd = Current
    /\ dev = "answered" => devIn.response # None /\ devIn.response.cmd = Current
    /\ Rank(devIn, Current) >= 1 => devOut.command = Current

\* The client is where the copy it read last let it go.
ClientOnCurrent ==
    /\ \A c \in Command : Open(c) => c = Current
    /\ Current # None /\ stage[Current] \in {"response", "busy_off"}
          => Rank(in, Current) >= 1
    /\ Current # None /\ stage[Current] = "done" => Rank(in, Current) = 2

\* The output copies show the trigger of the current command rise and fall
\* once: the device starts no command twice and none that is over.
TriggerOnce ==
    LET under == wireOut # <<>> IN
    /\ devOut.command = Current /\ under => wireOut[1].command = Current
    /\ devOut.command = Current /\ devOut.trigger = 0
          => out.trigger = 0 /\ (under => wireOut[1].trigger = 0)
    /\ under /\ wireOut[1].command = Current /\ wireOut[1].trigger = 0
          => out.trigger = 0
    /\ under /\ wireOut[1].trigger = 1 /\ devOut.trigger = 0
          => wireOut[1].command = Current

InStep == RanksAscend /\ DeviceOnCurrent /\ ClientOnCurrent /\ TriggerOnce

\* A clean command that is under way is under way undisturbed.
CleanIsCalm == \A c \in clean : Open(c) => Calm

Inductive ==
    /\ Types
    /\ Known
    /\ TriggerOnCurrent
    /\ Calm => InStep
    /\ CleanIsCalm
    /\ AnswerIsOwn

-----------------------------------------------------------------------------

LEMMA InitInductive == Init => Inductive
<1> SUFFICES ASSUME Init PROVE Inductive
  OBVIOUS
<1> USE FieldNetworkAssumption DEF Init
<1>1. Types
  <2>1. out \in Output /\ in \in Input /\ wireOut \in Seq(Output)
          /\ wireIn \in Seq(Input)
    BY DEF Output, Input
  <2>2. {connected, inOrder, disturbed} \subseteq BOOLEAN
    OBVIOUS
  <2> QED
    BY <2>1, <2>2 DEF Types, TypeOK
<1>2. Known /\ TriggerOnCurrent
  BY DEF Known, KnownInput, Issued, TriggerOnCurrent
<1>3. InStep
  BY DEF InStep, RanksAscend, DeviceOnCurrent, ClientOnCurrent, TriggerOnce,
         Rank, Open, Current
<1>4. CleanIsCalm /\ AnswerIsOwn
  BY DEF CleanIsCalm, AnswerIsOwn
<1> QED
  BY <1>1, <1>2, <1>3, <1>4 DEF Inductive

\* What the copies show when no exchange is open: the last one is over.
LEMMA AllOver ==
    ASSUME Inductive, Calm, ~AnyOpen
    PROVE  /\ dev = "rest" /\ in.busy = 0 /\ devIn.busy = 0
           /\ \A k \in 1 .. Len(wireIn) : wireIn[k].busy = 0
           /\ ~(wireOut # <<>> /\ wireOut[1].trigger = 1 /\ devOut.trigger = 0)
<1> USE FieldNetworkAssumption DEF Inductive, InStep
<1>1. CASE Current = None
  <2>1. dev = "rest" /\ devIn.busy = 0
    BY <1>1 DEF DeviceOnCurrent, Types, TypeOK, Input
  <2>2. Issued = {}
    BY <1>1 DEF Known, Current
  <2>3. \A x \in Input : KnownInput(x) => x.response = None
    BY <2>2 DEF KnownInput
  <2>4. in \in Input /\ devIn \in Input
        /\ \A k \in 1 .. Len(wireIn) : wireIn[k] \in Input
    BY DEF Types, TypeOK
  <2>5. Rank(devIn, Current) = 0
    BY <2>1, <2>3, <2>4 DEF Rank, Known
  <2>6. in.busy = 0 /\ \A k \in 1 .. Len(wireIn) : wireIn[k].busy = 0
    BY <2>4, <2>5 DEF RanksAscend, Rank, Input
  <2>7. wireOut # <<>> => wireOut[1].trigger # 1
    BY <2>2 DEF Known, Types
  <2> QED
    BY <2>1, <2>6, <2>7
<1>2. CASE Current # None
  <2>1. stage[Current] = "done"
    <3>1. Current \in Issued
      BY <1>2 DEF Known, Current
    <3> QED
      BY <3>1 DEF Issued, AnyOpen, Open, Types, TypeOK
  <2>2. Rank(in, Current) = 2
    BY <1>2, <2>1 DEF ClientOnCurrent
  <2>3. in \in Input /\ devIn \in Input
        /\ \A k \in 1 .. Len(wireIn) : wireIn[k] \in Input
    BY DEF Types, TypeOK
  <2>4. Rank(devIn, Current) = 2
        /\ \A k \in 1 .. Len(wireIn) : Rank(wireIn[k], Current) = 2
    BY <2>2, <2>3 DEF RanksAscend, Rank
  <2>5. in.busy = 0 /\ devIn.busy = 0
        /\ \A k \in 1 .. Len(wireIn) : wireIn[k].busy = 0
    BY <2>2, <2>3, <2>4 DEF Rank, Input
  <2>6. dev = "rest" /\ devOut.command = Current
    BY <2>4, <2>5 DEF DeviceOnCurrent
  <2> QED
    BY <2>5, <2>6 DEF TriggerOnce
<1> QED
  BY <1>1, <1>2

\* Writing a command, of SendCommand and of ResumeSend.
LEMMA IssueInductive ==
    ASSUME Inductive, NEW c \in Command, NEW slot \in Ignored \cup {None},
           stage[c] \in {"unsent", "queued"}, Issue(c, slot),
           awaited' \in [Command -> Ignored \cup {None}]
    PROVE  Inductive'
<1> USE FieldNetworkAssumption DEF Issue, deviceVars
<1>1. /\ stage' = [stage EXCEPT ![c] = "busy_on"]
      /\ stage' \in [Command -> {"unsent", "queued", "busy_on", "response",
                                 "busy_off", "done"}]
      /\ \A d \in Command : d # c => stage'[d] = stage[d]
      /\ stage'[c] = "busy_on"
      /\ Current' = c
  BY DEF Inductive, Types, TypeOK, Current
<1>2. Issued' = Issued \cup {c} /\ c \notin Issued
  BY <1>1 DEF Issued
<1>3. Types'
  <2>1. out' \in Output
    BY DEF Output
  <2>2. ignoreTask' \in Ignored \cup {None}
    BY DEF SlotAfter
  <2>3. outcome' \in [Command -> {"none", "ignored", "error"} \cup Verdict]
    BY DEF Inductive, Types, TypeOK
  <2>4. clean' \in SUBSET Command /\ disturbed' \in BOOLEAN
    BY DEF Inductive, Types, TypeOK
  <2> QED
    BY <1>1, <2>1, <2>2, <2>3, <2>4 DEF Inductive, Types, TypeOK
<1>4. Known'
  <2>1. clean' \subseteq Issued'
    BY <1>2 DEF Inductive, Known
  <2>2. \A x : KnownInput(x) => KnownInput(x)'
    BY <1>2 DEF KnownInput
  <2>3. \A d \in Command \ Issued' : outcome'[d] = "none"
    BY <1>2 DEF Inductive, Known, Types, TypeOK
  <2> QED
    BY <1>2, <2>1, <2>2, <2>3 DEF Inductive, Known
<1>5. TriggerOnCurrent'
  BY <1>1 DEF TriggerOnCurrent
<1>6. ASSUME Calm' PROVE InStep'
  <2>1. Calm /\ ~AnyOpen
    BY <1>6 DEF Calm
  <2>2. /\ dev = "rest" /\ in.busy = 0 /\ devIn.busy = 0
        /\ \A k \in 1 .. Len(wireIn) : wireIn[k].busy = 0
        /\ ~(wireOut # <<>> /\ wireOut[1].trigger = 1 /\ devOut.trigger = 0)
    BY <2>1, AllOver
  <2>3. Rank(in, c) = 0 /\ Rank(devIn, c) = 0
          /\ \A k \in 1 .. Len(wireIn) : Rank(wireIn[k], c) = 0
    BY <1>2, <2>2 DEF Inductive, Known, KnownInput, Rank
  <2>4. devOut.command # c /\ (wireOut # <<>> => wireOut[1].command # c)
    BY <1>2 DEF Inductive, Known
  <2>5. RanksAscend'
    BY <1>1, <2>3 DEF RanksAscend, Rank
  <2>6. DeviceOnCurrent'
    BY <1>1, <2>2, <2>3 DEF DeviceOnCurrent, Rank
  <2>7. ClientOnCurrent'
    BY <1>1, <2>1 DEF ClientOnCurrent, AnyOpen, Open
  <2>8. TriggerOnce'
    BY <1>1, <2>2, <2>4 DEF TriggerOnce
  <2> QED
    BY <2>5, <2>6, <2>7, <2>8 DEF InStep
<1>7. CleanIsCalm'
  <2>1. CASE Calm /\ ~AnyOpen
    BY <2>1, <1>6 DEF CleanIsCalm, Calm
  <2>2. CASE ~(Calm /\ ~AnyOpen)
    <3>1. clean' = {d \in clean : ~Open(d)}
      BY <2>2 DEF Calm
    <3>2. c \notin clean'
      BY <3>1, <1>2 DEF Inductive, Known
    <3> QED
      BY <3>1, <3>2, <1>1 DEF CleanIsCalm, Open
  <2> QED
    BY <2>1, <2>2
<1>8. AnswerIsOwn'
  <2>1. \A d \in clean' \ {c} : d \in clean /\ outcome'[d] = outcome[d]
    BY DEF Inductive, Types, TypeOK
  <2>2. outcome'[c] \notin Verdict
    BY <1>2 DEF Inductive, Known, Types, TypeOK, Verdict
  <2> QED
    BY <2>1, <2>2 DEF Inductive, AnswerIsOwn
<1> QED
  BY <1>3, <1>4, <1>5, <1>6, <1>7, <1>8 DEF Inductive

\* The exchange of c moves on, or ends, and what the network and the device
\* hold stays.
LEMMA ProgressInductive ==
    ASSUME Inductive, NEW c \in Command, Progress(c)
    PROVE  Inductive'
<1> USE FieldNetworkAssumption DEF deviceVars, historyVars
<1>1. /\ Open(c)
      /\ UNCHANGED <<in, connected, wireOut, wireIn, dev, devOut, devCmd, devIn,
                     inOrder, awaited, ignoreTask, clean, executed>>
  BY DEF Progress, PollBusyOn, PollResponse, PollBusyOff, Abandon, Answered,
         GivesUp, Waits, Open
<1>2. \E place \in {"response", "busy_off", "done"} :
         /\ stage' = [stage EXCEPT ![c] = place]
         /\ stage[c] = "busy_on" => out'.trigger = 0
  BY DEF Progress, PollBusyOn, PollResponse, PollBusyOff, Abandon, Answered,
         AfterBusyOn, OutputOnFailure, Inductive, Types, TypeOK, Output
<1>3. PICK place \in {"response", "busy_off", "done"} :
         /\ stage' = [stage EXCEPT ![c] = place]
         /\ stage[c] = "busy_on" => out'.trigger = 0
  BY <1>2
<1>4. /\ stage' \in [Command -> {"unsent", "queued", "busy_on", "response",
                                 "busy_off", "done"}]
      /\ stage'[c] = place
      /\ \A d \in Command : d # c => stage'[d] = stage[d]
  BY <1>3 DEF Inductive, Types, TypeOK
<1>5. out' = out \/ out' = [out EXCEPT !.trigger = 0]
  BY DEF Progress, PollBusyOn, PollResponse, PollBusyOff, Abandon,
         OutputOnFailure
<1>6. out' \in Output /\ Current' = Current /\ (out'.trigger = 1 => out' = out)
  BY <1>5 DEF Inductive, Types, TypeOK, Output, Current
<1>7. Issued' = Issued /\ c \in Issued
  BY <1>1, <1>4 DEF Issued, Open
<1>8. /\ outcome' \in [Command -> {"none", "ignored", "error"} \cup Verdict]
      /\ \A d \in Command : d # c => outcome'[d] = outcome[d]
      /\ disturbed' \in BOOLEAN /\ (disturbed => disturbed')
  <2>1. CASE PollBusyOn(c) \/ PollResponse(c)
    BY <2>1 DEF PollBusyOn, PollResponse, Inductive, Types, TypeOK
  <2>2. CASE PollBusyOff(c)
    <3>1. in.response # None => in.response.result \in Verdict
      BY DEF Inductive, Types, TypeOK, Input, Answer
    <3> QED
      BY <2>2, <3>1 DEF PollBusyOff, Inductive, Types, TypeOK
  <2>3. CASE Abandon(c)
    BY <2>3 DEF Abandon, OutcomeOnFailure, Inductive, Types, TypeOK
  <2> QED
    BY <2>1, <2>2, <2>3 DEF Progress
<1>9. Types'
  BY <1>1, <1>4, <1>6, <1>8 DEF Inductive, Types, TypeOK
<1>10. Known'
  BY <1>1, <1>6, <1>7, <1>8 DEF Inductive, Known, KnownInput, Current
<1>11. TriggerOnCurrent'
  BY <1>3, <1>4, <1>6 DEF Inductive, TriggerOnCurrent
<1>12. Calm => c = Current /\ Current # None
  BY <1>1 DEF Inductive, InStep, ClientOnCurrent
<1>13. CleanIsCalm'
  <2>1. CASE Calm'
    BY <2>1 DEF CleanIsCalm
  <2>2. CASE ~Calm'
    <3>1. ~Calm \/ stage'[c] = "done"
      BY <2>2, <1>1 DEF Progress, PollBusyOn, PollResponse, PollBusyOff,
         Abandon, Calm, Inductive, Types, TypeOK
    <3> QED
      BY <3>1, <1>1, <1>4, <1>12
         DEF Inductive, CleanIsCalm, Open, InStep, ClientOnCurrent, Types, TypeOK
  <2> QED
    BY <2>1, <2>2
<1>14. ASSUME Calm' PROVE InStep'
  <2>1. Calm /\ InStep /\ c = Current /\ Current # None
    BY <1>14, <1>1, <1>8, <1>12 DEF Calm, Inductive
  <2>2. RanksAscend' /\ DeviceOnCurrent'
    BY <2>1, <1>1, <1>6 DEF InStep, RanksAscend, DeviceOnCurrent, Rank
  <2>3. ClientOnCurrent'
    <3>1. Rank(in, Current) >= 1
      BY <2>1, <1>14 DEF Progress, PollBusyOn, PollResponse, PollBusyOff, Abandon,
         Answered, Rank, InStep, ClientOnCurrent, Calm
    <3>2. stage'[c] = "done" => Rank(in, Current) = 2
      BY <3>1, <1>4, <1>14 DEF Progress, PollBusyOn, PollResponse, PollBusyOff,
         Abandon, Answered, AfterBusyOn, Rank, Calm, Inductive, Types, TypeOK
    <3>3. Rank(in, Current)' = Rank(in, Current)
      BY <1>1, <1>6 DEF Rank
    <3> QED
      BY <3>1, <3>2, <3>3, <2>1, <1>4, <1>6 DEF InStep, ClientOnCurrent, Open
  <2>4. TriggerOnce'
    BY <2>1, <1>1, <1>6 DEF InStep, TriggerOnce, Types, TypeOK, Output, Inductive
  <2> QED
    BY <2>2, <2>3, <2>4 DEF InStep
<1>15. AnswerIsOwn'
  <2>1. ASSUME c \in clean, outcome'[c] \in Verdict, outcome'[c] # outcome[c]
        PROVE  [cmd |-> c, result |-> outcome'[c]] \in executed
    <3>1. Calm /\ c = Current /\ InStep
      BY <2>1, <1>1, <1>12 DEF Inductive, CleanIsCalm
    <3>2. PollBusyOff(c) /\ in.response # None
            /\ outcome'[c] = in.response.result
      BY <2>1 DEF Progress, PollBusyOn, PollResponse, PollBusyOff, Abandon,
         OutcomeOnFailure, Inductive, Types, TypeOK, Verdict
    <3>3. in.response.cmd = c
      BY <3>1, <3>2, <1>12 DEF PollBusyOff, Answered, Rank, InStep, ClientOnCurrent
    <3>4. in.response \in Answer
      BY <3>2 DEF Inductive, Types, TypeOK, Input
    <3>5. in.response = [cmd |-> c, result |-> outcome'[c]]
      BY <3>2, <3>3, <3>4 DEF Answer
    <3> QED
      BY <3>2, <3>5 DEF Inductive, Known, KnownInput
  <2> QED
    BY <2>1, <1>1, <1>8 DEF Inductive, AnswerIsOwn, Known, Issued
<1> QED
  BY <1>9, <1>10, <1>11, <1>13, <1>14, <1>15 DEF Inductive

LEMMA SendInductive ==
    ASSUME Inductive, NEW c \in Command, SendCommand(c) PROVE Inductive'
<1> USE FieldNetworkAssumption
<1>1. CASE ~Pending(ignoreTask)
  <2>1. Issue(c, None) /\ awaited' = awaited /\ stage[c] = "unsent"
    BY <1>1 DEF SendCommand
  <2> QED
    BY <2>1, IssueInductive DEF Inductive, Types, TypeOK
<1>2. CASE Pending(ignoreTask)
  <2>1. /\ stage[c] = "unsent" /\ stage' = [stage EXCEPT ![c] = "queued"]
        /\ awaited' = [awaited EXCEPT ![c] = ignoreTask]
        /\ ignoreTask' = None
        /\ UNCHANGED <<outcome, out, in, connected, wireOut, wireIn,
                       deviceVars, inOrder, historyVars>>
    BY <1>2 DEF SendCommand
  <2>2. /\ stage' \in [Command -> {"unsent", "queued", "busy_on", "response",
                                   "busy_off", "done"}]
        /\ Issued' = Issued /\ c \notin Issued
        /\ \A d \in Command : /\ d # c => stage'[d] = stage[d]
                              /\ Open(d)' <=> Open(d)
    BY <2>1 DEF Inductive, Types, TypeOK, Issued, Open
  <2>3. awaited' \in [Command -> Ignored \cup {None}]
    BY <2>1 DEF Inductive, Types, TypeOK
  <2>4. Types'
    BY <2>1, <2>2, <2>3 DEF Inductive, Types, TypeOK, deviceVars, historyVars
  <2>5. Known'
    BY <2>1, <2>2 DEF Inductive, Known, KnownInput, deviceVars, historyVars
  <2>6. stage'[Current] = stage[Current] \/ Current = None
    BY <2>2 DEF Inductive, Known, Issued, Current
  <2>7. TriggerOnCurrent' /\ CleanIsCalm' /\ AnswerIsOwn'
    <3>1. TriggerOnCurrent'
      BY <2>1, <2>6 DEF Inductive, Types, TriggerOnCurrent, Current
    <3>2. CleanIsCalm'
      BY <2>1, <2>2 DEF Inductive, CleanIsCalm, Calm, Types, TypeOK, historyVars
    <3>3. AnswerIsOwn'
      BY <2>1 DEF Inductive, AnswerIsOwn, historyVars
    <3> QED
      BY <3>1, <3>2, <3>3
  <2>8. ASSUME Calm' PROVE InStep'
    <3>1. InStep
      BY <2>8, <2>1 DEF Calm, Inductive, historyVars
    <3>2. RanksAscend' /\ DeviceOnCurrent' /\ TriggerOnce'
      BY <3>1, <2>1 DEF InStep, RanksAscend, DeviceOnCurrent, TriggerOnce, Rank,
                        Current, deviceVars
    <3>3. ClientOnCurrent'
      BY <3>1, <2>1, <2>2, <2>6 DEF InStep, ClientOnCurrent, Rank, Current
    <3> QED
      BY <3>2, <3>3 DEF InStep
  <2> QED
    BY <2>4, <2>5, <2>7, <2>8 DEF Inductive
<1> QED
  BY <1>1, <1>2

\* What the client keeps of the invariant while only copies move.
LEMMA ClientKept ==
    ASSUME Inductive, UNCHANGED <<clientVars, inOrder, disturbed, clean>>,
           executed \subseteq executed'
    PROVE  TriggerOnCurrent' /\ CleanIsCalm' /\ AnswerIsOwn'
           /\ Issued' = Issued /\ Calm' = Calm
  BY DEF Inductive, TriggerOnCurrent, CleanIsCalm, AnswerIsOwn, Issued, Calm,
         Current, Open, clientVars

LEMMA SendOutputInductive == ASSUME Inductive, SendOutput PROVE Inductive'
<1> USE FieldNetworkAssumption DEF SendOutput, clientVars, deviceVars, historyVars
<1>1. TriggerOnCurrent' /\ CleanIsCalm' /\ AnswerIsOwn'
      /\ Issued' = Issued /\ Calm' = Calm
  BY ClientKept
<1>2. wireOut' = <<out>> /\ wireOut' # <<>> /\ wireOut'[1] = out /\ Len(wireOut') = 1
  OBVIOUS
<1>3. Types'
  <2>1. wireOut' \in Seq(Output)
    BY <1>2 DEF Inductive, Types, TypeOK
  <2> QED
    BY <1>2, <2>1 DEF Inductive, Types, TypeOK
<1>4. Known'
  BY <1>1, <1>2 DEF Inductive, Known, KnownInput
<1>5. ASSUME Calm' PROVE InStep'
  <2>1. InStep
    BY <1>1, <1>5 DEF Inductive
  <2>2. RanksAscend' /\ DeviceOnCurrent' /\ ClientOnCurrent'
    BY <2>1 DEF InStep, RanksAscend, DeviceOnCurrent, ClientOnCurrent, Rank,
                Current, Open
  <2>3. TriggerOnce'
    BY <2>1, <1>2 DEF InStep, TriggerOnce, Current, Inductive, Types, TypeOK, Output
  <2> QED
    BY <2>2, <2>3 DEF InStep
<1> QED
  BY <1>1, <1>3, <1>4, <1>5 DEF Inductive

LEMMA HandleInputInductive == ASSUME Inductive, HandleInput PROVE Inductive'
<1> USE FieldNetworkAssumption DEF clientVars, deviceVars, historyVars
<1>1. PICK k \in {j \in DOMAIN wireIn : inOrder => j = 1} :
         /\ in' = wireIn[k]
         /\ wireIn' = RemoveAt(wireIn, k)
  BY DEF HandleInput
<1>2. UNCHANGED <<clientVars, connected, wireOut, deviceVars, inOrder,
                  historyVars>>
  BY DEF HandleInput
<1>3. TriggerOnCurrent' /\ CleanIsCalm' /\ AnswerIsOwn'
      /\ Issued' = Issued /\ Calm' = Calm
  BY <1>2, ClientKept
<1>4. wireIn \in Seq(Input) /\ k \in 1 .. Len(wireIn)
  BY <1>1 DEF Inductive, Types, TypeOK
<1>5. /\ wireIn' \in Seq(Input)
      /\ Len(wireIn') = Len(wireIn) - 1
      /\ \A j \in 1 .. Len(wireIn') :
            wireIn'[j] = IF j < k THEN wireIn[j] ELSE wireIn[j + 1]
  <2> DEFINE front == SubSeq(wireIn, 1, k - 1)
             back == SubSeq(wireIn, k + 1, Len(wireIn))
  <2>1. /\ front \in Seq(Input) /\ Len(front) = k - 1
        /\ \A j \in 1 .. k - 1 : front[j] = wireIn[j]
    BY <1>4
  <2>2. /\ back \in Seq(Input) /\ Len(back) = Len(wireIn) - k
        /\ \A j \in 1 .. Len(wireIn) - k : back[j] = wireIn[k + j]
    BY <1>4
  <2>3. wireIn' = front \o back
    BY <1>1 DEF RemoveAt
  <2>4. ASSUME NEW f \in Seq(Input), NEW b \in Seq(Input)
        PROVE  /\ f \o b \in Seq(Input) /\ Len(f \o b) = Len(f) + Len(b)
               /\ \A j \in 1 .. Len(f) + Len(b) :
                     (f \o b)[j] = IF j <= Len(f) THEN f[j] ELSE b[j - Len(f)]
    OBVIOUS
  <2>5. /\ wireIn' \in Seq(Input)
        /\ Len(wireIn') = Len(wireIn) - 1
        /\ \A j \in 1 .. Len(wireIn') :
              wireIn'[j] = IF j <= k - 1 THEN front[j] ELSE back[j - (k - 1)]
    <3>1. /\ front \o back \in Seq(Input)
          /\ Len(front \o back) = Len(front) + Len(back)
          /\ \A j \in 1 .. Len(front) + Len(back) : (front \o back)[j] =
                IF j <= Len(front) THEN front[j] ELSE back[j - Len(front)]
      BY <2>1, <2>2, <2>4
    <3>2. Len(front) + Len(back) = Len(wireIn) - 1
      <4> HIDE DEF front, back
      <4>1. Len(wireIn) \in Nat /\ k \in Nat
        BY <1>4
      <4>2. Len(front) = k - 1 /\ Len(back) = Len(wireIn) - k
        BY <2>1, <2>2
      <4> QED
        BY <4>1, <4>2
    <3> QED
      BY <2>1, <2>3, <3>1, <3>2
  <2> HIDE DEF front, back
  <2>6. ASSUME NEW j \in 1 .. Len(wireIn')
        PROVE  wireIn'[j] = IF j < k THEN wireIn[j] ELSE wireIn[j + 1]
    <3>1. CASE j < k
      BY <3>1, <1>4, <2>1, <2>5
    <3>2. CASE j >= k
      <4>1. j - (k - 1) \in 1 .. Len(wireIn) - k /\ k + (j - (k - 1)) = j + 1
              /\ ~(j <= k - 1)
        BY <3>2, <1>4, <2>5
      <4>2. wireIn'[j] = back[j - (k - 1)]
        BY <4>1, <2>5
      <4> QED
        BY <3>2, <4>1, <4>2, <2>2
    <3> QED
      BY <3>1, <3>2, <1>4
  <2> QED
    BY <2>5, <2>6
<1>6. Types'
  BY <1>1, <1>2, <1>4, <1>5 DEF Inductive, Types, TypeOK
<1>7. Known'
  <2>1. \A x : KnownInput(x)' <=> KnownInput(x)
    BY <1>2, <1>3 DEF KnownInput
  <2>2. KnownInput(in') /\ \A j \in 1 .. Len(wireIn') : KnownInput(wireIn'[j])
    BY <1>1, <1>4, <1>5 DEF Inductive, Known
  <2>3. KnownInput(in)' /\ \A j \in 1 .. Len(wireIn') : KnownInput(wireIn[j])'
    BY <2>2, <1>2, <1>3 DEF KnownInput
  <2> QED
    BY <2>3, <1>2, <1>3 DEF Inductive, Known, KnownInput
<1>8. ASSUME Calm' PROVE InStep'
  <2>1. InStep /\ k = 1
    BY <1>1, <1>3, <1>8 DEF Inductive, Calm
  <2>2. \A j \in 1 .. Len(wireIn') : wireIn'[j] = wireIn[j + 1]
    BY <2>1, <1>5
  <2>3. RanksAscend'
    <3>1. Current' = Current /\ devIn' = devIn /\ in' = wireIn[1]
      BY <1>1, <1>2, <2>1 DEF Current
    <3>2. /\ 1 \in 1 .. Len(wireIn) /\ Len(wireIn) \in Nat
          /\ \A j \in 1 .. Len(wireIn') : j + 1 \in 1 .. Len(wireIn)
      BY <1>4, <1>5, <2>1
    <3>3. RanksAscend
      BY <2>1 DEF InStep
    <3>4. Rank(in', Current') <= Rank(devIn', Current')
      BY <3>1, <3>2, <3>3 DEF RanksAscend
    <3>5. ASSUME NEW j \in 1 .. Len(wireIn')
          PROVE  /\ Rank(in', Current') <= Rank(wireIn'[j], Current')
                 /\ Rank(wireIn'[j], Current') <= Rank(devIn', Current')
      <4>1. wireIn'[j] = wireIn[j + 1] /\ j + 1 \in 1 .. Len(wireIn) /\ 1 <= j + 1
        BY <2>2, <3>2
      <4> QED
        BY <4>1, <3>1, <3>2, <3>3 DEF RanksAscend
    <3>6. ASSUME NEW i \in 1 .. Len(wireIn'), NEW j \in 1 .. Len(wireIn'), i <= j
          PROVE  Rank(wireIn'[i], Current') <= Rank(wireIn'[j], Current')
      <4>1. /\ wireIn'[i] = wireIn[i + 1] /\ i + 1 \in 1 .. Len(wireIn)
            /\ wireIn'[j] = wireIn[j + 1] /\ j + 1 \in 1 .. Len(wireIn)
            /\ i + 1 <= j + 1
        BY <3>6, <2>2, <3>2
      <4> QED
        BY <4>1, <3>1, <3>3 DEF RanksAscend
    <3> QED
      BY <3>4, <3>5, <3>6 DEF RanksAscend
  <2>4. Rank(in, Current) <= Rank(in', Current)
    BY <2>1, <1>1, <1>4 DEF InStep, RanksAscend
  <2>5. ClientOnCurrent'
    BY <2>1, <2>4, <1>2 DEF InStep, ClientOnCurrent, Rank, Current, Open
  <2>6. DeviceOnCurrent' /\ TriggerOnce'
    BY <2>1, <1>2 DEF InStep, DeviceOnCurrent, TriggerOnce, Rank, Current
  <2> QED
    BY <2>3, <2>5, <2>6 DEF InStep
<1> QED
  BY <1>3, <1>6, <1>7, <1>8 DEF Inductive

LEMMA DisconnectInductive == ASSUME Inductive, Disconnect PROVE Inductive'
<1> USE FieldNetworkAssumption DEF Disconnect, clientVars, deviceVars, historyVars
<1>1. TriggerOnCurrent' /\ CleanIsCalm' /\ AnswerIsOwn'
      /\ Issued' = Issued /\ Calm' = Calm
  BY ClientKept
<1>2. Types'
  BY DEF Inductive, Types, TypeOK
<1>3. Known'
  BY <1>1 DEF Inductive, Known, KnownInput
<1>4. InStep' = InStep
  BY DEF InStep, RanksAscend, DeviceOnCurrent, ClientOnCurrent, TriggerOnce,
         Rank, Current, Open
<1> QED
  BY <1>1, <1>2, <1>3, <1>4 DEF Inductive

\* The device takes the output copy, and starts the command it shows.
LEMMA ReceiveInductive ==
    ASSUME Inductive, VtvReceive,
           UNCHANGED <<clientVars, in, connected, inOrder, disturbed, clean>>
    PROVE  Inductive'
<1> USE FieldNetworkAssumption DEF VtvReceive
<1> DEFINE edge == dev = "rest" /\ devOut.trigger = 0 /\ devOut'.trigger = 1
<1>1. TriggerOnCurrent' /\ CleanIsCalm' /\ AnswerIsOwn'
      /\ Issued' = Issued /\ Calm' = Calm
  BY ClientKept
<1>2. /\ wireOut # <<>> /\ wireOut \in Seq(Output)
      /\ devOut' = wireOut[1] /\ devOut' \in Output /\ wireOut' = <<>>
      /\ UNCHANGED <<wireIn, executed, out, in, stage>>
  BY DEF Inductive, Types, TypeOK, clientVars
<1>3. /\ edge => dev' = "executing" /\ devCmd' = devOut'.command
                   /\ devIn' = [devIn EXCEPT !.busy = 1]
      /\ ~edge => UNCHANGED <<dev, devCmd, devIn>>
  OBVIOUS
<1>4. /\ devIn' \in Input /\ devIn'.response = devIn.response
      /\ edge => devIn'.busy = 1
  BY <1>3 DEF Inductive, Types, TypeOK, Input
<1>5. Types'
  <2>1. devCmd' \in Command \cup {None} /\ (dev' # "rest" => devCmd' # None)
          /\ dev' \in {"rest", "executing", "answered"}
    BY <1>2, <1>3 DEF Inductive, Types, TypeOK, Output
  <2> QED
    BY <1>2, <1>4, <2>1 DEF Inductive, Types, TypeOK, clientVars
<1>6. Known'
  <2>1. devCmd' \in Issued \cup {None} /\ devOut'.command \in Issued \cup {None}
    BY <1>2, <1>3 DEF Inductive, Known
  <2> QED
    BY <1>1, <1>2, <1>4, <2>1 DEF Inductive, Known, KnownInput, clientVars
<1>7. ASSUME Calm' PROVE InStep'
  <2>1. InStep /\ Current' = Current
    BY <1>1, <1>2, <1>7 DEF Inductive, Current
  <2>2. edge => wireOut[1].command = Current /\ devOut.command # Current
    BY <2>1, <1>2 DEF InStep, TriggerOnce
  <2>3. edge => Rank(devIn, Current) = 0
    BY <2>1, <2>2 DEF InStep, DeviceOnCurrent, Rank
  <2>4. Rank(devIn, Current) <= Rank(devIn', Current)
    BY <2>3, <1>3, <1>4 DEF Rank
  <2>5. RanksAscend'
    <3>1. in \in Input /\ devIn \in Input
          /\ \A k \in 1 .. Len(wireIn) : wireIn[k] \in Input
      BY DEF Inductive, Types, TypeOK
    <3>2. /\ Rank(devIn, Current) \in {0, 1, 2} /\ Rank(devIn', Current) \in {0, 1, 2}
          /\ Rank(in, Current) \in {0, 1, 2}
          /\ \A k \in 1 .. Len(wireIn) : Rank(wireIn[k], Current) \in {0, 1, 2}
      BY DEF Rank
    <3> QED
      BY <3>2, <2>1, <2>4, <1>2 DEF InStep, RanksAscend
  <2>6. DeviceOnCurrent'
    BY <2>1, <2>2, <2>3, <1>2, <1>3, <1>4
       DEF InStep, DeviceOnCurrent, TriggerOnce, Rank
  <2>7. ClientOnCurrent'
    BY <2>1, <1>2 DEF InStep, ClientOnCurrent, Open
  <2>8. TriggerOnce'
    BY <2>1, <1>2 DEF InStep, TriggerOnce
  <2> QED
    BY <2>5, <2>6, <2>7, <2>8 DEF InStep
<1> QED
  BY <1>1, <1>5, <1>6, <1>7 DEF Inductive

\* The device sends a copy of its input assembly.
LEMMA CopyInductive ==
    ASSUME Inductive, VtvSend,
           UNCHANGED <<clientVars, in, connected, inOrder, disturbed, clean>>
    PROVE  Inductive'
<1> USE FieldNetworkAssumption DEF VtvSend, deviceVars
<1>1. TriggerOnCurrent' /\ CleanIsCalm' /\ AnswerIsOwn'
      /\ Issued' = Issued /\ Calm' = Calm
  BY ClientKept
<1>2. /\ wireIn \in Seq(Input) /\ devIn \in Input
      /\ wireIn' \in Seq(Input) /\ Len(wireIn') = Len(wireIn) + 1
      /\ \A k \in 1 .. Len(wireIn') :
            wireIn'[k] = IF k <= Len(wireIn) THEN wireIn[k] ELSE devIn
  BY DEF Inductive, Types, TypeOK
<1>3. Types'
  BY <1>2 DEF Inductive, Types, TypeOK, clientVars
<1>4. Known'
  <2>1. \A k \in 1 .. Len(wireIn') : KnownInput(wireIn'[k])
    BY <1>2 DEF Inductive, Known
  <2>2. \A x : KnownInput(x) /\ x.response # None =>
               x.response.cmd \in Issued' /\ x.response \in executed'
    BY <1>1 DEF KnownInput
  <2> QED
    BY <1>1, <2>1, <2>2 DEF Inductive, Known, KnownInput, clientVars
<1>5. ASSUME Calm' PROVE InStep'
  <2>1. InStep /\ Current' = Current
    BY <1>1, <1>5 DEF Inductive, Current, clientVars
  <2>2. RanksAscend'
    <3>1. RanksAscend /\ Rank(devIn, Current) \in Nat
      BY <2>1 DEF InStep, Rank
    <3>2. ASSUME NEW k \in 1 .. Len(wireIn')
          PROVE  /\ Rank(in, Current) <= Rank(wireIn'[k], Current)
                 /\ Rank(wireIn'[k], Current) <= Rank(devIn, Current)
      <4>1. CASE k \in 1 .. Len(wireIn)
        BY <4>1, <1>2, <3>1 DEF RanksAscend
      <4>2. CASE k \notin 1 .. Len(wireIn)
        <5>1. wireIn'[k] = devIn
          BY <4>2, <1>2
        <5> QED
          BY <5>1, <3>1 DEF RanksAscend
      <4> QED
        BY <4>1, <4>2
    <3>3. ASSUME NEW j \in 1 .. Len(wireIn'), NEW k \in 1 .. Len(wireIn'), j <= k
          PROVE  Rank(wireIn'[j], Current) <= Rank(wireIn'[k], Current)
      <4>1. CASE k \in 1 .. Len(wireIn)
        <5>1. j \in 1 .. Len(wireIn)
          BY <4>1, <3>3
        <5> QED
          BY <5>1, <4>1, <1>2, <3>1, <3>3 DEF RanksAscend
      <4>2. CASE k \notin 1 .. Len(wireIn)
        <5>1. wireIn'[k] = devIn
          BY <4>2, <1>2
        <5> QED
          BY <5>1, <3>2
      <4> QED
        BY <4>1, <4>2
    <3> QED
      BY <2>1, <3>1, <3>2, <3>3 DEF RanksAscend
  <2>3. DeviceOnCurrent' /\ ClientOnCurrent' /\ TriggerOnce'
    BY <2>1 DEF InStep, DeviceOnCurrent, ClientOnCurrent, TriggerOnce, Open, clientVars
  <2> QED
    BY <2>2, <2>3 DEF InStep
<1> QED
  BY <1>1, <1>3, <1>4, <1>5 DEF Inductive

\* The device answers, or takes BUSY off: the copy it sends next goes on.
LEMMA AnswerInductive ==
    ASSUME Inductive, VtvRespond \/ VtvBusyOff,
           UNCHANGED <<clientVars, in, connected, inOrder, disturbed, clean>>
    PROVE  Inductive'
<1> USE FieldNetworkAssumption
<1>1. executed \subseteq executed'
  BY DEF VtvRespond, VtvBusyOff
<1>2. TriggerOnCurrent' /\ CleanIsCalm' /\ AnswerIsOwn'
      /\ Issued' = Issued /\ Calm' = Calm
  BY <1>1, ClientKept
<1>3. /\ dev # "rest" /\ devCmd \in Command
      /\ UNCHANGED <<devOut, devCmd, wireOut, wireIn, out, in, stage>>
  BY DEF VtvRespond, VtvBusyOff, Inductive, Types, TypeOK, clientVars
<1>4. CASE VtvRespond
  <2>1. PICK v \in MayAnswer[devCmd] :
           /\ devIn' = [devIn EXCEPT !.response = [cmd |-> devCmd, result |-> v]]
           /\ executed' = executed \cup {[cmd |-> devCmd, result |-> v]}
    BY <1>4 DEF VtvRespond
  <2>2. v \in Verdict
    BY <1>3 DEF Verdict
  <2>3. /\ devIn' \in Input /\ devIn'.busy = devIn.busy
        /\ devIn'.response = [cmd |-> devCmd, result |-> v]
        /\ devIn'.response # None
    BY <2>1, <2>2, <1>3 DEF Inductive, Types, TypeOK, Input, Answer, Verdict
  <2>4. Types'
    <3>1. executed' \in SUBSET [cmd : Command \cup {None}, result : Verdict]
      BY <2>1, <2>2, <1>3 DEF Inductive, Types, TypeOK
    <3>2. dev' = "answered"
      BY <1>4 DEF VtvRespond
    <3> QED
      BY <2>3, <3>1, <3>2, <1>3 DEF Inductive, Types, TypeOK, clientVars
  <2>5. Known'
    <3>1. Known /\ dev # "rest" /\ devCmd \in Issued
      BY <1>3 DEF Inductive, Known
    <3>2. KnownInput(devIn)'
      BY <2>1, <2>3, <3>1, <1>2 DEF KnownInput
    <3>3. KnownInput(in)'
      BY <3>1, <1>1, <1>2, <1>3 DEF Known, KnownInput
    <3>4. \A k \in 1 .. Len(wireIn) : KnownInput(wireIn[k])'
      BY <3>1, <1>1, <1>2, <1>3 DEF Known, KnownInput
    <3>5. \A d \in Command \ Issued' : outcome'[d] = "none"
      BY <3>1, <1>2 DEF Known, clientVars
    <3> QED
      BY <3>1, <3>2, <3>3, <3>4, <3>5, <1>2, <1>3 DEF Known
  <2>6. ASSUME Calm' PROVE InStep'
    <3>1. InStep /\ Current' = Current /\ devCmd = Current /\ devIn.busy = 1
      BY <2>6, <1>2, <1>3 DEF Inductive, Current, InStep, DeviceOnCurrent
    <3>2. Rank(devIn', Current) = Rank(devIn, Current)
      BY <3>1, <2>3 DEF Rank
    <3>3. RanksAscend' /\ ClientOnCurrent' /\ TriggerOnce'
      BY <3>1, <3>2, <1>3
         DEF InStep, RanksAscend, ClientOnCurrent, TriggerOnce, Open
    <3>4. DeviceOnCurrent'
      BY <3>1, <3>2, <2>3, <1>3, <1>4 DEF InStep, DeviceOnCurrent, VtvRespond
    <3> QED
      BY <3>3, <3>4 DEF InStep
  <2> QED
    BY <1>2, <2>4, <2>5, <2>6 DEF Inductive
<1>5. CASE VtvBusyOff
  <2>1. /\ devIn' \in Input /\ devIn'.busy = 0 /\ devIn'.response = devIn.response
        /\ dev = "answered" /\ dev' = "rest" /\ executed' = executed
    BY <1>5 DEF VtvBusyOff, Inductive, Types, TypeOK, Input
  <2>2. Types'
    BY <2>1, <1>3 DEF Inductive, Types, TypeOK, clientVars
  <2>3. Known'
    <3>1. \A d \in Command \ Issued' : outcome'[d] = "none"
      BY <1>2 DEF Inductive, Known, clientVars
    <3> QED
      BY <3>1, <2>1, <1>2, <1>3 DEF Inductive, Known, KnownInput
  <2>4. ASSUME Calm' PROVE InStep'
    <3>1. InStep /\ Current' = Current
      BY <2>4, <1>2, <1>3 DEF Inductive, Current
    <3>2. Rank(devIn, Current) = 1 /\ Rank(devIn', Current) = 2
      BY <3>1, <2>1 DEF InStep, DeviceOnCurrent, Rank
    <3>3. RanksAscend'
      <4>1. /\ Rank(in, Current) \in Nat
            /\ \A k \in 1 .. Len(wireIn) : Rank(wireIn[k], Current) \in Nat
        BY DEF Rank
      <4> QED
        BY <3>1, <3>2, <4>1, <1>3 DEF InStep, RanksAscend
    <3>4. DeviceOnCurrent'
      BY <3>1, <3>2, <2>1, <1>3 DEF InStep, DeviceOnCurrent
    <3>5. ClientOnCurrent' /\ TriggerOnce'
      BY <3>1, <1>3 DEF InStep, ClientOnCurrent, TriggerOnce, Open
    <3> QED
      BY <3>3, <3>4, <3>5 DEF InStep
  <2> QED
    BY <1>2, <2>2, <2>3, <2>4 DEF Inductive
<1> QED
  BY <1>4, <1>5

LEMMA StepInductive == Inductive /\ [Next]_vars => Inductive'
<1> SUFFICES ASSUME Inductive, [Next]_vars PROVE Inductive'
  OBVIOUS
<1>1. CASE UNCHANGED vars
  <2> USE <1>1 DEF vars, clientVars, deviceVars, historyVars
  <2>1. TriggerOnCurrent' /\ CleanIsCalm' /\ AnswerIsOwn'
        /\ Issued' = Issued /\ Calm' = Calm
    BY ClientKept
  <2>2. Types' /\ Known'
    BY <2>1 DEF Inductive, Types, TypeOK, Known, KnownInput
  <2>3. InStep' = InStep
    BY DEF InStep, RanksAscend, DeviceOnCurrent, ClientOnCurrent, TriggerOnce,
           Rank, Current, Open
  <2> QED
    BY <2>1, <2>2, <2>3 DEF Inductive
<1>2. ASSUME NEW c \in Command, SendCommand(c) PROVE Inductive'
  BY <1>2, SendInductive
<1>3. ASSUME NEW c \in Command, ResumeSend(c) PROVE Inductive'
  BY <1>3, IssueInductive DEF ResumeSend, Inductive, Types, TypeOK
<1>4. ASSUME NEW c \in Command, Progress(c) PROVE Inductive'
  BY <1>4, ProgressInductive
<1>5. CASE SendOutput \/ HandleInput \/ Disconnect
  BY <1>5, SendOutputInductive, HandleInputInductive, DisconnectInductive
<1>6. CASE Vtv
  BY <1>6, ReceiveInductive, CopyInductive, AnswerInductive DEF Vtv
<1> QED
  BY <1>1, <1>2, <1>3, <1>4, <1>5, <1>6 DEF Next

\* The inductive invariant holds throughout.
THEOREM SafetyInvariant == Spec => []Inductive
<1> QED
  BY InitInductive, StepInductive, PTL DEF Spec

\* Every variable keeps its type.
THEOREM TypeCorrect == Spec => []TypeOK
<1>1. Inductive => TypeOK
  BY DEF Inductive, Types
<1> QED
  BY <1>1, SafetyInvariant, PTL

\* On a network that keeps the order, an exchange that neither failed before
\* nor met another returns the answer to its own command, although
\* send_command compares nothing and clears no old answer (client.py:207-228).
THEOREM AnswersBelong == Spec => []AnswerIsOwn
<1>1. Inductive => AnswerIsOwn
  BY DEF Inductive
<1> QED
  BY <1>1, SafetyInvariant, PTL

\* No way out of the wait for BUSY ON leaves the trigger in the cyclic data.
THEOREM TriggerReleased == Spec => []TriggerIsAwaited
<1>1. Inductive => TriggerIsAwaited
  BY FieldNetworkAssumption
     DEF Inductive, TriggerOnCurrent, TriggerIsAwaited, Types, TypeOK, Output, Current
<1> QED
  BY <1>1, SafetyInvariant, PTL

-----------------------------------------------------------------------------
(* The handshake implements CommandExchange.                               *)

\* Until its exchange ends a command has no outcome but "ignored".
NoEarlyOutcome ==
    \A c \in Command :
        Open(c) => outcome[c] = IF c \in Ignored THEN "ignored" ELSE "none"

LEMMA OutcomeStep ==
    Inductive /\ NoEarlyOutcome /\ [Next]_vars => NoEarlyOutcome'
<1> SUFFICES ASSUME Inductive, NoEarlyOutcome, [Next]_vars
             PROVE  NoEarlyOutcome'
  OBVIOUS
<1>1. ASSUME UNCHANGED <<stage, outcome>> PROVE NoEarlyOutcome'
  BY <1>1 DEF NoEarlyOutcome, Open
<1>2. ASSUME NEW c \in Command, NEW slot, Issue(c, slot),
             stage[c] \in {"unsent", "queued"}
      PROVE  NoEarlyOutcome'
  <2>1. outcome[c] = "none"
    BY <1>2 DEF Inductive, Known, Issued
  <2> QED
    BY <2>1, <1>2 DEF Issue, NoEarlyOutcome, Open, Inductive, Types, TypeOK
<1>3. ASSUME NEW c \in Command, SendCommand(c) PROVE NoEarlyOutcome'
  <2>1. CASE Issue(c, None)
    BY <2>1, <1>2, <1>3 DEF SendCommand
  <2>2. CASE stage' = [stage EXCEPT ![c] = "queued"] /\ outcome' = outcome
    BY <2>2 DEF NoEarlyOutcome, Open, Inductive, Types, TypeOK
  <2> QED
    BY <2>1, <2>2, <1>3 DEF SendCommand
<1>4. ASSUME NEW c \in Command, ResumeSend(c) PROVE NoEarlyOutcome'
  BY <1>4, <1>2 DEF ResumeSend
<1>5. ASSUME NEW c \in Command, Progress(c) PROVE NoEarlyOutcome'
  <2>1. CASE PollBusyOn(c) \/ PollResponse(c)
    BY <2>1 DEF PollBusyOn, PollResponse, AfterBusyOn, NoEarlyOutcome, Open,
                Inductive, Types, TypeOK
  <2>2. CASE PollBusyOff(c) \/ Abandon(c)
    BY <2>2 DEF PollBusyOff, Abandon, OutcomeOnFailure, NoEarlyOutcome, Open,
                Inductive, Types, TypeOK
  <2> QED
    BY <1>5, <2>1, <2>2 DEF Progress
<1>6. CASE SendOutput \/ HandleInput \/ Disconnect \/ Vtv \/ UNCHANGED vars
  BY <1>1, <1>6 DEF SendOutput, HandleInput, Disconnect, Vtv, vars, clientVars
<1> QED
  BY <1>3, <1>4, <1>5, <1>6 DEF Next

LEMMA IssueIsSend ==
    ASSUME Inductive, NoEarlyOutcome, NEW c \in Command, NEW slot,
           Issue(c, slot), stage[c] \in {"unsent", "queued"}
    PROVE  Exchange!Send(c)
<1>1. Issued' = Issued \cup {c} /\ c \in Command \ Issued
  BY DEF Issue, Issued, Inductive, Types, TypeOK
<1>2. \/ clean' = clean \cup {c}
      \/ /\ clean' \in SUBSET clean
         /\ \A d \in clean \ clean' : outcome[d] \in {"none", "ignored"}
  <2>1. CASE inOrder /\ ~disturbed /\ ~AnyOpen
    BY <2>1 DEF Issue
  <2>2. CASE ~(inOrder /\ ~disturbed /\ ~AnyOpen)
    <3>1. clean' = {d \in clean : ~Open(d)}
      BY <2>2 DEF Issue
    <3>2. clean \subseteq Command
      BY DEF Inductive, Types, TypeOK
    <3> QED
      BY <3>1, <3>2 DEF NoEarlyOutcome
  <2> QED
    BY <2>1, <2>2
<1>3. IF c \in Ignored THEN outcome' = [outcome EXCEPT ![c] = "ignored"]
                       ELSE outcome' = outcome
  BY DEF Issue, Inductive, Types, TypeOK
<1>4. executed' = executed
  BY DEF Issue
<1> QED
  BY <1>1, <1>2, <1>3, <1>4 DEF Exchange!Send, Issued

LEMMA ProgressIsReturn ==
    ASSUME Inductive, Inductive', NoEarlyOutcome, NEW c \in Command, Progress(c)
    PROVE  \/ \E r \in {"AK", "NK", "error"} : Exchange!Return(c, r)
           \/ UNCHANGED <<Issued, clean, executed, outcome>>
<1>1. /\ Open(c) /\ c \in Issued /\ Issued' = Issued
      /\ UNCHANGED <<clean, executed>>
  BY DEF Progress, PollBusyOn, PollResponse, PollBusyOff, Abandon, Answered,
         AfterBusyOn, GivesUp, Waits, Open, Issued, historyVars, Inductive, Types, TypeOK
<1>2. CASE outcome' = outcome
  BY <1>1, <1>2
<1>3. CASE outcome' # outcome
  <2>1. /\ PollBusyOff(c) \/ Abandon(c)
        /\ c \notin Ignored
    BY <1>3 DEF Progress, PollBusyOn, PollResponse, PollBusyOff, Abandon,
                OutcomeOnFailure
  <2>2. outcome[c] = "none"
    BY <1>1, <2>1 DEF NoEarlyOutcome
  <2>3. \E r \in {"AK", "NK", "error"} : outcome' = [outcome EXCEPT ![c] = r]
    <3>1. in.response # None => in.response.result \in Verdict
      BY DEF Inductive, Types, TypeOK, Input, Answer
    <3> QED
      BY <2>1, <3>1 DEF PollBusyOff, Abandon, OutcomeOnFailure, Verdict
  <2>4. PICK r \in {"AK", "NK", "error"} : outcome' = [outcome EXCEPT ![c] = r]
    BY <2>3
  <2>5. r = "error" \/ (c \in clean => [cmd |-> c, result |-> r] \in executed)
    <3>1. outcome'[c] = r
      BY <2>4 DEF Inductive, Types, TypeOK
    <3> QED
      BY <3>1, <1>1 DEF Inductive, AnswerIsOwn, Verdict
  <2> QED
    BY <1>1, <2>2, <2>4, <2>5 DEF Exchange!Return, Issued
<1> QED
  BY <1>2, <1>3

LEMMA DeviceIsExecute ==
    ASSUME Inductive, Vtv
    PROVE  \/ \E c \in Command, v \in {"AK", "NK"} : Exchange!Execute(c, v)
           \/ UNCHANGED <<Issued, clean, executed, outcome>>
<1>1. UNCHANGED <<Issued, clean, outcome>>
  BY DEF Vtv, clientVars, Issued
<1>2. CASE VtvRespond
  <2>1. devCmd \in Issued
    BY <1>2 DEF VtvRespond, Inductive, Types, Known
  <2>2. PICK v \in MayAnswer[devCmd] :
           executed' = executed \cup {[cmd |-> devCmd, result |-> v]}
    BY <1>2 DEF VtvRespond
  <2>3. v \in {"AK", "NK"} /\ devCmd \in Command
    BY <2>1, <2>2, FieldNetworkAssumption DEF Issued
  <2> QED
    BY <1>1, <2>1, <2>2, <2>3 DEF Exchange!Execute, Issued
<1>3. CASE ~VtvRespond
  BY <1>1, <1>3 DEF Vtv, VtvReceive, VtvSend, VtvBusyOff
<1> QED
  BY <1>2, <1>3

\* Every step of the handshake is a step of the abstract exchange or leaves it
\* as it is: one outcome per command, never revised, and the right one.
THEOREM HandshakeImplementsExchange == Spec => ImplementsExchange
<1>1. Init => Exchange!Init /\ NoEarlyOutcome
  BY DEF Init, Exchange!Init, NoEarlyOutcome, Open
<1>2. Inductive /\ Inductive' /\ NoEarlyOutcome /\ [Next]_vars
        => [Exchange!Next]_(Exchange!exchange)
  <2> SUFFICES ASSUME Inductive, Inductive', NoEarlyOutcome, [Next]_vars
               PROVE  Exchange!Next \/ UNCHANGED Exchange!exchange
    OBVIOUS
  <2>1. ASSUME UNCHANGED <<Issued, clean, executed, outcome>>
        PROVE  UNCHANGED Exchange!exchange
    BY <2>1 DEF Exchange!exchange, Issued
  <2>2. ASSUME NEW c \in Command, SendCommand(c)
        PROVE  Exchange!Next \/ UNCHANGED Exchange!exchange
    <3>1. CASE Issue(c, None)
      BY <2>2, <3>1, IssueIsSend DEF SendCommand, Exchange!Next
    <3>2. CASE ~Issue(c, None)
      BY <2>1, <2>2, <3>2
         DEF SendCommand, Issued, historyVars, Inductive, Types, TypeOK
    <3> QED
      BY <3>1, <3>2
  <2>3. ASSUME NEW c \in Command, ResumeSend(c) PROVE Exchange!Next
    BY <2>3, IssueIsSend DEF ResumeSend, Exchange!Next
  <2>4. ASSUME NEW c \in Command, Progress(c)
        PROVE  Exchange!Next \/ UNCHANGED Exchange!exchange
    BY <2>1, <2>4, ProgressIsReturn DEF Exchange!Next
  <2>5. CASE Vtv
    BY <2>1, <2>5, DeviceIsExecute DEF Exchange!Next
  <2>6. CASE SendOutput \/ HandleInput \/ Disconnect \/ UNCHANGED vars
    <3>1. UNCHANGED <<Issued, clean, executed, outcome>>
      BY <2>6 DEF SendOutput, HandleInput, Disconnect, vars, clientVars, historyVars,
                  Issued
    <3> QED
      BY <2>1, <3>1
  <2> QED
    BY <2>2, <2>3, <2>4, <2>5, <2>6 DEF Next
<1> QED
  BY <1>1, <1>2, OutcomeStep, SafetyInvariant, PTL DEF Spec, ImplementsExchange

=============================================================================
