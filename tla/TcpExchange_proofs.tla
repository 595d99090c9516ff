-------------------------- MODULE TcpExchange_proofs --------------------------
(***************************************************************************)
(* Proofs about TcpExchange, for any number of commands of any kind.       *)
(*                                                                         *)
(* A line does not say which command it answers, so whose lines a command  *)
(* reads rests on what is still to come when it is written.  After the     *)
(* discard of a prompt device that is nothing (AloneWhenPrompt).  With any *)
(* device it has to be counted: as long as every command before read its   *)
(* answer to the end, what is still in the device's queue will be answered *)
(* without a line (InLine).                                                *)
(***************************************************************************)
EXTENDS TcpExchange, TLAPS

Reading == at \in {"status", "result", "more"}
Queued(c) == \E k \in 1 .. Len(toDevice) : toDevice[k] = c

\* The lines that are there and those to come belong to the current command,
\* and while the device has not taken it there are none.
OwnLines ==
  /\ \A k \in 1 .. Len(buffer) : buffer[k].cmd = current
  /\ owes > 0 => working = current
  /\ Queued(current) => buffer = <<>> /\ owes = 0

\* After the discard nothing of an earlier command is left.
AloneWhenPrompt ==
  prompt /\ Reading =>
    /\ OwnLines
    /\ toDevice \in {<<>>, <<current>>}

\* The queue is in the order of the commands, each in it at most once.
QueueAscends ==
  /\ \A k \in 1 .. Len(toDevice) : toDevice[k] <= current
  /\ \A j, k \in 1 .. Len(toDevice) : j < k => toDevice[j] < toDevice[k]
  /\ at \in {"idle", "discarding"} =>
       \A k \in 1 .. Len(toDevice) : toDevice[k] < current

\* What the device has not done yet of earlier commands gives no line.
OldAreSilent ==
  \A k \in 1 .. Len(toDevice) : toDevice[k] < current =>
    ~inputResponse /\ toDevice[k] \notin Expecting

\* How many lines the current command is still to read, at most.
Rest == CASE at \in {"idle", "discarding"} -> 0
          [] at = "status" /\ current \in Expecting -> 2
          [] OTHER -> 1

InLine ==
  Straight(current) /\ at # "closed" =>
    /\ OwnLines
    /\ OldAreSilent
    /\ ~(current \in UntilIdle /\ Reading) => Len(buffer) + owes <= Rest
    /\ inputResponse /\ at \in {"result", "more"} =>
         /\ ~Queued(current)
         /\ [cmd |-> current, result |-> "AK"] \in executed

\* Where the client can stand.
Standing ==
  /\ at = "status" => inputResponse
  /\ at = "result" => current \in Expecting
  /\ at = "more" => current \in UntilIdle

\* A verdict in a line was given.
VerdictsGiven ==
  \A k \in 1 .. Len(buffer) : buffer[k].says \in Verdict =>
    [cmd |-> buffer[k].cmd, result |-> buffer[k].says] \in executed

\* Commands from the current one on have not been returned.
OneByOne ==
  \A c \in Command :
    /\ c > current => outcome[c] = "none"
    /\ c = current /\ at # "closed" => outcome[c] = "none"

Inv ==
  /\ TypeOK
  /\ AloneWhenPrompt
  /\ QueueAscends
  /\ InLine
  /\ Standing
  /\ VerdictsGiven
  /\ OneByOne
  /\ PromptAnswersAreOwn
  /\ AnswersOwnSoFar

-----------------------------------------------------------------------------
\* What the library's operators on sequences do to lengths and places.
LEMMA TailFacts ==
  ASSUME NEW S, NEW s \in Seq(S), s # <<>>
  PROVE  /\ Tail(s) \in Seq(S) /\ Len(Tail(s)) = Len(s) - 1 /\ Len(s) \in Nat
         /\ Len(s) >= 1 /\ Head(s) = s[1] /\ s[1] \in S
         /\ \A k \in 1 .. Len(Tail(s)) : Tail(s)[k] = s[k + 1]
  OBVIOUS

LEMMA AppendFacts ==
  ASSUME NEW S, NEW s \in Seq(S), NEW x \in S
  PROVE  /\ Append(s, x) \in Seq(S) /\ Len(Append(s, x)) = Len(s) + 1
         /\ Len(s) \in Nat /\ Append(s, x) # <<>>
         /\ \A k \in 1 .. Len(s) : Append(s, x)[k] = s[k]
         /\ Append(s, x)[Len(s) + 1] = x
  OBVIOUS

\* A line read: the head of the buffer, the others move up.
LEMMA HeadAndTail ==
  ASSUME TypeOK, buffer # <<>>
  PROVE  /\ Tail(buffer) \in Seq(Line) /\ Len(buffer) \in Nat
         /\ Len(Tail(buffer)) = Len(buffer) - 1 /\ Len(buffer) >= 1
         /\ Head(buffer) = buffer[1] /\ Head(buffer) \in Line
         /\ Head(buffer).cmd \in Command
         /\ \A k \in 1 .. Len(Tail(buffer)) :
              Tail(buffer)[k] = buffer[k + 1] /\ k + 1 \in 1 .. Len(buffer)
<1>1. buffer \in Seq(Line)
  BY DEF TypeOK
<1>2. \A x \in Line : x.cmd \in Command
  BY DEF Line
<1> QED
  BY <1>1, <1>2, TailFacts

LEMMA InvInit == Init => Inv
  BY TcpAssumption DEF Init, Inv, TypeOK, Command, AloneWhenPrompt, Reading,
     QueueAscends, InLine, OwnLines, OldAreSilent, Queued, Rest, Standing,
     VerdictsGiven, OneByOne, PromptAnswersAreOwn, AnswersAreOwn,
     AnswersOwnSoFar

\* The line that is read belongs to the command that reads it, where the
\* properties say so.
LEMMA OwnHeard ==
  ASSUME Inv, Reading, Hear, UNCHANGED prompt, current \in Command
  PROVE  /\ PromptAnswersAreOwn' /\ AnswersOwnSoFar'
         /\ heard' \in [Command -> SUBSET Command]
<1>1. Head(buffer).cmd \in Command /\ Head(buffer) = buffer[1]
      /\ 1 \in 1 .. Len(buffer)
  BY HeadAndTail DEF Inv, Hear
<1>2. at # "closed"
  BY DEF Reading
<1>3. /\ prompt => Head(buffer).cmd = current
      /\ Straight(current) => Head(buffer).cmd = current
  BY <1>1, <1>2 DEF Inv, AloneWhenPrompt, InLine, OwnLines
<1>4. heard' \in [Command -> SUBSET Command]
  BY <1>1 DEF Inv, TypeOK, Hear
<1>5. ASSUME NEW c \in Command
      PROVE  heard'[c] = IF c = current THEN heard[c] \cup {Head(buffer).cmd}
                         ELSE heard[c]
  BY DEF Inv, TypeOK, Hear
<1>6. PromptAnswersAreOwn'
  BY <1>3, <1>5 DEF Inv, PromptAnswersAreOwn, AnswersAreOwn
<1>7. AnswersOwnSoFar'
  <2>1. ASSUME NEW c \in Command, Straight(c) PROVE heard'[c] \subseteq {c}
    <3>1. heard[c] \subseteq {c}
      BY <2>1 DEF Inv, AnswersOwnSoFar
    <3> QED
      BY <1>3, <1>5, <2>1, <3>1
  <2> QED
    BY <2>1 DEF AnswersOwnSoFar, Straight
<1> QED
  BY <1>4, <1>6, <1>7

\* An error, or NK, ends the connection: nothing is read any more.
LEMMA ClosingKeeps ==
  ASSUME Inv, current \in Command, NEW r \in {"NK", "error"},
         outcome' = [outcome EXCEPT ![current] = r], at' = "closed",
         UNCHANGED <<setting, current, toDevice, working, owes, executed>>,
         \/ UNCHANGED <<buffer, heard>>
         \/ /\ buffer # <<>> /\ buffer' = Tail(buffer)
            /\ UNCHANGED heard \/ (Reading /\ Hear)
  PROVE  Inv'
<1>1. current' = current /\ UNCHANGED <<inputResponse, prompt>>
  BY DEF setting
<1>2. /\ buffer' \in Seq(Line)
      /\ \A k \in 1 .. Len(buffer') :
           \E j \in 1 .. Len(buffer) : buffer'[k] = buffer[j]
  <2>1. CASE UNCHANGED buffer
    BY <2>1 DEF Inv, TypeOK
  <2>2. CASE buffer # <<>> /\ buffer' = Tail(buffer)
    BY <2>2, HeadAndTail DEF Inv
  <2> QED
    BY <2>1, <2>2
<1>3. heard' \in [Command -> SUBSET Command]
  BY HeadAndTail DEF Inv, TypeOK, Hear
<1>4. TypeOK'
  BY <1>1, <1>2, <1>3 DEF Inv, TypeOK
<1>5. AloneWhenPrompt' /\ InLine' /\ Standing'
  BY DEF AloneWhenPrompt, Reading, InLine, Standing
<1>6. QueueAscends'
  BY <1>1 DEF Inv, QueueAscends
<1>7. VerdictsGiven'
  BY <1>2 DEF Inv, VerdictsGiven
<1>8. OneByOne'
  BY <1>1 DEF Inv, TypeOK, OneByOne
<1>9. PromptAnswersAreOwn' /\ AnswersOwnSoFar'
  BY <1>1, OwnHeard DEF Inv, PromptAnswersAreOwn, AnswersAreOwn,
     AnswersOwnSoFar, Straight
<1> QED
  BY <1>4, <1>5, <1>6, <1>7, <1>8, <1>9 DEF Inv

\* A command is returned: the next one starts with nothing still to be read,
\* as long as it is in line.
LEMMA ReturningKeeps ==
  ASSUME Inv, current \in Command, NEW r \in {"AK", "ignored"}, Return(r),
         UNCHANGED <<setting, working, owes, executed>>,
         toDevice' \in Seq(Command),
         \A k \in 1 .. Len(toDevice') : toDevice'[k] <= current,
         \A j, k \in 1 .. Len(toDevice') : j < k => toDevice'[j] < toDevice'[k],
         Straight(current') =>
           /\ buffer' = <<>> /\ owes = 0
           /\ \A k \in 1 .. Len(toDevice') :
                ~inputResponse /\ toDevice'[k] \notin Expecting,
         UNCHANGED buffer \/ (buffer # <<>> /\ buffer' = Tail(buffer)),
         UNCHANGED heard \/ (Reading /\ Hear)
  PROVE  Inv'
<1>1. /\ current' = current + 1 /\ at' = "idle"
      /\ UNCHANGED <<inputResponse, prompt>>
      /\ current \in 1 .. N /\ N \in Nat
  BY TcpAssumption DEF Return, setting, Command
<1>2. /\ buffer' \in Seq(Line)
      /\ \A k \in 1 .. Len(buffer') :
           \E j \in 1 .. Len(buffer) : buffer'[k] = buffer[j]
  <2>1. CASE UNCHANGED buffer
    BY <2>1 DEF Inv, TypeOK
  <2>2. CASE buffer # <<>> /\ buffer' = Tail(buffer)
    BY <2>2, HeadAndTail DEF Inv
  <2> QED
    BY <2>1, <2>2
<1>3. /\ PromptAnswersAreOwn' /\ AnswersOwnSoFar'
      /\ heard' \in [Command -> SUBSET Command]
  BY <1>1, OwnHeard DEF Inv, TypeOK, PromptAnswersAreOwn, AnswersAreOwn,
     AnswersOwnSoFar, Straight
<1>4. TypeOK'
  <2>1. /\ working' = working /\ owes' = owes /\ executed' = executed
        /\ outcome' = [outcome EXCEPT ![current] = r]
    BY DEF Return
  <2> QED
    BY <1>1, <1>2, <1>3, <2>1 DEF Inv, TypeOK
<1>5. AloneWhenPrompt' /\ Standing'
  BY <1>1 DEF AloneWhenPrompt, Reading, Standing
<1>6. QueueAscends'
  BY <1>1 DEF QueueAscends, Command
<1>7. InLine'
  <2>1. ~Queued(current)'
    BY <1>1 DEF Queued, Command
  <2>2. Rest' = 0 /\ ~Reading'
    BY <1>1 DEF Rest, Reading
  <2> QED
    BY <1>1, <2>1, <2>2 DEF InLine, OwnLines, OldAreSilent, Reading, Straight
<1>8. VerdictsGiven'
  BY <1>2 DEF Inv, VerdictsGiven
<1>9. OneByOne'
  BY <1>1 DEF Inv, TypeOK, OneByOne, Return, Command
<1> QED
  BY <1>3, <1>4, <1>5, <1>6, <1>7, <1>8, <1>9 DEF Inv

\* A command is put at the end of the device's queue.
LEMMA WrittenLast ==
  ASSUME Inv, current \in Command, at \in {"idle", "discarding"}, Write
  PROVE  /\ toDevice' \in Seq(Command)
         /\ \A k \in 1 .. Len(toDevice') : toDevice'[k] <= current
         /\ \A j, k \in 1 .. Len(toDevice') : j < k => toDevice'[j] < toDevice'[k]
         /\ Len(toDevice') = Len(toDevice) + 1 /\ Len(toDevice) \in Nat
         /\ \A k \in 1 .. Len(toDevice) : toDevice'[k] = toDevice[k]
         /\ toDevice'[Len(toDevice) + 1] = current
<1>1. /\ toDevice' \in Seq(Command)
      /\ Len(toDevice') = Len(toDevice) + 1 /\ Len(toDevice) \in Nat
      /\ \A k \in 1 .. Len(toDevice) : toDevice'[k] = toDevice[k]
      /\ toDevice'[Len(toDevice) + 1] = current
  BY DEF Write, Inv, TypeOK
<1>2. \A k \in 1 .. Len(toDevice) : toDevice[k] < current
  BY DEF Inv, QueueAscends
<1>3. \A k \in 1 .. Len(toDevice') : k \in 1 .. Len(toDevice) \/ k = Len(toDevice) + 1
  BY <1>1
<1> QED
  BY <1>1, <1>2, <1>3 DEF Inv, QueueAscends, Command

LEMMA SendKeeps == ASSUME Inv, Send PROVE Inv'
<1>1. /\ current \in Command /\ at = "idle"
      /\ UNCHANGED <<setting, working, owes, buffer, heard, executed>>
  BY TcpAssumption DEF Inv, TypeOK, Send, Command
<1>2. CASE current \in Ignored /\ Write /\ Return("ignored")
  <2>1. ~Straight(current')
    BY <1>1, <1>2 DEF Straight, Return, Command
  <2> QED
    BY <1>1, <1>2, <2>1, WrittenLast, ReturningKeeps
<1>3. CASE UNCHANGED toDevice /\ Fail
  BY <1>1, <1>3, ClosingKeeps DEF Fail
<1>4. CASE at' = "discarding" /\ UNCHANGED <<current, toDevice, outcome>>
  <2>1. /\ current' = current /\ toDevice' = toDevice /\ outcome' = outcome
        /\ UNCHANGED <<inputResponse, prompt, working, owes, buffer, heard, executed>>
    BY <1>1, <1>4 DEF setting
  <2>2. TypeOK'
    BY <1>1, <1>4, <2>1 DEF Inv, TypeOK
  <2>3. AloneWhenPrompt' /\ Standing' /\ VerdictsGiven'
    BY <1>4, <2>1 DEF Inv, AloneWhenPrompt, Reading, Standing, VerdictsGiven
  <2>4. QueueAscends' /\ OneByOne'
    BY <1>1, <1>4, <2>1 DEF Inv, QueueAscends, OneByOne
  <2>5. InLine'
    BY <1>1, <1>4, <2>1 DEF Inv, InLine, OwnLines, OldAreSilent, Queued, Rest,
       Reading, Straight
  <2>6. PromptAnswersAreOwn' /\ AnswersOwnSoFar'
    BY <2>1 DEF Inv, PromptAnswersAreOwn, AnswersAreOwn, AnswersOwnSoFar,
       Straight
  <2> QED
    BY <2>2, <2>3, <2>4, <2>5, <2>6 DEF Inv
<1> QED
  BY <1>2, <1>3, <1>4 DEF Send

LEMMA DiscardKeeps == ASSUME Inv, Discard PROVE Inv'
<1>1. /\ current \in Command /\ at = "discarding" /\ buffer # <<>>
      /\ buffer' = Tail(buffer)
      /\ UNCHANGED <<inputResponse, prompt, toDevice, working, owes, heard,
                     executed>>
  BY DEF Inv, TypeOK, Discard, setting, link
<1>2. CASE Fail
  BY <1>1, <1>2, ClosingKeeps DEF Fail, setting
<1>3. CASE UNCHANGED <<current, at, outcome>>
  <2>1. ~Straight(current)
    <3>1. Len(buffer) + owes > 0
      BY <1>1, HeadAndTail DEF Inv, TypeOK
    <3>2. Rest = 0 /\ ~Reading /\ at # "closed"
      BY <1>1 DEF Rest, Reading
    <3>3. Straight(current) => Len(buffer) + owes <= 0
      BY <3>2 DEF Inv, InLine
    <3> QED
      BY <3>1, <3>3, HeadAndTail, <1>1 DEF Inv, TypeOK
  <2>2. TypeOK'
    BY <1>1, <1>3, HeadAndTail DEF Inv, TypeOK
  <2>3. AloneWhenPrompt' /\ Standing' /\ InLine'
    BY <1>1, <1>3, <2>1 DEF Inv, AloneWhenPrompt, Reading, Standing, InLine,
       Straight
  <2>4. QueueAscends' /\ OneByOne'
    BY <1>1, <1>3 DEF Inv, QueueAscends, OneByOne
  <2>5. VerdictsGiven'
    BY <1>1, HeadAndTail DEF Inv, VerdictsGiven
  <2>6. PromptAnswersAreOwn' /\ AnswersOwnSoFar'
    BY <1>1 DEF Inv, PromptAnswersAreOwn, AnswersAreOwn, AnswersOwnSoFar,
       Straight
  <2> QED
    BY <2>2, <2>3, <2>4, <2>5, <2>6 DEF Inv
<1> QED
  BY <1>2, <1>3 DEF Discard

\* The buffer is empty and the command is written: what comes from now on is
\* an answer to it, or to an earlier one that was not in line.
LEMMA QuietKeeps == ASSUME Inv, Quiet PROVE Inv'
<1>1. /\ current \in Command /\ at = "discarding" /\ buffer = <<>>
      /\ prompt => toDevice = <<>> /\ owes = 0
      /\ UNCHANGED <<setting, working, owes, buffer, heard, executed>>
      /\ UNCHANGED <<inputResponse, prompt>>
  BY DEF Inv, TypeOK, Quiet, setting
<1>2. CASE UNCHANGED toDevice /\ Fail
  BY <1>1, <1>2, ClosingKeeps DEF Fail
<1>3. CASE Write /\ Await
  <2>1. Straight(current) =>
          /\ owes = 0
          /\ \A k \in 1 .. Len(toDevice) :
               ~inputResponse /\ toDevice[k] \notin Expecting
    <3>1. Straight(current) => Len(buffer) + owes <= 0 /\ OldAreSilent
      BY <1>1 DEF Inv, InLine, Rest, Reading
    <3> QED
      BY <1>1, <3>1 DEF Inv, TypeOK, OldAreSilent, QueueAscends
  <2>2. CASE ~inputResponse /\ current \notin Expecting
    <3>1. Return("AK")
      BY <1>3, <2>2 DEF Await
    <3>2. Straight(current') => Straight(current)
      BY <3>1 DEF Return, Straight, Command, Inv, TypeOK
    <3>3. \A k \in 1 .. Len(toDevice') :
            k \in 1 .. Len(toDevice) \/ k = Len(toDevice) + 1
      BY <1>1, <1>3, WrittenLast
    <3>4. Straight(current') => \A k \in 1 .. Len(toDevice') :
            ~inputResponse /\ toDevice'[k] \notin Expecting
      BY <1>1, <1>3, <2>1, <2>2, <3>2, <3>3, WrittenLast
    <3> QED
      BY <1>1, <1>3, <2>1, <3>1, <3>2, <3>4, WrittenLast, ReturningKeeps
  <2>3. CASE inputResponse \/ current \in Expecting
    <3>1. /\ at' = IF inputResponse THEN "status" ELSE "result"
          /\ current' = current /\ outcome' = outcome
      BY <1>3, <2>3 DEF Await
    <3>2. Standing' /\ VerdictsGiven'
      BY <1>1, <2>3, <3>1 DEF Inv, Standing, VerdictsGiven
    <3>3. TypeOK'
      BY <1>1, <1>3, <3>1, WrittenLast DEF Inv, TypeOK
    <3>4. QueueAscends' /\ OneByOne'
      BY <1>1, <1>3, <3>1, WrittenLast DEF Inv, QueueAscends, OneByOne
    <3>5. AloneWhenPrompt'
      <4>1. prompt => toDevice' = <<current>>
        BY <1>1, <1>3 DEF Write
      <4> QED
        BY <1>1, <3>1, <4>1 DEF AloneWhenPrompt, OwnLines, Inv, TypeOK
    <3>6. InLine'
      <4>1. Straight(current) => OwnLines'
        BY <1>1, <2>1, <3>1 DEF OwnLines
      <4>2. Straight(current) => OldAreSilent'
        <5>1. \A k \in 1 .. Len(toDevice') :
                k \in 1 .. Len(toDevice) \/ toDevice'[k] = current
          BY <1>1, <1>3, WrittenLast
        <5> QED
          BY <1>1, <1>3, <2>1, <3>1, <5>1, WrittenLast
          DEF OldAreSilent, Command
      <4>3. Straight(current) => Len(buffer') + owes' <= Rest'
        BY <1>1, <2>1, <3>1 DEF Rest
      <4> QED
        BY <1>1, <3>1, <4>1, <4>2, <4>3 DEF InLine, Straight
    <3>7. PromptAnswersAreOwn' /\ AnswersOwnSoFar'
      BY <1>1 DEF Inv, PromptAnswersAreOwn, AnswersAreOwn, AnswersOwnSoFar,
         Straight
    <3> QED
      BY <3>2, <3>3, <3>4, <3>5, <3>6, <3>7 DEF Inv
  <2> QED
    BY <2>2, <2>3
<1> QED
  BY <1>2, <1>3 DEF Quiet

\* What a read leaves, and what it leaves alone.
LEMMA AfterHearing ==
  ASSUME Inv, Reading, Hear, UNCHANGED <<setting, link, executed>>
  PROVE  /\ current \in Command /\ at # "closed"
         /\ buffer # <<>> /\ buffer' = Tail(buffer)
         /\ UNCHANGED <<inputResponse, prompt, toDevice, working, owes, executed>>
         /\ UNCHANGED setting
         /\ buffer' \in Seq(Line) /\ Len(buffer') = Len(buffer) - 1
         /\ Len(buffer') \in Nat /\ owes \in Nat
         /\ \A k \in 1 .. Len(buffer') :
              buffer'[k] = buffer[k + 1] /\ k + 1 \in 1 .. Len(buffer)
         /\ Head(buffer) = buffer[1] /\ 1 \in 1 .. Len(buffer)
         /\ (prompt \/ Straight(current)) => OwnLines /\ ~Queued(current)
         /\ VerdictsGiven'
<1>1. current \in Command /\ at # "closed"
  BY DEF Inv, TypeOK, Reading
<1>2. UNCHANGED <<inputResponse, prompt, toDevice, working, owes, executed>>
  BY DEF setting, link
<1>3. (prompt \/ Straight(current)) => OwnLines /\ ~Queued(current)
  BY <1>1 DEF Inv, AloneWhenPrompt, InLine, OwnLines, Hear
<1>4. owes \in Nat
  BY TcpAssumption DEF Inv, TypeOK
<1>5. /\ buffer # <<>> /\ buffer' = Tail(buffer)
      /\ buffer' \in Seq(Line) /\ Len(buffer') = Len(buffer) - 1
      /\ Len(buffer') \in Nat
      /\ \A k \in 1 .. Len(buffer') :
           buffer'[k] = buffer[k + 1] /\ k + 1 \in 1 .. Len(buffer)
      /\ Head(buffer) = buffer[1] /\ 1 \in 1 .. Len(buffer)
  BY HeadAndTail DEF Inv, Hear
<1>6. VerdictsGiven'
  BY <1>2, <1>5 DEF Inv, VerdictsGiven
<1> QED
  BY <1>1, <1>2, <1>3, <1>4, <1>5, <1>6

\* A read that goes on to the next one.
LEMMA ReadingOnKeeps ==
  ASSUME Inv, Reading, Hear, UNCHANGED <<setting, link, executed>>,
         UNCHANGED <<current, outcome>>, Reading', Standing',
         Straight(current) =>
           /\ current \notin UntilIdle => Len(buffer') + owes <= Rest'
           /\ inputResponse /\ at' \in {"result", "more"} =>
                [cmd |-> current, result |-> "AK"] \in executed
  PROVE  Inv'
<1>1. /\ current' = current /\ outcome' = outcome
      /\ at' \in {"status", "result", "more"} /\ at # "closed"
      /\ current \in Command
  BY AfterHearing DEF Reading
<1>2. /\ PromptAnswersAreOwn' /\ AnswersOwnSoFar'
      /\ heard' \in [Command -> SUBSET Command]
  BY <1>1, AfterHearing, OwnHeard
<1>3. TypeOK'
  BY <1>1, <1>2, AfterHearing DEF Inv, TypeOK
<1>4. ASSUME prompt \/ Straight(current) PROVE OwnLines' /\ ~Queued(current)'
  BY <1>1, <1>4, AfterHearing DEF OwnLines, Queued
<1>5. AloneWhenPrompt'
  BY <1>1, <1>4, AfterHearing DEF Inv, AloneWhenPrompt
<1>6. QueueAscends' /\ OneByOne'
  BY <1>1, AfterHearing DEF Inv, QueueAscends, OneByOne
<1>7. Straight(current) => OldAreSilent'
  BY <1>1, AfterHearing DEF Inv, InLine, OldAreSilent
<1>8. InLine'
  BY <1>1, <1>4, <1>7, AfterHearing DEF InLine, Straight
<1> QED
  BY <1>2, <1>3, <1>5, <1>6, <1>8, AfterHearing DEF Inv

\* A read that ends the command: everything that is in line was read.
LEMMA LastReadKeeps ==
  ASSUME Inv, Reading, Hear, UNCHANGED <<setting, link, executed>>,
         Return("AK"),
         Straight(current') => Len(buffer) + owes <= 1
  PROVE  Inv'
<1>1. Straight(current') => Straight(current) /\ current \notin UntilIdle
  BY AfterHearing DEF Return, Straight, Command
<1>2. Straight(current') => buffer' = <<>> /\ owes = 0
  BY AfterHearing
<1>3. ASSUME Straight(current'), NEW k \in 1 .. Len(toDevice')
      PROVE  ~inputResponse /\ toDevice'[k] \notin Expecting
  <2>1. toDevice' = toDevice /\ toDevice[k] \in Command /\ current \in Command
    BY <1>3, AfterHearing DEF Inv, TypeOK
  <2>2. OldAreSilent /\ ~Queued(current)
    BY <1>1, <1>3, AfterHearing DEF Inv, InLine
  <2>3. toDevice[k] < current
    BY <1>3, <2>1, <2>2 DEF Queued, Inv, QueueAscends, Command
  <2> QED
    BY <1>3, <2>1, <2>2, <2>3 DEF OldAreSilent
<1> QED
  BY <1>2, <1>3, AfterHearing, ReturningKeeps DEF Inv, TypeOK, QueueAscends

LEMMA ReadStatusKeeps == ASSUME Inv, ReadStatus PROVE Inv'
<1>1. /\ Reading /\ at = "status" /\ Hear
      /\ UNCHANGED <<setting, link, executed>>
  BY DEF ReadStatus, Reading
<1>2. Head(buffer) \in Line
  BY <1>1, HeadAndTail DEF Inv, Hear
<1>3. CASE Fail \/ ReturnNk
  BY <1>1, <1>3, AfterHearing, ClosingKeeps DEF Fail, ReturnNk
<1>4. CASE /\ Head(buffer).good /\ Head(buffer).says = "AK"
           /\ IF current \in Expecting
              THEN at' = "result" /\ UNCHANGED <<current, outcome>>
              ELSE Return("AK")
  <2>1. Straight(current) => [cmd |-> current, result |-> "AK"] \in executed
    BY <1>1, <1>4, AfterHearing DEF Inv, OwnLines, VerdictsGiven, Verdict
  <2>2. Straight(current) /\ current \notin UntilIdle =>
          Len(buffer) + owes <= IF current \in Expecting THEN 2 ELSE 1
    BY <1>1 DEF Inv, InLine, Rest
  <2>3. CASE current \in Expecting
    <3>1. at' = "result" /\ current' = current
      BY <1>4, <2>3
    <3>2. Reading' /\ Standing' /\ Rest' = 1
      BY <2>3, <3>1 DEF Reading, Standing, Rest
    <3> QED
      BY <1>1, <1>4, <2>1, <2>2, <2>3, <3>1, <3>2, AfterHearing, ReadingOnKeeps
  <2>4. CASE current \notin Expecting
    <3>1. Straight(current') => Straight(current) /\ current \notin UntilIdle
      BY <1>1, <1>4, <2>4, AfterHearing DEF Return, Straight, Command
    <3> QED
      BY <1>1, <1>4, <2>2, <2>4, <3>1, LastReadKeeps
  <2> QED
    BY <2>3, <2>4
<1> QED
  BY <1>1, <1>2, <1>3, <1>4 DEF ReadStatus, Line, Verdict

LEMMA ReadResultKeeps == ASSUME Inv, ReadResult PROVE Inv'
<1>1. /\ Reading /\ at \in {"result", "more"} /\ Hear
      /\ UNCHANGED <<setting, link, executed>>
  BY DEF ReadResult, Reading
<1>2. CASE Fail
  BY <1>1, <1>2, AfterHearing, ClosingKeeps DEF Fail
<1>3. CASE /\ current \in UntilIdle
           /\ at' = "more" /\ UNCHANGED <<current, outcome>>
  <2>1. Reading' /\ Standing'
    BY <1>3 DEF Reading, Standing
  <2> QED
    BY <1>1, <1>3, <2>1, AfterHearing, ReadingOnKeeps DEF Inv, InLine
<1>4. CASE current \notin UntilIdle /\ Return("AK")
  <2>1. Straight(current) => Len(buffer) + owes <= 1
    BY <1>1, <1>4, AfterHearing DEF Inv, InLine, Rest
  <2>2. Straight(current') => Straight(current)
    BY <1>1, <1>4, AfterHearing DEF Return, Straight, Command
  <2> QED
    BY <1>1, <1>4, <2>1, <2>2, LastReadKeeps
<1>5. Head(buffer).good \in BOOLEAN
  BY <1>1, HeadAndTail DEF Inv, Hear, Line
<1> QED
  BY <1>2, <1>3, <1>4, <1>5 DEF ReadResult

\* The pause after a result: the command read until then, so the next is not
\* in line.
LEMMA NoMoreKeeps == ASSUME Inv, NoMore PROVE Inv'
<1>1. /\ current \in Command /\ current \in UntilIdle
      /\ UNCHANGED <<setting, link, buffer, heard, executed>>
      /\ Return("AK")
      /\ UNCHANGED <<toDevice, working, owes>>
  BY DEF NoMore, Inv, TypeOK, Standing, link
<1>2. ~Straight(current')
  BY <1>1 DEF Return, Straight, Command
<1> QED
  BY <1>1, <1>2, ReturningKeeps DEF Inv, TypeOK, QueueAscends

LEMMA EndingKeeps == ASSUME Inv, TimeOut \/ Lose PROVE Inv'
<1>1. current \in Command
  BY DEF TimeOut, Lose, Inv, TypeOK
<1> QED
  BY <1>1, ClosingKeeps DEF TimeOut, Lose, Fail, link

-----------------------------------------------------------------------------
\* The device takes a command: none of its lines were there before.
LEMMA ExecuteKeeps == ASSUME Inv, NEW v \in Verdict, Execute(v) PROVE Inv'
<1> DEFINE c == Head(toDevice)
<1>1. /\ toDevice # <<>> /\ owes = 0 /\ toDevice' = Tail(toDevice)
      /\ working' = c /\ owes' \in Owed(c, v)
      /\ executed' = executed \cup {[cmd |-> c, result |-> v]}
      /\ UNCHANGED <<inputResponse, prompt, current, at, heard, outcome>>
      /\ IF inputResponse
         THEN \E g \in Condition :
                buffer' = Append(buffer, [cmd |-> c, says |-> v, good |-> g])
         ELSE buffer' = buffer
  BY DEF Execute, setting
<1>2. /\ Tail(toDevice) \in Seq(Command) /\ Len(toDevice) \in Nat
      /\ Len(Tail(toDevice)) = Len(toDevice) - 1 /\ Len(toDevice) >= 1
      /\ c = toDevice[1] /\ c \in Command
      /\ \A k \in 1 .. Len(Tail(toDevice)) :
           Tail(toDevice)[k] = toDevice[k + 1] /\ k + 1 \in 1 .. Len(toDevice)
  BY <1>1, TailFacts DEF Inv, TypeOK
<1>3. \A k \in 1 .. Len(toDevice') :
        /\ toDevice'[k] = toDevice[k + 1] /\ k + 1 \in 1 .. Len(toDevice)
        /\ c < toDevice'[k] /\ 1 \in 1 .. Len(toDevice)
  BY <1>1, <1>2 DEF Inv, QueueAscends
<1>4. /\ owes' \in Nat /\ owes' <= MaxResults
      /\ owes' > 0 => c \in Expecting
      /\ c \notin UntilIdle => owes' <= 1
  BY <1>1, TcpAssumption DEF Owed
<1>5. /\ buffer' \in Seq(Line) /\ Len(buffer) \in Nat
      /\ Len(buffer') = Len(buffer) + (IF inputResponse THEN 1 ELSE 0)
      /\ \A k \in 1 .. Len(buffer) : buffer'[k] = buffer[k]
      /\ inputResponse => /\ buffer'[Len(buffer) + 1].cmd = c
                          /\ buffer'[Len(buffer) + 1].says = v
  <2>1. CASE ~inputResponse
    BY <1>1, <2>1 DEF Inv, TypeOK
  <2>2. CASE inputResponse
    <3>1. PICK g \in Condition :
            buffer' = Append(buffer, [cmd |-> c, says |-> v, good |-> g])
      BY <1>1, <2>2
    <3>2. [cmd |-> c, says |-> v, good |-> g] \in Line
      BY <1>2 DEF Line, Condition
    <3>3. buffer \in Seq(Line)
      BY DEF Inv, TypeOK
    <3> QED
      BY <2>2, <3>1, <3>2, <3>3, AppendFacts
  <2> QED
    BY <2>1, <2>2
<1>6. \A k \in 1 .. Len(buffer') :
        k \in 1 .. Len(buffer) \/ (inputResponse /\ k = Len(buffer) + 1)
  BY <1>5
<1>7. TypeOK'
  BY <1>1, <1>2, <1>4, <1>5, TcpAssumption DEF Inv, TypeOK, Command
<1>8. VerdictsGiven'
  BY <1>1, <1>5, <1>6 DEF Inv, VerdictsGiven
<1>9. QueueAscends'
  BY <1>1, <1>2, <1>3 DEF Inv, QueueAscends
<1>10. OneByOne' /\ Standing' /\ PromptAnswersAreOwn' /\ AnswersOwnSoFar'
  BY <1>1 DEF Inv, OneByOne, Standing, PromptAnswersAreOwn, AnswersAreOwn,
     AnswersOwnSoFar, Straight
<1>11. Queued(c) /\ (Queued(current)' => Queued(current)) /\ c <= current
  BY <1>1, <1>2, <1>3 DEF Queued, Inv, QueueAscends
\* The current command, which leaves the queue with this.
<1>12. ASSUME c = current, OwnLines PROVE OwnLines'
  <2>1. ~Queued(current)' /\ buffer = <<>>
    BY <1>1, <1>2, <1>3, <1>11, <1>12 DEF Queued, OwnLines, Command
  <2> QED
    BY <1>1, <1>5, <1>6, <1>12, <2>1 DEF OwnLines
<1>13. AloneWhenPrompt'
  <2>1. ASSUME prompt, Reading PROVE OwnLines' /\ toDevice' = <<>>
    <3>1. toDevice = <<current>> /\ OwnLines
      BY <1>1, <2>1 DEF Inv, AloneWhenPrompt
    <3>2. c = current /\ toDevice' = <<>>
      BY <1>1, <3>1
    <3> QED
      BY <1>12, <3>1, <3>2
  <2> QED
    BY <1>1, <2>1 DEF AloneWhenPrompt, Reading
<1>14. InLine'
  <2> SUFFICES ASSUME Straight(current), at # "closed"
      PROVE  /\ OwnLines' /\ OldAreSilent'
             /\ ~(current \in UntilIdle /\ Reading)
                  => Len(buffer') + owes' <= Rest'
             /\ inputResponse /\ at \in {"result", "more"} =>
                  /\ ~Queued(current)'
                  /\ [cmd |-> current, result |-> "AK"] \in executed'
    BY <1>1 DEF InLine, Reading, Straight
  <2>1. /\ OwnLines /\ OldAreSilent /\ Rest' = Rest
        /\ ~(current \in UntilIdle /\ Reading) => Len(buffer) + owes <= Rest
        /\ inputResponse /\ at \in {"result", "more"} =>
             /\ ~Queued(current)
             /\ [cmd |-> current, result |-> "AK"] \in executed
    BY <1>1 DEF Inv, InLine, Rest
  <2>2. OldAreSilent'
    BY <1>1, <1>3, <2>1 DEF OldAreSilent
  <2>3. CASE c # current
    <3>1. ~inputResponse /\ c \notin Expecting
      BY <1>2, <1>11, <2>1, <2>3 DEF OldAreSilent, Inv, TypeOK, Command
    <3>2. owes' = 0 /\ buffer' = buffer
      BY <1>1, <1>4, <3>1
    <3> QED
      BY <1>1, <1>11, <2>1, <2>2, <3>1, <3>2 DEF OwnLines
  <2>4. CASE c = current
    <3>1. OwnLines' /\ buffer = <<>>
      BY <1>11, <1>12, <2>1, <2>4 DEF OwnLines
    <3>2. at \notin {"idle", "discarding"}
      <4>1. 1 \in 1 .. Len(toDevice) /\ ~(c < c)
        BY <1>2 DEF Command
      <4> QED
        BY <1>2, <2>4, <4>1 DEF Inv, QueueAscends
    <3>3. at \in {"status", "result", "more"} /\ Reading
      BY <2>4, <3>2 DEF Inv, TypeOK, Reading
    <3>4. ~(inputResponse /\ at \in {"result", "more"})
      BY <1>11, <2>1, <2>4
    <3>5. ASSUME current \notin UntilIdle PROVE Len(buffer') + owes' <= Rest'
      <4>1. Len(buffer') = IF inputResponse THEN 1 ELSE 0
        BY <1>5, <3>1
      <4>2. at = "status" <=> inputResponse
        BY <3>3, <3>4 DEF Inv, Standing
      <4>3. owes' <= IF current \in Expecting THEN 1 ELSE 0
        BY <1>4, <2>4, <3>5
      <4>4. Rest = IF inputResponse /\ current \in Expecting THEN 2 ELSE 1
        BY <3>3, <4>2 DEF Rest
      <4>5. Rest' = IF inputResponse /\ current \in Expecting THEN 2 ELSE 1
        BY <2>1, <4>4
      <4>6. owes' \in Nat
        BY <1>4
      <4>7. Len(buffer') + owes' <= IF inputResponse /\ current \in Expecting
                                    THEN 2 ELSE 1
        BY <1>5, <4>1, <4>3, <4>6
      <4> QED
        BY <4>5, <4>7
    <3> QED
      BY <2>2, <3>1, <3>3, <3>4, <3>5
  <2> QED
    BY <2>3, <2>4
<1> QED
  BY <1>7, <1>8, <1>9, <1>10, <1>13, <1>14 DEF Inv

\* A result line that was owed is in the buffer.
LEMMA SendResultKeeps == ASSUME Inv, SendResult PROVE Inv'
<1>1. /\ owes > 0 /\ owes' = owes - 1 /\ owes \in Nat
      /\ working \in Command
      /\ UNCHANGED <<inputResponse, prompt, current, at, toDevice, working,
                     heard, executed, outcome>>
  BY TcpAssumption DEF SendResult, setting, Inv, TypeOK
<1>2. /\ buffer' \in Seq(Line) /\ Len(buffer) \in Nat
      /\ Len(buffer') = Len(buffer) + 1
      /\ \A k \in 1 .. Len(buffer) : buffer'[k] = buffer[k]
      /\ buffer'[Len(buffer) + 1].cmd = working
      /\ buffer'[Len(buffer) + 1].says = "result"
  <2>1. PICK g \in Condition :
          buffer' = Append(buffer, [cmd |-> working, says |-> "result", good |-> g])
    BY DEF SendResult
  <2>2. [cmd |-> working, says |-> "result", good |-> g] \in Line
    BY <1>1 DEF Line, Condition
  <2>3. buffer \in Seq(Line)
    BY DEF Inv, TypeOK
  <2> QED
    BY <2>1, <2>2, <2>3, AppendFacts
<1>3. \A k \in 1 .. Len(buffer') : k \in 1 .. Len(buffer) \/ k = Len(buffer) + 1
  BY <1>2
<1>4. TypeOK'
  <2>1. owes' \in 0 .. MaxResults
    BY <1>1, TcpAssumption DEF Inv, TypeOK
  <2> QED
    BY <1>1, <1>2, <2>1 DEF Inv, TypeOK
<1>5. VerdictsGiven'
  BY <1>1, <1>2, <1>3 DEF Inv, VerdictsGiven, Verdict
<1>6. QueueAscends' /\ OneByOne' /\ Standing' /\ PromptAnswersAreOwn'
      /\ AnswersOwnSoFar'
  BY <1>1 DEF Inv, QueueAscends, OneByOne, Standing, PromptAnswersAreOwn,
     AnswersAreOwn, AnswersOwnSoFar, Straight
<1>7. ASSUME OwnLines PROVE OwnLines'
  <2>1. working = current /\ ~Queued(current)
    BY <1>1, <1>7 DEF OwnLines
  <2> QED
    BY <1>1, <1>2, <1>3, <1>7, <2>1 DEF OwnLines, Queued
<1>8. AloneWhenPrompt'
  BY <1>1, <1>7 DEF Inv, AloneWhenPrompt, Reading
<1>9. InLine'
  <2>1. Len(buffer') + owes' = Len(buffer) + owes /\ Rest' = Rest
    BY <1>1, <1>2 DEF Rest
  <2> QED
    BY <1>1, <1>7, <2>1 DEF Inv, InLine, OldAreSilent, Queued, Reading, Straight
<1> QED
  BY <1>4, <1>5, <1>6, <1>8, <1>9 DEF Inv

LEMMA InvStep == Inv /\ [Next]_vars => Inv'
<1> SUFFICES ASSUME Inv, [Next]_vars PROVE Inv'
  OBVIOUS
<1>1. CASE Client
  BY <1>1, SendKeeps, DiscardKeeps, QuietKeeps, ReadStatusKeeps,
     ReadResultKeeps, NoMoreKeeps, EndingKeeps DEF Client
<1>2. CASE Lose
  BY <1>2, EndingKeeps
<1>3. CASE Device
  BY <1>3, SendResultKeeps, ExecuteKeeps DEF Device
<1>4. CASE UNCHANGED vars
  BY <1>4 DEF vars, setting, link, Inv, TypeOK, AloneWhenPrompt, Reading,
     QueueAscends, InLine, OwnLines, OldAreSilent, Queued, Rest, Standing,
     VerdictsGiven, OneByOne, PromptAnswersAreOwn, AnswersAreOwn,
     AnswersOwnSoFar, Straight
<1> QED
  BY <1>1, <1>2, <1>3, <1>4 DEF Next

LEMMA Invariant == Spec => []Inv
  BY InvInit, InvStep, PTL DEF Spec

\* Every variable keeps its type, for any number of commands.
THEOREM TypeCorrect == Spec => []TypeOK
<1>1. Inv => TypeOK
  BY DEF Inv
<1> QED
  BY <1>1, Invariant, PTL

\* After the discard of _discard_pending_input a prompt device has nothing
\* more to send for earlier commands, so a command reads its own lines only.
THEOREM PromptAnswersBelong == Spec => []PromptAnswersAreOwn
<1>1. Inv => PromptAnswersAreOwn
  BY DEF Inv
<1> QED
  BY <1>1, Invariant, PTL

\* With any device, a command before which send_command read every answer to
\* its end reads its own lines only.
THEOREM AnswersBelongSoFar == Spec => []AnswersOwnSoFar
<1>1. Inv => AnswersOwnSoFar
  BY DEF Inv
<1> QED
  BY <1>1, Invariant, PTL

-----------------------------------------------------------------------------
(***************************************************************************)
(* The connection implements the exchange, step by step.  That every       *)
(* command comes back rests on fairness and stays with TLC.                *)
(***************************************************************************)
Clean == {c \in Sent : inputResponse /\ Straight(c)}

\* The current command is sent with this step, with or without an outcome.
LEMMA SendingImplements ==
  ASSUME Inv, current \in Command, at = "idle",
         UNCHANGED <<inputResponse, executed>>,
         Sent' = Sent \cup {current},
         IF current \in Ignored
         THEN \E r \in {"ignored", "error"} :
                outcome' = [outcome EXCEPT ![current] = r]
         ELSE outcome' = outcome
  PROVE  Exchange!Send(current)
<1>1. current \in Command \ Sent
  BY DEF Sent, Command
<1>2. Clean' = Clean \cup {current} \/ Clean' = Clean
  BY DEF Clean, Straight
<1> QED
  BY <1>1, <1>2 DEF Exchange!Send, Clean

\* The current command is returned, with an error or with its own verdict.
LEMMA ReturningImplements ==
  ASSUME Inv, current \in Command, at \notin {"idle", "closed"},
         UNCHANGED <<inputResponse, executed>>, Sent' = Sent,
         NEW r \in {"AK", "NK", "error"},
         outcome' = [outcome EXCEPT ![current] = r],
         r # "error" /\ inputResponse /\ Straight(current) =>
           [cmd |-> current, result |-> r] \in executed
  PROVE  Exchange!Return(current, r)
<1>1. current \in Sent /\ outcome[current] = "none"
  BY DEF Sent, Inv, OneByOne
<1>2. Clean' = Clean
  BY DEF Clean, Straight
<1> QED
  BY <1>1, <1>2 DEF Exchange!Return, Clean

\* What the three ends of a call do to the commands sent.
LEMMA StillSent ==
  ASSUME Inv, current \in Command
  PROVE  /\ Fail => Sent' = Sent \cup {current}
         /\ ReturnNk => Sent' = Sent \cup {current}
         /\ \A r : Return(r) => Sent' = Sent \cup {current}
         /\ UNCHANGED current /\ at' # "idle" => Sent' = Sent \cup {current}
         /\ at # "idle" => current \in Sent
<1>1. current \in Nat /\ N \in Nat
  BY TcpAssumption DEF Command
<1>2. ASSUME current' = current, at' # "idle" PROVE Sent' = Sent \cup {current}
  BY <1>1, <1>2 DEF Sent, Command
<1>3. ASSUME current' = current + 1, at' = "idle" PROVE Sent' = Sent \cup {current}
  BY <1>1, <1>3 DEF Sent, Command
<1> QED
  BY <1>1, <1>2, <1>3 DEF Fail, ReturnNk, Return, Sent

LEMMA SendImplements == ASSUME Inv, Send PROVE Exchange!Next
<1>1. /\ current \in Command /\ at = "idle"
      /\ UNCHANGED <<inputResponse, executed>>
  BY TcpAssumption DEF Inv, TypeOK, Send, Command, setting
<1>2. Sent' = Sent \cup {current}
  BY <1>1, StillSent DEF Send
<1>3. Exchange!Send(current)
  BY <1>1, <1>2, SendingImplements DEF Send, Return, Fail
<1> QED
  BY <1>1, <1>3 DEF Exchange!Next

\* An error ends the call from anywhere.
LEMMA FailImplements ==
  ASSUME Inv, Fail, current \in Command, at \notin {"idle", "closed"},
         UNCHANGED <<inputResponse, executed>>
  PROVE  Exchange!Next
<1>1. Sent' = Sent
  BY StillSent DEF Sent
<1>2. Exchange!Return(current, "error")
  BY <1>1, ReturningImplements DEF Fail
<1> QED
  BY <1>2 DEF Exchange!Next

\* A command is returned as accepted: its AK was read, or none is asked for.
LEMMA AcceptedImplements ==
  ASSUME Inv, Return("AK"), current \in Command, at \notin {"idle", "closed"},
         UNCHANGED <<inputResponse, executed>>,
         inputResponse /\ Straight(current) =>
           [cmd |-> current, result |-> "AK"] \in executed
  PROVE  Exchange!Next
<1>1. Sent' = Sent
  BY StillSent DEF Sent
<1>2. Exchange!Return(current, "AK")
  BY <1>1, ReturningImplements DEF Return
<1> QED
  BY <1>2 DEF Exchange!Next

\* A step of the call that neither sends nor returns.
LEMMA StutterImplements ==
  ASSUME Inv, current \in Command, at # "idle", at' # "idle",
         UNCHANGED <<inputResponse, executed, current, outcome>>
  PROVE  UNCHANGED Exchange!exchange
<1>1. Sent' = Sent
  BY StillSent
<1>2. Clean' = Clean
  BY <1>1 DEF Clean, Straight
<1> QED
  BY <1>1, <1>2 DEF Exchange!exchange, Clean

LEMMA ReadStatusImplements ==
  ASSUME Inv, ReadStatus PROVE Exchange!Next \/ UNCHANGED Exchange!exchange
<1>1. /\ Reading /\ at = "status" /\ Hear
      /\ UNCHANGED <<setting, link, executed>>
      /\ UNCHANGED <<inputResponse, executed>>
      /\ at \notin {"idle", "closed"}
  BY DEF ReadStatus, Reading, setting
<1>2. current \in Command /\ Head(buffer) \in Line
  BY <1>1, AfterHearing, HeadAndTail DEF Inv, Hear
<1>3. ASSUME Straight(current), Head(buffer).says \in Verdict
      PROVE  [cmd |-> current, result |-> Head(buffer).says] \in executed
  BY <1>1, <1>3, AfterHearing DEF Inv, OwnLines, VerdictsGiven
<1>4. CASE Fail
  BY <1>1, <1>2, <1>4, FailImplements
<1>5. CASE Head(buffer).says = "NK" /\ ReturnNk
  <2>1. Sent' = Sent
    BY <1>1, <1>2, <1>5, StillSent DEF Sent
  <2>2. Exchange!Return(current, "NK")
    BY <1>1, <1>2, <1>3, <1>5, <2>1, ReturningImplements DEF ReturnNk, Verdict
  <2> QED
    BY <1>2, <2>2 DEF Exchange!Next
<1>6. CASE at' = "result" /\ UNCHANGED <<current, outcome>>
  BY <1>1, <1>2, <1>6, StutterImplements
<1>7. CASE Head(buffer).says = "AK" /\ Return("AK")
  BY <1>1, <1>2, <1>3, <1>7, AcceptedImplements DEF Verdict
<1> QED
  BY <1>2, <1>4, <1>5, <1>6, <1>7 DEF ReadStatus, Line, Verdict

LEMMA ReadResultImplements ==
  ASSUME Inv, ReadResult \/ NoMore
  PROVE  Exchange!Next \/ UNCHANGED Exchange!exchange
<1>1. /\ at \in {"result", "more"} /\ at \notin {"idle", "closed"}
      /\ current \in Command
      /\ UNCHANGED <<inputResponse, executed>>
  BY DEF ReadResult, NoMore, setting, Inv, TypeOK
<1>2. inputResponse /\ Straight(current) =>
        [cmd |-> current, result |-> "AK"] \in executed
  BY <1>1 DEF Inv, InLine
<1>3. CASE Fail
  BY <1>1, <1>3, FailImplements
<1>4. CASE at' = "more" /\ UNCHANGED <<current, outcome>>
  BY <1>1, <1>4, StutterImplements
<1>5. CASE Return("AK")
  BY <1>1, <1>2, <1>5, AcceptedImplements
<1> QED
  BY <1>3, <1>4, <1>5 DEF ReadResult, NoMore

LEMMA ExecuteImplements ==
  ASSUME Inv, NEW v \in Verdict, Execute(v) PROVE Exchange!Next
<1>1. /\ toDevice \in Seq(Command) /\ toDevice # <<>>
      /\ executed' = executed \cup {[cmd |-> Head(toDevice), result |-> v]}
      /\ UNCHANGED <<inputResponse, current, at, outcome>>
  BY DEF Execute, setting, Inv, TypeOK
<1>2. /\ Head(toDevice) = toDevice[1] /\ 1 \in 1 .. Len(toDevice)
      /\ Head(toDevice) \in Command
  BY <1>1, TailFacts
<1>3. Head(toDevice) \in Sent
  BY <1>2 DEF Sent, Inv, TypeOK, QueueAscends, Command
<1>4. Sent' = Sent
  BY <1>1 DEF Sent
<1>5. Clean' = Clean
  BY <1>1, <1>4 DEF Clean, Straight
<1>6. Exchange!Execute(Head(toDevice), v)
  BY <1>1, <1>3, <1>4, <1>5 DEF Exchange!Execute, Clean
<1> QED
  BY <1>2, <1>6 DEF Exchange!Next, Verdict

LEMMA StepImplements ==
  ASSUME Inv, [Next]_vars PROVE Exchange!Next \/ UNCHANGED Exchange!exchange
<1>1. CASE Send
  BY <1>1, SendImplements
<1>2. CASE Discard
  <2>1. /\ current \in Command /\ at = "discarding"
        /\ UNCHANGED <<inputResponse, executed>>
    BY <1>2 DEF Discard, setting, Inv, TypeOK
  <2> QED
    BY <1>2, <2>1, FailImplements, StutterImplements DEF Discard
<1>3. CASE Quiet
  <2>1. /\ current \in Command /\ at = "discarding"
        /\ UNCHANGED <<inputResponse, executed>>
    BY <1>3 DEF Quiet, setting, Inv, TypeOK
  <2>2. CASE Fail
    BY <2>1, <2>2, FailImplements
  <2>3. CASE Await
    BY <2>1, <2>3, AcceptedImplements, StutterImplements DEF Await
  <2> QED
    BY <1>3, <2>2, <2>3 DEF Quiet
<1>4. CASE ReadStatus
  BY <1>4, ReadStatusImplements
<1>5. CASE ReadResult \/ NoMore
  BY <1>5, ReadResultImplements
<1>6. CASE TimeOut \/ Lose
  BY <1>6, FailImplements DEF TimeOut, Lose, setting, Inv, TypeOK
<1>7. CASE Device
  <2>1. CASE SendResult
    <3>1. UNCHANGED <<inputResponse, current, at, executed, outcome>>
      BY <2>1 DEF SendResult, setting
    <3>2. Sent' = Sent
      BY <3>1 DEF Sent
    <3>3. Clean' = Clean
      BY <3>1, <3>2 DEF Clean, Straight
    <3> QED
      BY <3>1, <3>2, <3>3 DEF Exchange!exchange, Clean
  <2> QED
    BY <1>7, <2>1, ExecuteImplements DEF Device
<1>8. CASE UNCHANGED vars
  <2>1. UNCHANGED <<inputResponse, current, at, executed, outcome>>
    BY <1>8 DEF vars, setting
  <2>2. Sent' = Sent
    BY <2>1 DEF Sent
  <2>3. Clean' = Clean
    BY <2>1, <2>2 DEF Clean, Straight
  <2> QED
    BY <2>1, <2>2, <2>3 DEF Exchange!exchange, Clean
<1> QED
  BY <1>1, <1>2, <1>3, <1>4, <1>5, <1>6, <1>7, <1>8 DEF Next, Client

LEMMA InitImplements == Init => Exchange!Init
<1> SUFFICES ASSUME Init PROVE Exchange!Init
  OBVIOUS
<1>1. Sent = {}
  BY DEF Init, Sent, Command
<1> QED
  BY <1>1 DEF Init, Exchange!Init

\* Whatever the device sends and whenever it does, every step of the
\* connection is a step of CommandExchange or none: one outcome for a command,
\* and for one in line its own verdict or an error.
THEOREM StepsImplementExchange ==
  Spec => Exchange!Init /\ [][Exchange!Next]_(Exchange!exchange)
<1>1. Inv /\ [Next]_vars => [Exchange!Next]_(Exchange!exchange)
  BY StepImplements
<1> QED
  BY <1>1, InitImplements, Invariant, PTL DEF Spec
===============================================================================
