----------------------------- MODULE TcpExchange -----------------------------
(***************************************************************************)
(* backend/protocol.py: VtvTcpClient, one connection to the VTV, used by   *)
(* one sequence for the commands 1..N in turn.  The device answers a       *)
(* command with an input response (AK, or NK and ER, here NK) and, when it *)
(* was accepted and has a result, with result lines.  Nothing in a line    *)
(* tells which command it answers.                                         *)
(*                                                                         *)
(* A line is in the client's buffer once it was sent; how long the device  *)
(* takes before is left open, and a read that finds no line may give up.   *)
(***************************************************************************)
EXTENDS Integers, Sequences

CONSTANTS
  N,           \* number of commands
  Ignored,     \* those with ignore_response
  Expecting,   \* those with expect_result
  UntilIdle,   \* those of them with result_mode "until_idle"
  MaxResults,  \* bound: result lines of such a command
  MayGarble    \* lines may arrive damaged (checksum, encoding)

Command == 1..N
Verdict == {"AK", "NK"}

ASSUME TcpAssumption ==
  /\ N \in Nat
  /\ Ignored \subseteq Command
  /\ UntilIdle \subseteq Expecting /\ Expecting \subseteq Command
  /\ MaxResults \in Nat \ {0}
  /\ MayGarble \in BOOLEAN

VARIABLES
  inputResponse,  \* settings.input_response, fixed for the run
  prompt,         \* is the device never slower than the short reads, 50 and
                  \* 200 ms: fixed for the run, unknown to the program
  current,        \* the command being sent, or next to be sent
  at,             \* where send_command stands
  toDevice,       \* commands written, not yet read by the device
  working,        \* the command the device has taken last, 0 before the first
  owes,           \* result lines it will still send for it
  buffer,         \* StreamReader: lines not yet read
  heard,          \* history: whose lines were returned as a command's answer
  executed,       \* history: the verdicts given
  outcome         \* what send_command returned

link == <<toDevice, working, owes>>
setting == <<inputResponse, prompt>>
vars == <<setting, current, at, link, buffer, heard, executed, outcome>>

Line == [cmd: Command, says: Verdict \cup {"result"}, good: BOOLEAN]

TypeOK ==
  /\ inputResponse \in BOOLEAN
  /\ prompt \in BOOLEAN
  /\ current \in 1..(N + 1)
  /\ at \in {"idle", "discarding", "status", "result", "more", "closed"}
  /\ at \in {"discarding", "status", "result", "more"} => current \in Command
  /\ toDevice \in Seq(Command)
  /\ working \in 0..N
  /\ owes \in 0..MaxResults
  /\ owes > 0 => working \in Command
  /\ buffer \in Seq(Line)
  /\ heard \in [Command -> SUBSET Command]
  /\ executed \subseteq [cmd: Command, result: Verdict]
  /\ outcome \in [Command -> {"none", "ignored", "AK", "NK", "error"}]

Init ==
  /\ inputResponse \in BOOLEAN
  /\ prompt \in BOOLEAN
  /\ current = 1
  /\ at = "idle"
  /\ toDevice = <<>>
  /\ working = 0
  /\ owes = 0
  /\ buffer = <<>>
  /\ heard = [c \in Command |-> {}]
  /\ executed = {}
  /\ outcome = [c \in Command |-> "none"]

-----------------------------------------------------------------------------
(* The device.                                                             *)

Condition == IF MayGarble THEN BOOLEAN ELSE {TRUE}

Owed(c, v) ==
  CASE v = "NK" \/ c \notin Expecting -> {0}
    [] c \in UntilIdle                -> 1..MaxResults
    [] OTHER                          -> {1}

\* It takes a command when it is done with the one before.
Execute(v) ==
  /\ toDevice # <<>>
  /\ owes = 0
  /\ LET c == Head(toDevice) IN
     /\ toDevice' = Tail(toDevice)
     /\ working' = c
     /\ owes' \in Owed(c, v)
     /\ executed' = executed \cup {[cmd |-> c, result |-> v]}
     /\ IF inputResponse
        THEN \E g \in Condition:
               buffer' = Append(buffer, [cmd |-> c, says |-> v, good |-> g])
        ELSE UNCHANGED buffer
  /\ UNCHANGED <<setting, current, at, heard, outcome>>

SendResult ==
  /\ owes > 0
  /\ owes' = owes - 1
  /\ \E g \in Condition:
       buffer' = Append(buffer, [cmd |-> working, says |-> "result", good |-> g])
  /\ UNCHANGED <<setting, current, at, toDevice, working, heard, executed,
                 outcome>>

-----------------------------------------------------------------------------
(* send_command.                                                           *)

\* A ProtocolError ends the sequence, and with it the connection.
Fail ==
  /\ outcome' = [outcome EXCEPT ![current] = "error"]
  /\ at' = "closed"
  /\ UNCHANGED current

Return(status) ==
  /\ outcome' = [outcome EXCEPT ![current] = status]
  /\ current' = current + 1
  /\ at' = "idle"

\* NK ends the sequence too.
ReturnNk ==
  /\ outcome' = [outcome EXCEPT ![current] = "NK"]
  /\ at' = "closed"
  /\ UNCHANGED current

\* The next state of a call that has written its command.
Await ==
  IF inputResponse THEN at' = "status" /\ UNCHANGED <<current, outcome>>
  ELSE IF current \in Expecting THEN at' = "result" /\ UNCHANGED <<current, outcome>>
  ELSE Return("AK")

Write == toDevice' = Append(toDevice, current)

\* A slip: nothing is discarded before any command.
SendUndiscarded ==
  /\ at = "idle"
  /\ current <= N
  /\ IF current \in Ignored
     THEN \/ Write /\ Return("ignored")
          \/ UNCHANGED toDevice /\ Fail
     ELSE Write /\ Await
  /\ UNCHANGED <<setting, working, owes, buffer, heard, executed>>

\* An ignored command is written at once and returned, others discard first.
Send ==
  /\ at = "idle"
  /\ current <= N
  /\ IF current \in Ignored
     THEN \/ Write /\ Return("ignored")
          \/ UNCHANGED toDevice /\ Fail
     ELSE /\ at' = "discarding"
          /\ UNCHANGED <<current, toDevice, outcome>>
  /\ UNCHANGED <<setting, working, owes, buffer, heard, executed>>

\* _discard_pending_input reads a line, checking it as any other.
Discard ==
  /\ at = "discarding"
  /\ buffer # <<>>
  /\ buffer' = Tail(buffer)
  /\ IF Head(buffer).good THEN UNCHANGED <<current, at, outcome>> ELSE Fail
  /\ UNCHANGED <<setting, link, heard, executed>>

\* Nothing for 50 ms: the command is written, and awaited unless that fails.
Quiet ==
  /\ at = "discarding"
  /\ buffer = <<>>
  /\ prompt => toDevice = <<>> /\ owes = 0
  /\ \/ Write /\ Await
     \/ UNCHANGED toDevice /\ Fail
  /\ UNCHANGED <<setting, working, owes, buffer, heard, executed>>

Hear == /\ buffer # <<>>
        /\ buffer' = Tail(buffer)
        /\ heard' = [heard EXCEPT ![current] = @ \cup {Head(buffer).cmd}]

\* A slip: a command that was accepted is returned without its result.
ReadStatusOnly ==
  /\ at = "status"
  /\ Hear
  /\ CASE ~Head(buffer).good \/ Head(buffer).says = "result" -> Fail
       [] Head(buffer).good /\ Head(buffer).says = "NK" -> ReturnNk
       [] OTHER -> Return("AK")
  /\ UNCHANGED <<setting, link, executed>>

\* A slip: NK is not looked for.
ReadStatusAsAk ==
  /\ at = "status"
  /\ Hear
  /\ CASE ~Head(buffer).good \/ Head(buffer).says = "result" -> Fail
       [] OTHER -> IF current \in Expecting
                   THEN at' = "result" /\ UNCHANGED <<current, outcome>>
                   ELSE Return("AK")
  /\ UNCHANGED <<setting, link, executed>>

ReadStatus ==
  /\ at = "status"
  /\ Hear
  /\ CASE ~Head(buffer).good \/ Head(buffer).says = "result" -> Fail
       [] Head(buffer).good /\ Head(buffer).says = "NK" -> ReturnNk
       [] OTHER -> IF current \in Expecting
                   THEN at' = "result" /\ UNCHANGED <<current, outcome>>
                   ELSE Return("AK")
  /\ UNCHANGED <<setting, link, executed>>

ReadResult ==
  /\ at \in {"result", "more"}
  /\ Hear
  /\ CASE ~Head(buffer).good      -> Fail
       [] Head(buffer).good /\ current \in UntilIdle ->
            at' = "more" /\ UNCHANGED <<current, outcome>>
       [] OTHER                   -> Return("AK")
  /\ UNCHANGED <<setting, link, executed>>

\* Nothing for 200 ms after a first result line.
NoMore ==
  /\ at = "more"
  /\ buffer = <<>>
  /\ prompt => owes = 0
  /\ Return("AK")
  /\ UNCHANGED <<setting, link, buffer, heard, executed>>

\* Nothing within the timeout.
TimeOut ==
  /\ at \in {"status", "result"}
  /\ buffer = <<>>
  /\ Fail
  /\ UNCHANGED <<setting, link, buffer, heard, executed>>

\* The connection is lost: an error for whoever reads, the short reads included.
Lose ==
  /\ at \in {"discarding", "status", "result", "more"}
  /\ buffer = <<>>
  /\ Fail
  /\ UNCHANGED <<setting, link, buffer, heard, executed>>

-----------------------------------------------------------------------------

Client == Send \/ Discard \/ Quiet \/ ReadStatus \/ ReadResult \/ NoMore \/ TimeOut
Device == SendResult \/ \E v \in Verdict: Execute(v)

Next == Client \/ Lose \/ Device

\* Every read comes back, with a line or at its deadline, and a prompt device
\* does answer.
Spec ==
  /\ Init
  /\ [][Next]_vars
  /\ WF_vars(Client)
  /\ WF_vars(prompt /\ Device)

-----------------------------------------------------------------------------

\* A command is returned its own lines only: protocol.py:135
\* "前回「応答無視」で残った受信データを捨ててから送信する".
AnswersAreOwn == \A c \in Command: heard[c] \subseteq {c}

\* This holds with a device that answers within the short reads.
PromptAnswersAreOwn == prompt => AnswersAreOwn

\* Whatever the device's pace, it holds until a command was sent whose answer
\* is not read to its end.
Straight(c) == \A d \in Command: d < c => d \notin Ignored \cup UntilIdle

AnswersOwnSoFar == \A c \in Command: Straight(c) => heard[c] \subseteq {c}

\* The connection implements the exchange of CommandExchange: a command before
\* which every answer was read is returned an error or its own verdict, and
\* every command comes back.
Sent == {c \in Command: c < current \/ (c = current /\ at # "idle")}

Exchange == INSTANCE CommandExchange WITH
  sent <- Sent,
  clean <- {c \in Sent: inputResponse /\ Straight(c)}

ImplementsExchange == Exchange!Spec

=============================================================================
