--------------------------- MODULE SequenceEngine ---------------------------
(***************************************************************************)
(* backend/engine.py: the interpreter of a sequence of cards.              *)
(*                                                                         *)
(* A program is a sequence of cards, records with the fields               *)
(*   kind   "command", "delay", "break", "note", "variable", "if", "loop"  *)
(*   id     names the card in card_results                                 *)
(*   ignore ignore_response of a command                                   *)
(*   local  the transport a PLI or ESI command switches inputs of, "" for  *)
(*          a command of the device                                        *)
(*   name   the variable a variable card sets or a command's argument      *)
(*          takes, NoName for none or a blank one                          *)
(*   source where a variable card or an if card takes its value            *)
(*   card   the card a variable card's source names                        *)
(*   test   "equals", "contains" or "not_contains" of an if card           *)
(*   value  the literal, or what an if card compares with                  *)
(*   count  iterations of a loop, slices of 0.1 s of a delay, the port or  *)
(*          the offset a variable card reads                               *)
(*   yes, no   the branches of an if card; yes is a loop's body            *)
(*                                                                         *)
(* A result is the status and the lines of the response, which do not have *)
(* to name the status.  Texts are members of Text; what the engine asks of *)
(* them, what is within a line and what strip leaves of it, is given by    *)
(* Part and Strip.  "none" is no text but the value of a variable not set. *)
(*                                                                         *)
(* The nested coroutines _run_steps, _run_if and _run_loop are a stack of  *)
(* frames.  Each action runs from one await to the next; the stop button   *)
(* may be pressed at any await.                                            *)
(***************************************************************************)
EXTENDS Integers, Sequences, FiniteSets

CONSTANTS
  Request,       \* what may be run: [steps, transport, device], device being
                 \* the results its settings and its commands allow
  Id,            \* ids of cards
  Name,          \* names of variables
  NoName,
  Text,          \* the texts of cards and of responses
  Part,          \* the texts within each of them
  Strip,         \* str.strip of each of them
  DeviceResult,  \* what a client returns: [status, lines]
  Reading,       \* what an output port or a result data word may hold
  PortCount,     \* plo_port_count, fn_eso_ports
  ResultSize     \* result_data_size, in words

ASSUME EngineAssumption ==
  /\ NoName \notin Name
  /\ PortCount \in Nat /\ ResultSize \in Nat
  /\ "" \in Text
  /\ Part \in [Text -> SUBSET Text] /\ Strip \in [Text -> Text]
  /\ \A t \in Text: {"", t} \subseteq Part[t]
  /\ Part[""] = {""} /\ Strip[""] = ""
  /\ DeviceResult \subseteq [status: Text \ {""}, lines: Seq(Text)]

VARIABLES
  program,       \* the sequence given to run
  transport,     \* of the client's settings
  device,        \* the results that client may return
  stack,         \* the frames, innermost first
  control,       \* where the innermost frame stands
  remaining,     \* of _run_delay, in slices
  loopDepth,     \* loop_depth
  stepNumber,    \* step_number
  lastResult,    \* last_result
  lastResponse,  \* last_response, the last line of any result so far
  cardResults,   \* card_results
  variables,     \* variables
  stopped,       \* stop_event
  verdict,       \* how run() ended, or "none"
  log,           \* history: the events that show what was done
  answers,       \* history: the results of commands and the values read
  stopAt,        \* history: stepNumber when the stop came
  sentAt         \* history: stepNumber when a command was last sent

data == <<lastResult, lastResponse, cardResults, variables>>
given == <<program, transport, device>>
history == <<log, answers, stopAt, sentAt>>
vars == <<given, stack, control, remaining, loopDepth, stepNumber, data,
          stopped, verdict, history>>

\* An if card takes the lack of a result for an empty one.
NoResult == [status |-> "", lines |-> <<>>]
\* What a client returns at once when the response is ignored.
Unheard == [status |-> "AK", lines |-> <<"ignored">>]
\* What apply_local_io returns.
Switched == [status |-> "AK", lines |-> <<"AK", "switched">>]
Read(value) == [status |-> "read", lines |-> <<value>>]
BadStatus == {"NK", "ER"}
Frames == {"root", "branch", "loop"}

TypeOK ==
  /\ [steps |-> program, transport |-> transport, device |-> device] \in Request
  /\ \A i \in 1..Len(stack): stack[i].kind \in Frames /\ stack[i].round \in Nat
  /\ control \in {"step", "card", "asked", "sleep", "round", "ended"}
  /\ remaining \in Nat
  /\ loopDepth \in Nat
  /\ stepNumber \in Nat
  /\ lastResult \in DeviceResult \cup {Unheard, Switched, NoResult}
  /\ lastResponse \in Text
  /\ cardResults \in [Id -> DeviceResult \cup {Unheard, Switched, NoResult}]
  /\ variables \in [Name -> Text]
  /\ stopped \in BOOLEAN
  /\ verdict \in {"none", "completed", "stopped", "failed", "escaped"}

Top == Head(stack)
Card == Head(Top.rest)

Init ==
  /\ \E r \in Request:
       program = r.steps /\ transport = r.transport /\ device = r.device
  /\ stack = <<[kind |-> "root", rest |-> program, round |-> 0]>>
  /\ control = "step"
  /\ remaining = 0
  /\ loopDepth = 0
  /\ stepNumber = 0
  /\ lastResult = NoResult
  /\ lastResponse = ""
  /\ cardResults = [i \in Id |-> NoResult]
  /\ variables = [n \in Name |-> "none"]
  /\ stopped = FALSE
  /\ verdict = "none"
  /\ log = <<>>
  /\ answers = <<>>
  /\ stopAt = 0
  /\ sentAt = 0

-----------------------------------------------------------------------------
(* Leaving.                                                                *)

LoopsIn(frames) == Cardinality({i \in 1..Len(frames): frames[i].kind = "loop"})

\* An exception leaves every frame, each loop's finally lowering loop_depth.
Unwind(how) ==
  /\ verdict' = how
  /\ control' = "ended"
  /\ stack' = <<>>
  /\ loopDepth' = loopDepth - LoopsIn(stack)

Raise(how) ==
  /\ Unwind(how)
  /\ UNCHANGED <<given, remaining, stepNumber, data, stopped, history>>

\* The frames after the innermost one's card is done.
Advanced(frames) ==
  <<[Head(frames) EXCEPT !.rest = Tail(@)]>> \o Tail(frames)

CardDone == stack' = Advanced(stack) /\ control' = "step"

-----------------------------------------------------------------------------
(* _run_steps.                                                             *)

\* A slip: the stop is looked at in loops and delays only.
BeginCardUnchecked ==
  /\ control = "step"
  /\ Top.rest # <<>>
  /\ stepNumber' = stepNumber + 1
  /\ control' = "card"
  /\ UNCHANGED <<given, stack, remaining, loopDepth, data, stopped, verdict,
                 history>>

\* _check_stopped, then step_started.
BeginCard ==
  /\ control = "step"
  /\ Top.rest # <<>>
  /\ ~stopped
  /\ stepNumber' = stepNumber + 1
  /\ control' = "card"
  /\ UNCHANGED <<given, stack, remaining, loopDepth, data, stopped, verdict,
                 history>>

\* The same check when it finds the stop, here and wherever else it is made.
StopSeen ==
  /\ stopped
  /\ \/ control = "step" /\ Top.rest # <<>>
     \/ control = "round" /\ Top.round < Head(stack[2].rest).count
     \/ control = "sleep" /\ remaining > 0
  /\ Raise("stopped")

\* The cards of a frame are used up.
EndFrame ==
  /\ control = "step"
  /\ Top.rest = <<>>
  /\ \/ /\ Top.kind = "root"
        /\ Unwind("completed")
     \/ /\ Top.kind = "branch"
        /\ stack' = Advanced(Tail(stack))
        /\ UNCHANGED <<control, loopDepth, verdict>>
     \/ /\ Top.kind = "loop"
        /\ control' = "round"
        /\ UNCHANGED <<stack, loopDepth, verdict>>
  /\ UNCHANGED <<given, remaining, stepNumber, data, stopped, history>>

-----------------------------------------------------------------------------
(* The cards.                                                              *)

At(kind) == control = "card" /\ Card.kind = kind

Resolved(card) == card.name # NoName => variables[card.name] # "none"

Argument(card) == IF card.name = NoName THEN "none" ELSE variables[card.name]

\* The tx event, and send_command up to the device's answer or apply_local_io.
SendCommand ==
  /\ At("command")
  /\ Resolved(Card)
  /\ control' = "asked"
  /\ log' = Append(log, <<"tx", Card.id, Argument(Card)>>)
  /\ sentAt' = stepNumber
  /\ UNCHANGED <<given, stack, remaining, loopDepth, stepNumber, data,
                 stopped, verdict, answers, stopAt>>

MissingVariable ==
  /\ At("command")
  /\ ~Resolved(Card)
  /\ Raise("failed")

LastLine(lines) == IF lines = <<>> THEN "" ELSE lines[Len(lines)]

\* A slip: a result without lines clears last_response.
RememberCleared(result) ==
  /\ lastResult' = result
  /\ lastResponse' = LastLine(result.lines)
  /\ cardResults' = [cardResults EXCEPT ![Card.id] = result]
  /\ UNCHANGED variables

\* _remember_result, and last_response set to one line after the other: without
\* lines it stays that of an earlier card.
Remember(result) ==
  /\ lastResult' = result
  /\ lastResponse' = IF result.lines = <<>> THEN lastResponse
                     ELSE LastLine(result.lines)
  /\ cardResults' = [cardResults EXCEPT ![Card.id] = result]
  /\ UNCHANGED variables

\* The results a command card may come back with: every client answers an
\* ignored command AK by itself, and inputs are switched on their own
\* transport only.
Results(card) ==
  IF card.local # "" THEN IF card.local = transport THEN {Switched} ELSE {}
  ELSE IF card.ignore THEN {Unheard} ELSE device

Fatal(result) == result.status \in BadStatus /\ ~Card.ignore

Answer(result) ==
  /\ control = "asked"
  /\ result \in Results(Card)
  /\ Remember(result)
  /\ answers' = Append(answers, result)
  /\ IF Fatal(result)
     THEN Unwind("failed")
     ELSE CardDone /\ UNCHANGED <<loopDepth, verdict>>
  /\ UNCHANGED <<given, remaining, stepNumber, stopped, log, stopAt, sentAt>>

\* send_command or apply_local_io raises: a timeout, a lost connection, a
\* broken checksum, the wrong transport, a port out of range.
SendFails == control = "asked" /\ Raise("failed")

BeginDelay ==
  /\ At("delay")
  /\ remaining' = Card.count
  /\ control' = "sleep"
  /\ UNCHANGED <<given, stack, loopDepth, stepNumber, data, stopped, verdict,
                 history>>

\* A slip: the time slept is not taken off.
SleepAgain ==
  /\ control = "sleep"
  /\ \/ /\ remaining > 0
        /\ ~stopped
        /\ UNCHANGED <<remaining, stack, control>>
     \/ /\ remaining = 0
        /\ CardDone
        /\ UNCHANGED remaining
  /\ UNCHANGED <<given, loopDepth, stepNumber, data, stopped, verdict, history>>

\* _run_delay sleeps 0.1 s at a time and looks at the stop before each.
Sleep ==
  /\ control = "sleep"
  /\ \/ /\ remaining > 0
        /\ ~stopped
        /\ remaining' = remaining - 1
        /\ UNCHANGED <<stack, control>>
     \/ /\ remaining = 0
        /\ CardDone
        /\ UNCHANGED remaining
  /\ UNCHANGED <<given, loopDepth, stepNumber, data, stopped, verdict, history>>

Note ==
  /\ At("note")
  /\ CardDone
  /\ UNCHANGED <<given, remaining, loopDepth, stepNumber, data, stopped,
                 verdict, history>>

\* _read_output_port and _read_result_data: the ports of the simulated PLC can
\* be read; those of Field Network are asked for by a method their buffers do
\* not have, and TCP has none.
Readable(card) ==
  \/ /\ card.source = "output_port"
     /\ transport = "plclink"
     /\ card.count \in 1..PortCount
  \/ /\ card.source = "result_data"
     /\ transport # "tcp"
     /\ card.count % 2 = 0 /\ card.count + 2 <= ResultSize

\* _read_variable_source of what the engine keeps; no value where it raises.
Remembered(card) ==
  LET known == CASE card.source = "last_status" -> lastResult.status
                 [] card.source = "card_status" -> cardResults[card.card].status
                 [] card.source = "card_response" ->
                      Strip[LastLine(cardResults[card.card].lines)]
                 [] OTHER -> Strip[lastResponse]
  IN  IF card.source = "literal" THEN {card.value} ELSE {known} \ {""}

IsReading(card) == card.source \in {"output_port", "result_data"}

SetVariable ==
  /\ At("variable")
  /\ Card.name # NoName
  /\ \E value \in IF IsReading(Card) THEN Reading ELSE Remembered(Card):
       /\ IsReading(Card) => Readable(Card)
       /\ variables' = [variables EXCEPT ![Card.name] = value]
       /\ log' = Append(log, <<"variable", Card.id, value>>)
       /\ answers' = IF IsReading(Card) THEN Append(answers, Read(value))
                     ELSE answers
  /\ CardDone
  /\ UNCHANGED <<given, remaining, loopDepth, stepNumber, lastResult,
                 lastResponse, cardResults, stopped, verdict, stopAt, sentAt>>

MissingSource ==
  /\ At("variable")
  /\ \/ Card.name = NoName
     \/ IF IsReading(Card) THEN ~Readable(Card) ELSE Remembered(Card) = {}
  /\ Raise("failed")

\* The lines an if card looks at are joined by line ends, and its value is one
\* line: it equals them when it is the only one, and is in them when it is
\* within one of them.
Same(lines, value) == lines = <<value>> \/ (lines = <<>> /\ value = "")
InLines(value, lines) ==
  value = "" \/ \E i \in 1..Len(lines): value \in Part[lines[i]]

\* The test of _run_if.
Matched(card) ==
  LET actual == IF card.source = "status" THEN <<lastResult.status>>
                ELSE lastResult.lines
  IN  CASE card.test = "equals" -> Same(actual, card.value)
        [] card.test = "contains" -> InLines(card.value, actual)
        [] OTHER -> ~InLines(card.value, actual)

\* _run_if: the branch becomes the innermost frame.
If ==
  /\ At("if")
  /\ LET matched == Matched(Card)
     IN  /\ stack' = <<[kind |-> "branch", round |-> 0,
                        rest |-> IF matched THEN Card.yes ELSE Card.no]>> \o stack
         /\ log' = Append(log, <<"condition", Card.id,
                                 IF matched THEN "yes" ELSE "no">>)
  /\ control' = "step"
  /\ UNCHANGED <<given, remaining, loopDepth, stepNumber, data, stopped,
                 verdict, answers, stopAt, sentAt>>

\* _run_loop
EnterLoop ==
  /\ At("loop")
  /\ stack' = <<[kind |-> "loop", rest |-> <<>>, round |-> 0]>> \o stack
  /\ loopDepth' = loopDepth + 1
  /\ control' = "round"
  /\ UNCHANGED <<given, remaining, stepNumber, data, stopped, verdict, history>>

\* What the end of a loop does to its frame, its finally and its card.
LeaveLoop(outer) ==
  /\ stack' = Advanced(outer)
  /\ loopDepth' = loopDepth - 1
  /\ control' = "step"

NextRound ==
  /\ control = "round"
  /\ LET loop == Head(stack[2].rest) IN
     \/ /\ Top.round < loop.count
        /\ ~stopped
        /\ stack' = <<[kind |-> "loop", rest |-> loop.yes,
                       round |-> Top.round + 1]>> \o Tail(stack)
        /\ log' = Append(log, <<"round", loop.id, Top.round + 1>>)
        /\ control' = "step"
        /\ UNCHANGED loopDepth
     \/ /\ Top.round = loop.count
        /\ LeaveLoop(Tail(stack))
        /\ UNCHANGED log
  /\ UNCHANGED <<given, remaining, stepNumber, data, stopped, verdict,
                 answers, stopAt, sentAt>>

\* The frames around the loop that LoopBreak ends: those of if cards inside
\* the loop are left on the way.
AroundLoop == LET loops == {i \in 1..Len(stack): stack[i].kind = "loop"}
                  inner == CHOOSE i \in loops: \A j \in loops: i <= j
              IN  SubSeq(stack, inner + 1, Len(stack))

\* A slip: a break ends the loop without the finally clause.
BreakKeepingDepth ==
  /\ At("break")
  /\ loopDepth > 0
  /\ IF LoopsIn(stack) = 0
     THEN Unwind("escaped")
     ELSE /\ stack' = Advanced(AroundLoop)
          /\ control' = "step"
          /\ UNCHANGED <<verdict, loopDepth>>
  /\ UNCHANGED <<given, remaining, stepNumber, data, stopped, history>>

\* LoopBreak, which no frame catches when there is no loop.
Break ==
  /\ At("break")
  /\ loopDepth > 0
  /\ IF LoopsIn(stack) = 0
     THEN Unwind("escaped")
     ELSE LeaveLoop(AroundLoop) /\ UNCHANGED verdict
  /\ UNCHANGED <<given, remaining, stepNumber, data, stopped, history>>

BreakOutside ==
  /\ At("break")
  /\ loopDepth = 0
  /\ Raise("failed")

-----------------------------------------------------------------------------

\* The stop button, or the connection of the browser lost.
Stop ==
  /\ verdict = "none"
  /\ ~stopped
  /\ stopped' = TRUE
  /\ stopAt' = stepNumber
  /\ UNCHANGED <<given, stack, control, remaining, loopDepth, stepNumber,
                 data, verdict, log, answers, sentAt>>

Run ==
  \/ BeginCard \/ StopSeen \/ EndFrame
  \/ SendCommand \/ MissingVariable \/ SendFails
  \/ \E result \in DeviceResult \cup {Unheard, Switched}: Answer(result)
  \/ BeginDelay \/ Sleep \/ Note
  \/ SetVariable \/ MissingSource
  \/ If \/ EnterLoop \/ NextRound \/ Break \/ BreakOutside

Next == Run \/ Stop

Spec == Init /\ [][Next]_vars

\* Awaited sends, sleeps and answers all come back, if only by a timeout.
FairSpec == Spec /\ WF_vars(Run)

-----------------------------------------------------------------------------

\* loop_depth counts the loops being run, so that a BREAK raises LoopBreak only
\* where a loop catches it and is refused exactly where none does.
DepthCountsLoops ==
  /\ loopDepth = LoopsIn(stack)
  /\ verdict # "escaped"

\* After the stop no card is started: at most the command of the card already
\* under way is still sent (_check_stopped, engine.py:195).
StopIsObeyed == stopped => stepNumber <= stopAt /\ sentAt <= stopAt

\* Only TCP has no output ports to read: on the other transports a variable
\* card with a name for a port within the settings is never refused
\* (_read_output_port, engine.py:401).
PortsAreReadable ==
  [][At("variable") /\ Card.name # NoName /\ Card.source = "output_port"
       /\ Card.count \in 1..PortCount /\ transport # "tcp"
     => verdict' # "failed"]_vars

\* Every sequence comes to an end (loops are counted, sleeps are cut).
SequenceEnds == <>(verdict # "none")

=============================================================================
