-------------------------- MODULE SequenceMeaning --------------------------
(***************************************************************************)
(* The meaning of a sequence, to compare SequenceEngine with: what a list  *)
(* of cards does to an environment, by recursion on the height of the tree *)
(* of cards.  There is no stack, no stop and no waiting; the answers of    *)
(* the device and the values read are given as a list.                     *)
(***************************************************************************)
EXTENDS SequenceEngine, SequencesExt

CONSTANT Depth   \* how deep cards may be nested

Transport == {"tcp", "plclink", "field_network"}

Result == DeviceResult \cup {Unheard, Switched, NoResult}
          \cup {Read(value): value \in Reading}
Event == ({"tx", "variable", "condition"} \X Id \X Text)
         \cup ({"round"} \X Id \X Nat)

\* The answers not yet used, what the cards know, the events so far and a
\* signal: "go" while cards follow one another, "break", "failed", or "pending"
\* when the answers have run out.  heard is the last line there ever was.
Env == [answers: Seq(Result), last: Result, heard: Text, cards: [Id -> Result],
        vars: [Name -> Text], over: Transport,
        log: Seq(Event), signal: {"go", "break", "failed", "pending"}]

Source == {"literal", "status", "response", "last_status", "last_response",
           "card_status", "card_response", "output_port", "result_data"}

CardWith(branches) ==
  [kind: {"command", "delay", "break", "note", "variable", "if", "loop"},
   id: Id, ignore: BOOLEAN, local: {"", "plclink", "field_network"},
   name: Name \cup {NoName}, source: Source, card: Id,
   test: {"equals", "contains", "not_contains"}, value: Text, count: Nat,
   yes: branches, no: branches]

\* The lists of cards no more than n deep.
Block[n \in 0..Depth] ==
  IF n = 0 THEN {<<>>} ELSE Seq(CardWith(Block[n - 1]))

MeaningParameters ==
  /\ Depth \in Nat
  /\ {"none", "yes", "no", "AK", "ignored", "switched", "read"} \subseteq Text
  /\ Reading \subseteq Text
  /\ \A r \in Request: /\ r.steps \in Block[Depth]
                       /\ r.transport \in Transport

ASSUME MeaningAssumption == MeaningParameters

-----------------------------------------------------------------------------

Signalled(e, signal) == [e EXCEPT !.signal = signal]
Logged(e, event) == [e EXCEPT !.log = Append(@, event)]

Answered(x, e) ==
  IF x.local \notin {"", e.over} THEN Signalled(e, "failed")
  ELSE IF e.answers = <<>> THEN Signalled(e, "pending")
  ELSE LET a == Head(e.answers) IN
       [e EXCEPT !.answers = Tail(@), !.last = a, !.cards[x.id] = a,
                 !.heard = IF a.lines = <<>> THEN @ ELSE LastLine(a.lines),
                 !.signal = IF a.status \in BadStatus /\ ~x.ignore
                            THEN "failed" ELSE "go"]

AfterCommand(x, e) ==
  IF x.name = NoName THEN Answered(x, Logged(e, <<"tx", x.id, "none">>))
  ELSE IF e.vars[x.name] = "none" THEN Signalled(e, "failed")
  ELSE Answered(x, Logged(e, <<"tx", x.id, e.vars[x.name]>>))

Assigned(x, e, value) ==
  Logged([e EXCEPT !.vars[x.name] = value], <<"variable", x.id, value>>)

\* A port or a result word takes its value from the answers too.
AfterReading(x, e) ==
  LET allowed ==
        IF x.source = "output_port"
        THEN e.over = "plclink" /\ x.count >= 1 /\ x.count <= PortCount
        ELSE e.over # "tcp" /\ \E k \in 1..ResultSize \div 2: x.count = 2 * k - 2
  IN  IF ~allowed THEN Signalled(e, "failed")
      ELSE IF e.answers = <<>> THEN Signalled(e, "pending")
      ELSE Assigned(x, [e EXCEPT !.answers = Tail(@)],
                    LastLine(Head(e.answers).lines))

\* What a source that is no reading knows, "" for nothing.
Recalled(x, e) ==
  CASE x.source = "last_status"   -> e.last.status
    [] x.source = "card_status"   -> e.cards[x.card].status
    [] x.source = "card_response" -> Strip[LastLine(e.cards[x.card].lines)]
    [] OTHER                      -> Strip[e.heard]

AfterVariable(x, e) ==
  IF x.name = NoName THEN Signalled(e, "failed")
  ELSE IF x.source \in {"output_port", "result_data"} THEN AfterReading(x, e)
  ELSE IF x.source = "literal" THEN Assigned(x, e, x.value)
  ELSE IF Recalled(x, e) = "" THEN Signalled(e, "failed")
  ELSE Assigned(x, e, Recalled(x, e))

\* The status is one line, the response as many as it has, or an empty one.
Looked(x, e) ==
  IF x.source = "status" THEN <<e.last.status>>
  ELSE IF e.last.lines = <<>> THEN <<"">> ELSE e.last.lines

Holds(x, e) ==
  CASE x.test = "equals" -> Looked(x, e) = <<x.value>>
    [] x.test = "contains" -> \E k \in DOMAIN Looked(x, e):
                                x.value \in Part[Looked(x, e)[k]]
    [] OTHER -> \A k \in DOMAIN Looked(x, e):
                  x.value \notin Part[Looked(x, e)[k]]

AfterIf(x, e, inLoop, meant) ==
  IF Holds(x, e)
  THEN meant[x.yes][inLoop][Logged(e, <<"condition", x.id, "yes">>)]
  ELSE meant[x.no][inLoop][Logged(e, <<"condition", x.id, "no">>)]

\* What do[from + 1] .. do[to] make of e, one after the other as long as
\* the signal is "go".
InTurn(do, from, to, e) ==
  LET after[i \in from..to] ==
        IF i = from THEN e
        ELSE IF after[i - 1].signal # "go" THEN after[i - 1]
        ELSE do[i][after[i - 1]]
  IN  after[to]

Rounds(x, meant) ==
  [i \in 1..x.count |->
     [e \in Env |-> meant[x.yes][TRUE][Logged(e, <<"round", x.id, i>>)]]]

\* A break ends the nearest loop only.
BreakCaught(e) == IF e.signal = "break" THEN Signalled(e, "go") ELSE e

\* The rounds after a number of them.
AfterRounds(x, done, e, meant) ==
  BreakCaught(InTurn(Rounds(x, meant), done, x.count, e))

AfterCard(x, e, inLoop, meant) ==
  CASE x.kind = "command"  -> AfterCommand(x, e)
    [] x.kind = "variable" -> AfterVariable(x, e)
    [] x.kind = "break"    -> Signalled(e, IF inLoop THEN "break" ELSE "failed")
    [] x.kind = "if"       -> AfterIf(x, e, inLoop, meant)
    [] x.kind = "loop"     -> AfterRounds(x, 0, e, meant)
    [] OTHER               -> e

Cards(block, inLoop, meant) ==
  [i \in 1..Len(block) |->
     [e \in Env |-> AfterCard(block[i], e, inLoop, meant)]]

\* What the lists no more than n deep mean.
Meant[n \in 0..Depth] ==
  [block \in Block[n] |-> [inLoop \in BOOLEAN |-> [e \in Env |->
     IF n = 0 THEN e
     ELSE InTurn(Cards(block, inLoop, Meant[n - 1]), 0, Len(block), e)]]]

Fresh(results) ==
  [answers |-> results, last |-> NoResult, heard |-> "",
   cards |-> [i \in Id |-> NoResult],
   vars |-> [n \in Name |-> "none"], over |-> transport, log |-> <<>>,
   signal |-> "go"]

Meaning == Meant[Depth][program][FALSE][Fresh(answers)]

\* What the engine does is what the sequence means, given the answers: nothing
\* is skipped, repeated, reordered or sent with an older value of a variable,
\* no branch is taken on an older result.  Without a stop the end is the right
\* one, and a failure comes at the card that is wrong or awaits its answer.
FollowsTheSequence ==
  LET meaning == Meaning IN
  /\ IsPrefix(log, meaning.log)
  /\ verdict = "completed" => meaning.signal = "go" /\ log = meaning.log
  /\ verdict = "failed" => /\ meaning.signal \in {"failed", "pending"}
                           /\ log = meaning.log
=============================================================================
