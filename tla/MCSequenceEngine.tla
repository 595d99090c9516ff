-------------------------- MODULE MCSequenceEngine --------------------------
(***************************************************************************)
(* The sequences that SequenceEngine is checked with.                      *)
(***************************************************************************)
EXTENDS SequenceMeaning

CONSTANTS c, d, l, v

Blank == [kind |-> "note", id |-> c, ignore |-> FALSE, local |-> "",
          name |-> NoName, source |-> "literal", card |-> c, test |-> "equals",
          value |-> "AK", count |-> 0, yes |-> <<>>, no |-> <<>>]

Cmd(id)         == [Blank EXCEPT !.kind = "command", !.id = id]
CmdIgnored(id)  == [Cmd(id) EXCEPT !.ignore = TRUE]
CmdWith(id)     == [Cmd(id) EXCEPT !.name = v]
Pli(id)         == [Cmd(id) EXCEPT !.local = "plclink"]
Delay(n)        == [Blank EXCEPT !.kind = "delay", !.count = n]
Brk             == [Blank EXCEPT !.kind = "break"]
Let(source)     == [Blank EXCEPT !.kind = "variable", !.name = v, !.source = source]
LetUnnamed      == [Let("literal") EXCEPT !.name = NoName]
LetOf(source, n) == [Let(source) EXCEPT !.count = n]
IfAk(yes, no)   == [Blank EXCEPT !.kind = "if", !.source = "status",
                                 !.yes = yes, !.no = no]
IfHas(test, x, yes, no) ==
  [IfAk(yes, no) EXCEPT !.source = "response", !.test = test, !.value = x]
Loop(n, body)   == [Blank EXCEPT !.kind = "loop", !.id = l, !.count = n, !.yes = body]

\* Loops of every body of up to two cards out of a command, a break and one if
\* card over those, within a loop and with a break after them.
Plain == {Cmd(c), Brk}
Ifs == {IfHas("contains", "x", y, n): y, n \in SeqOf(Plain, 1)}
Bodies == {b \in SeqOf(Plain \cup Ifs, 2): ~(Len(b) = 2 /\ b[1] \in Ifs /\ b[2] \in Ifs)}
Loops == {Loop(2, b): b \in Bodies}
LoopPrograms ==
  {<<x, Brk>>: x \in Loops} \cup {<<Loop(2, <<x, Cmd(d)>>)>>: x \in Loops}

CardPrograms ==
  { <<Cmd(c), Blank, Delay(2), Cmd(d)>>,
    <<CmdIgnored(c), IfAk(<<Cmd(d)>>, <<CmdIgnored(d)>>), Cmd(c)>>,
    <<IfAk(<<>>, <<CmdIgnored(d)>>), IfAk(<<Cmd(c)>>, <<>>)>>,
    <<Let("literal"), CmdWith(c), Let("last_status"), CmdWith(d)>>,
    <<CmdWith(c)>>,
    <<CmdIgnored(c), Cmd(d), Let("card_status"), CmdWith(d)>>,
    <<Cmd(c), CmdIgnored(d), Let("card_response"), CmdWith(d),
      Let("last_response"), CmdWith(c)>>,
    <<Let("card_status"), Cmd(d)>>,
    <<Loop(2, <<Cmd(c), Let("last_response"), CmdWith(d)>>), Delay(1)>>,
    <<IfAk(<<Brk>>, <<Loop(1, <<IfAk(<<>>, <<Brk>>), Cmd(c)>>), Brk>>), Cmd(c)>>,
    <<Cmd(c), IfHas("not_contains", "x", <<Cmd(d)>>, <<>>),
      IfHas("equals", "y", <<Brk>>, <<Cmd(c)>>)>>,
    <<Pli(c), IfAk(<<CmdIgnored(d)>>, <<>>), Let("card_response"), CmdWith(d)>>,
    <<LetUnnamed, Cmd(c)>>,
    <<>> }

\* The response looked at, and what is left of it, after one or two commands:
\* without lines, with the status line alone, ignored.
Heard ==
  {<<Let("last_response"), CmdWith(c)>>, <<Let("card_response"), CmdWith(c)>>}
  \cup {<<IfHas(test, x, <<Cmd(d)>>, <<>>)>>:
          test \in {"equals", "contains", "not_contains"}, x \in {"", "AK", "x"}}
ResponsePrograms ==
  {<<x>> \o after: x \in {Cmd(c), CmdIgnored(c)}, after \in Heard}
  \cup {<<x, y>> \o after: x, y \in {Cmd(c), CmdIgnored(d)}, after \in Heard}

PortPrograms ==
  {<<LetOf("output_port", n), CmdWith(c)>>: n \in 1..3}
  \cup {<<LetOf("result_data", n), CmdWith(c)>>: n \in 0..4}
  \cup {<<Loop(2, <<LetOf("output_port", 1), CmdWith(c)>>)>>}

Returned(status, lines) == [status |-> status, lines |-> lines]

\* The status and the line of one result; with the input response switched off
\* the line alone, or nothing; the status and the codes of the response area.
Echoing == {Returned("AK", <<"AK", "x">>), Returned("AK", <<"AK", "y">>),
            Returned("NK", <<"NK">>)}
Plainly == {Returned("AK", <<"AK">>), Returned("AK", <<"AK", " x">>)}
Looping == {Returned("AK", <<"AK">>), Returned("AK", <<"AK", "x">>)}
Quiet   == {Returned("AK", <<>>), Returned("AK", <<"x">>), Returned("AK", <<" ">>)}
Area    == {Returned("AK", <<"AK", "xy">>), Returned("NK", <<"NK", "xy">>)}

MCResult == UNION {Echoing, Plainly, Looping, Quiet, Area}
MCText == {"none", "yes", "no", "AK", "NK", "ignored", "switched", "read", "",
           " ", "x", " x", "y", "xy", "0", "1"}
MCPart == [t \in MCText |-> {"", t} \cup CASE t = " x" -> {" ", "x"}
                                           [] t = "xy" -> {"x", "y"}
                                           [] OTHER -> {}]
MCStrip == [t \in MCText |-> CASE t = " " -> "" [] t = " x" -> "x" [] OTHER -> t]

On(programs, transports, results) ==
  {[steps |-> p, transport |-> t, device |-> results]:
     p \in programs, t \in transports}
MCRequest ==
  UNION {On(LoopPrograms, {"tcp"}, Looping),
         On(CardPrograms \cup PortPrograms, {"tcp"}, Echoing),
         On(CardPrograms \cup PortPrograms, {"plclink", "field_network"}, Area),
         On(ResponsePrograms, {"tcp"}, Quiet),
         On(ResponsePrograms, {"tcp"}, Plainly)}

=============================================================================
