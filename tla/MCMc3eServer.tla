---------------------------- MODULE MCMc3eServer ----------------------------
(***************************************************************************)
(* The instance of Mc3eServer for TLC: areas of four cells that start with *)
(* two, words of two bits.                                                 *)
(***************************************************************************)
EXTENDS Mc3eServer

CONSTANTS c1, c2

Batch(op, unit, device, head, values) ==
    [op |-> op, unit |-> unit, random |-> FALSE, complete |-> TRUE,
     entries |-> <<[device |-> device, head |-> head, values |-> values]>>]
Random(op, entries) ==
    [op |-> op, unit |-> "word", random |-> TRUE, complete |-> TRUE,
     entries |-> entries]
Short(r) == [r EXCEPT !.complete = FALSE]
D(head, values) == [device |-> "D", head |-> head, values |-> values]
M(head, values) == [device |-> "M", head |-> head, values |-> values]

WriteD == Batch("write", "word", "D", 1, <<5, 6>>)
WriteDPast == Batch("write", "word", "D", 3, <<7, 8>>)
WriteM == Batch("write", "word", "M", 1, <<3, 2>>)
WriteMBits == Batch("write", "bit", "M", 3, <<1>>)
ReadM == Batch("read", "word", "M", 0, <<0, 0>>)
ReadDBits == Batch("read", "bit", "D", 0, <<0>>)
ReadNothing == Batch("read", "word", "D", 5, <<>>)
RandomPast == Random("write", <<D(0, <<9>>), M(3, <<1>>), D(1, <<4>>)>>)
RandomShort == Short(Random("write", <<D(1, <<5>>), M(0, <<1>>)>>))
RandomRead == Random("read", <<D(2, <<0, 0>>), M(1, <<0>>)>>)

Clean(r) == [stray |-> <<>>, request |-> r]
After(stray, r) == [stray |-> stray, request |-> r]

MCScript == {
    <<After(<<7, 80>>, RandomPast), Clean(WriteD)>>,
    <<Clean(WriteM), After(<<80>>, ReadM)>>,
    <<Clean(RandomShort), Clean(RandomRead)>>,
    <<Clean(ReadNothing)>>,
    <<Clean(Short(WriteD)), After(<<0>>, WriteDPast)>>,
    <<After(<<80>>, WriteMBits), Clean(ReadDBits)>>}
MCRequest == UNION {{s[k].request : k \in DOMAIN s} : s \in MCScript}
=============================================================================
