--------------------------- MODULE AssemblyLayout ---------------------------
(***************************************************************************)
(* Where the Field Network areas lie in the two assemblies, and the        *)
(* assignment proposed from the sizes in an EDS file                       *)
(* (backend/field_network/layout.py; the rough proposal of import_eds in   *)
(* backend/main.py).  Offsets and sizes are in words unless named Byte,    *)
(* bits count from the start of the assembly.                              *)
(***************************************************************************)
EXTENDS Integers

StatusWords == 2      \* STATUS_OUTPUT_WORDS
ReservedWords == 2    \* RESERVED_INPUT_WORDS
IoPorts == {0, 32, 64, 96, 128}

Even(n) == n % 2 = 0

\* AssemblyLayout: the input assembly (device to scanner) holds status, ESO
\* ports, result data and response; the output assembly holds a reserved
\* area, ESI ports and the command area.
Layout(l) ==
    LET eso == StatusWords
        result == eso + l.eso_ports \div 16
        response == result + l.result_words
        esi == ReservedWords
        command == esi + l.esi_ports \div 16
    IN  [eso_word |-> eso, result_word |-> result, response_word |-> response,
         input_words |-> response + l.response_words,
         esi_word |-> esi, command_word |-> command,
         output_words |-> command + l.command_words]

\* build_layout refuses anything else.
Buildable(l) ==
    /\ {l.esi_ports, l.eso_ports} \subseteq IoPorts
    /\ l.command_words >= 4 /\ Even(l.command_words)
    /\ l.response_words >= 4 /\ Even(l.response_words)
    /\ l.result_words >= 0 /\ Even(l.result_words)

\* validate_layout_against_sizes.
FitsSizes(l, inBytes, outBytes) ==
    /\ Layout(l).input_words * 2 = inBytes
    /\ Layout(l).output_words * 2 = outBytes

\* The words of each area, as sets.
Words(first, size) == first .. (first + size - 1)
OutputAreas(l) ==
    [reserved |-> Words(0, ReservedWords),
     esi |-> Words(Layout(l).esi_word, l.esi_ports \div 16),
     command |-> Words(Layout(l).command_word, l.command_words)]
InputAreas(l) ==
    [status |-> Words(0, StatusWords),
     eso |-> Words(Layout(l).eso_word, l.eso_ports \div 16),
     result |-> Words(Layout(l).result_word, l.result_words),
     response |-> Words(Layout(l).response_word, l.response_words)]

\* The bits of the assemblies that stand for port number port, and for a
\* status signal (resolve_status_signal_bit).
EsiBit(l, port) == Layout(l).esi_word * 16 + (port - 1)
EsoBit(l, port) == Layout(l).eso_word * 16 + (port - 1)
SignalBit(l, signal) ==
    IF signal.source = "eso" THEN EsoBit(l, signal.at) ELSE signal.at

-----------------------------------------------------------------------------
(***************************************************************************)
(* suggest_layout_from_sizes: the candidate with the smallest score, ties  *)
(* broken by the rest of the tuple.                                        *)
(***************************************************************************)
Dist(a, b) == IF a < b THEN b - a ELSE a - b
Min2(a, b) == IF a < b THEN a ELSE b

Precedes(s, t) ==
    \E k \in DOMAIN s : s[k] < t[k] /\ \A j \in 1 .. (k - 1) : s[j] = t[j]
Best(S) == CHOOSE s \in S : \A t \in S \ {s} : Precedes(s, t)

Preferred == 64

\* Slip: the words of the ESI ports are not subtracted.
CommandLeftPlain(outWords, ports) == outWords - ReservedWords

CommandLeft(outWords, ports) == outWords - ReservedWords - ports \div 16

\* <<score, ESI ports, command words>>
OutputCandidates(outWords) ==
    {<<Dist(CommandLeft(outWords, p), Preferred), p, CommandLeft(outWords, p)>> :
        p \in {q \in IoPorts : /\ CommandLeft(outWords, q) >= 4
                               /\ Even(CommandLeft(outWords, q))}}

\* <<score, ESO ports, result words, response words>>, given the ESI ports
InputCandidates(inWords, esi) ==
    LET Left(p) == inWords - StatusWords - p \div 16
        Responses(p) == {r \in {64, 32, 16, 8, 4} : r <= Left(p) /\ Even(Left(p) - r)}
        Score(p, r) == Dist(r, Preferred)
                       + Min2(Dist(Left(p) - r, 238), Dist(Left(p) - r, 240))
                       + (IF p = esi THEN 0 ELSE 10)
    IN  UNION {{<<Score(p, r), p, Left(p) - r, r>> : r \in Responses(p)} : p \in IoPorts}

\* Whether there is a proposal, and which.
Suggestible(inBytes, outBytes) ==
    /\ Even(inBytes) /\ Even(outBytes)
    /\ inBytes \div 2 >= 6 /\ outBytes \div 2 >= 6
    /\ OutputCandidates(outBytes \div 2) # {}
    /\ InputCandidates(inBytes \div 2, Best(OutputCandidates(outBytes \div 2))[2]) # {}

Suggested(inBytes, outBytes) ==
    LET o == Best(OutputCandidates(outBytes \div 2))
        i == Best(InputCandidates(inBytes \div 2, o[2]))
    IN  [esi_ports |-> o[2], command_words |-> o[3],
         eso_ports |-> i[2], result_words |-> i[3], response_words |-> i[4]]

\* What import_eds proposes otherwise, on top of what the settings hold: no
\* ports, everything left to the command area, and the response area first.
Rough(l, inBytes, outBytes) ==
    LET out == outBytes \div 2
        remain == inBytes \div 2 - 2
        half == IF remain > 64 THEN 64
                ELSE IF remain \div 2 > 4 THEN remain \div 2 ELSE 4
        response == half - (half % 2)
        rest == remain - response
        withOut == IF out >= 6
                   THEN [l EXCEPT !.command_words = out - 2, !.esi_ports = 0]
                   ELSE l
    IN  IF remain < 4 THEN withOut
        ELSE [withOut EXCEPT !.eso_ports = 0, !.response_words = response,
                             !.result_words = rest - (rest % 2)]
=============================================================================
