------------------------------ MODULE MCLocalIo ------------------------------
(***************************************************************************)
(* Instances of LocalIo for TLC, on a memory of a few words.               *)
(***************************************************************************)
EXTENDS LocalIo

Plc == [transport |-> "plclink", pli |-> 0, pli_count |-> 2, plo |-> 4,
        plo_count |-> 2, busy_port |-> 1, signals |-> <<>>,
        command |-> 0, command_words |-> 2, response |-> 8, response_words |-> 2,
        result |-> 4, result_words |-> 2, result_on |-> FALSE,
        notify |-> 6, notify_on |-> FALSE]

\* The bit areas are moved about with the word areas fixed, and conversely.
BitCandidates ==
    {[Plc EXCEPT !.pli = i, !.pli_count = m, !.plo = o, !.plo_count = n,
                 !.busy_port = b] :
        <<i, m, o, n, b>> \in {0, 1, 4} \X (1 .. 2) \X (0 .. 3) \X (1 .. 2) \X (1 .. 3)}
WordCandidates ==
    {[Plc EXCEPT !.command = c, !.response = r, !.result = d, !.notify = n,
                 !.result_on = x, !.notify_on = y] :
        <<c, r, d, n, x, y>> \in
            (0 .. 3) \X (2 .. 4) \X {3, 4} \X {4} \X BOOLEAN \X BOOLEAN}

Fn == [transport |-> "field_network", esi_ports |-> 32, eso_ports |-> 32,
       command_words |-> 64, response_words |-> 64, result_words |-> 238,
       input_bytes |-> 612, output_bytes |-> 136, signals |-> <<>>]
FnCandidates ==
    {[Fn EXCEPT !.esi_ports = p, !.command_words = c, !.output_bytes = b] :
        <<p, c, b>> \in {0, 32, 64} \X {2, 4, 5, 64} \X {12, 14, 16, 136}}
    \cup {[Fn EXCEPT !.result_words = r, !.input_bytes = 2 * (68 + r)] :
            r \in {0, 652, 654, 656}}

\* Every pair of signals of these, whatever their roles and ids.
PlcSignals == {Signal("x", "busy", "plo", 2), Signal("x", "none", "plo", 1),
               Signal("y", "busy", "plo", 1), Signal("y", "none", "plo", 3),
               Signal("z", "busy", "status", 1), Signal("y", "error", "plo", 2)}
FnSignals == {Signal("x", "busy", "status", 1), Signal("x", "auto", "status", 2047),
              Signal("y", "busy", "eso", 1), Signal("z", "busy", "eso", 32),
              Signal("z", "busy", "eso", 33), Signal("w", "none", "status", 2048),
              Signal("w", "busy", "plo", 1), Signal("w", "none", "status", 0)}
SignalCandidates ==
    {[Plc EXCEPT !.signals = <<x, y>>] : x, y \in PlcSignals}
    \cup {[Plc EXCEPT !.signals = <<x>>] : x \in PlcSignals}
    \cup {[Fn EXCEPT !.signals = <<x, y>>] : x, y \in FnSignals}
    \cup {[Fn EXCEPT !.signals = <<x>>, !.eso_ports = 0, !.result_words = 240] :
             x \in FnSignals}
    \cup {[Fn EXCEPT !.signals = <<Signal("x", "busy", "status", b)>>,
                     !.result_words = 0, !.input_bytes = 136] : b \in {1087, 1088}}

MCCandidate == BitCandidates \cup WordCandidates \cup FnCandidates \cup SignalCandidates
MCSizes ==
    {<<612, b>> : b \in {0, 1, 10, 12, 14, 136, 138, 140, 146, 148,
                         1042, 1044, 1046, 1048, 1444, 1446}}
    \cup {<<b, 136>> : b \in {0, 10, 11, 12, 14, 16, 100, 102, 480, 482, 608,
                              612, 614, 620, 1442, 1444, 1446, 1448}}
=============================================================================
