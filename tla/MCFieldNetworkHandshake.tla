----------------------- MODULE MCFieldNetworkHandshake -----------------------
(***************************************************************************)
(* The instance of FieldNetworkHandshake for TLC.                          *)
(***************************************************************************)
EXTENDS FieldNetworkHandshake
CONSTANTS a, b, i

\* Any two commands may be told apart by their answers.
MCMayAnswer == [c \in Command |-> IF c = a THEN {"AK"}
                                 ELSE IF c = i THEN {"NK"} ELSE {"AK", "NK"}]
=============================================================================
