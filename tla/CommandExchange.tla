--------------------------- MODULE CommandExchange ---------------------------
(***************************************************************************)
(* What sending commands to a VTV device promises, whatever carries them:  *)
(* a command that was sent is returned once and for good; one whose        *)
(* response is ignored is returned at once, with an error if it could not  *)
(* be sent; and a command whose exchange nothing disturbed is returned     *)
(* with an error or with a verdict the device gave on that command.        *)
(* DeviceClient in backend/engine.py is the interface, CommandResult the   *)
(* returned value.                                                         *)
(***************************************************************************)
CONSTANTS Command, Ignored

VARIABLES
    sent,        \* the commands sent so far
    clean,       \* those whose exchange nothing has disturbed
    executed,    \* the verdicts the device has given, with their commands
    outcome      \* what the caller of each command got back

exchange == <<sent, clean, executed, outcome>>

Init ==
    /\ sent = {}
    /\ clean = {}
    /\ executed = {}
    /\ outcome = [c \in Command |-> "none"]

\* Sending a command may disturb the ones under way, never a returned one.
Send(c) ==
    /\ c \in Command \ sent
    /\ sent' = sent \cup {c}
    /\ \/ clean' = clean \cup {c}
       \/ /\ clean' \in SUBSET clean
          /\ \A d \in clean \ clean' : outcome[d] \in {"none", "ignored"}
    /\ IF c \in Ignored
       THEN \E r \in {"ignored", "error"} : outcome' = [outcome EXCEPT ![c] = r]
       ELSE outcome' = outcome
    /\ UNCHANGED executed

\* The device acts on sent commands only, as often as it happens to.
Execute(c, v) ==
    /\ c \in sent
    /\ executed' = executed \cup {[cmd |-> c, result |-> v]}
    /\ UNCHANGED <<sent, clean, outcome>>

Return(c, r) ==
    /\ c \in sent
    /\ outcome[c] = "none"
    /\ r = "error" \/ (c \in clean => [cmd |-> c, result |-> r] \in executed)
    /\ outcome' = [outcome EXCEPT ![c] = r]
    /\ UNCHANGED <<sent, clean, executed>>

Next ==
    \E c \in Command :
        \/ Send(c)
        \/ \E v \in {"AK", "NK"} : Execute(c, v)
        \/ \E r \in {"AK", "NK", "error"} : Return(c, r)

\* Every command sent is returned.
Returns == \A c \in Command : c \in sent ~> outcome[c] # "none"

Spec == Init /\ [][Next]_exchange /\ Returns
=============================================================================
