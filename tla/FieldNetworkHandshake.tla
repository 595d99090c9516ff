------------------------ MODULE FieldNetworkHandshake ------------------------
(***************************************************************************)
(* The Field Network command handshake: FieldNetworkClient.send_command    *)
(* (backend/field_network/client.py) over the cyclic EtherNet/IP           *)
(* connection of EipClass1Scanner (eip_scanner.py).                        *)
(*                                                                         *)
(* Client and device never see each other's area: each sees the last copy  *)
(* that arrived.  The I/O loop sends a copy of the output assembly every   *)
(* cycle, the device a copy of its input assembly; copies are datagrams,   *)
(* lost now and then, and taken in the order they come (the sequence       *)
(* number is stored and compared with nothing).  Whether the network may   *)
(* reorder the input copies is chosen once, in inOrder.                    *)
(*                                                                         *)
(* As in PlcLinkHandshake an exchange is named by its command, an action   *)
(* is the code from one await to the next, and a definition introduced by  *)
(* "Slip:" is the one that follows it done wrong, used by no action.       *)
(***************************************************************************)
EXTENDS Naturals, FiniteSets, SequencesExt

CONSTANTS
    Command,     \* the commands that may be sent, each at most once
    Ignored,     \* those sent with ignore_response
    None,        \* no command, and the response area before any answer
    MayAnswer,   \* the verdicts the device may give on each command
    Callers,     \* how many sequences share the client
    MaxFlight    \* bound: input copies under way

ASSUME FieldNetworkAssumption ==
    /\ Ignored \subseteq Command
    /\ None \notin Command
    /\ None \notin [cmd : Command, result : {"AK", "NK"}]
    /\ MayAnswer \in [Command -> SUBSET {"AK", "NK"}]
    /\ Callers \in Nat \ {0}
    /\ MaxFlight \in Nat \ {0}

VARIABLES
    stage,       \* where the exchange of each command stands
    awaited,     \* the ignored command whose task a queued call waits for
    ignoreTask,  \* _ignore_task
    outcome,     \* what send_command returned or raised
    out,         \* the output assembly: trigger and command area
    in,          \* the input assembly as last received: BUSY and response area
    connected,   \* scanner.is_connected
    wireOut, wireIn,               \* the copies under way
    dev, devOut, devCmd, devIn,   \* the device
    inOrder,     \* the network keeps the order
    disturbed,   \* history: an exchange was abandoned, or two were open at once
    clean, executed                \* history, as in PlcLinkHandshake

clientVars == <<stage, awaited, ignoreTask, outcome, out>>
deviceVars == <<dev, devOut, devCmd, devIn>>
historyVars == <<disturbed, clean, executed>>
vars == <<clientVars, in, connected, wireOut, wireIn, deviceVars, inOrder,
          historyVars>>

Verdict == {"AK", "NK"}
Answer == [cmd : Command, result : Verdict]
Output == [trigger : {0, 1}, command : Command \cup {None}]
Input == [busy : {0, 1}, response : Answer \cup {None}]
Open(c) == stage[c] \in {"busy_on", "response", "busy_off"}
Calling == {c \in Command \ Ignored : Open(c)} \cup
           {c \in Command : stage[c] = "queued"}
AnyOpen == \E d \in Command : Open(d)
Pending(t) == t # None /\ stage[t] # "done"

Init ==
    /\ stage = [c \in Command |-> "unsent"]
    /\ awaited = [c \in Command |-> None]
    /\ ignoreTask = None
    /\ outcome = [c \in Command |-> "none"]
    /\ out = [trigger |-> 0, command |-> None]
    /\ in = [busy |-> 0, response |-> None]
    /\ connected = TRUE
    /\ wireOut = <<>> /\ wireIn = <<>>
    /\ dev = "rest" /\ devCmd = None
    /\ devOut = out /\ devIn = in
    /\ inOrder \in BOOLEAN
    /\ disturbed = FALSE /\ clean = {} /\ executed = {}

-----------------------------------------------------------------------------
(***************************************************************************)
(* The client.                                                             *)
(***************************************************************************)

\* _ignore_task after the call.
SlotAfter(c, slot) == IF c \in Ignored THEN c ELSE slot

\* The command area is written whole and the trigger raised, with no await
\* in between.  The response area and BUSY belong to the device: the previous
\* answer is still there.
Issue(c, slot) ==
    /\ out' = [trigger |-> 1, command |-> c]
    /\ stage' = [stage EXCEPT ![c] = "busy_on"]
    /\ ignoreTask' = SlotAfter(c, slot)
    /\ outcome' = [outcome EXCEPT ![c] = IF c \in Ignored THEN "ignored" ELSE @]
    /\ clean' = IF inOrder /\ ~disturbed /\ ~AnyOpen
                THEN clean \cup {c}
                ELSE {d \in clean : ~Open(d)}
    /\ disturbed' = (disturbed \/ AnyOpen)
    /\ UNCHANGED <<in, connected, wireOut, wireIn, deviceVars, inOrder,
                   executed>>

\* send_command up to its first suspension: the wait for an ignored command
\* that is still under way, or the first look at BUSY.
SendCommand(c) ==
    /\ connected
    /\ stage[c] = "unsent"
    /\ Cardinality(Calling) < Callers
    /\ \/ /\ ~Pending(ignoreTask)
          /\ Issue(c, None)
          /\ UNCHANGED awaited
       \/ /\ Pending(ignoreTask)
          /\ stage' = [stage EXCEPT ![c] = "queued"]
          /\ awaited' = [awaited EXCEPT ![c] = ignoreTask]
          /\ ignoreTask' = None
          /\ UNCHANGED <<outcome, out, in, connected, wireOut, wireIn,
                         deviceVars, inOrder, historyVars>>

\* The wait for the ignored command is over; is_connected is not asked again.
ResumeSend(c) ==
    /\ stage[c] = "queued"
    /\ ~Pending(awaited[c])
    /\ Issue(c, ignoreTask)
    /\ UNCHANGED awaited

\* What is waited for after BUSY ON: an old answer satisfies the wait for a
\* response on the spot, and an ignored command skips it.
AfterBusyOn(c) ==
    IF c \in Ignored \/ in.response # None THEN "busy_off" ELSE "response"

PollBusyOn(c) ==
    /\ stage[c] = "busy_on"
    /\ in.busy = 1
    /\ out' = [out EXCEPT !.trigger = 0]
    /\ stage' = [stage EXCEPT ![c] = AfterBusyOn(c)]
    /\ UNCHANGED <<awaited, ignoreTask, outcome, historyVars>>

\* Slip: the answer is taken as soon as there is one.
AnsweredAtOnce(c) == stage[c] \in {"response", "busy_off"} /\ in.response # None

Answered(c) == stage[c] = "busy_off" /\ in.busy = 0

PollResponse(c) ==
    /\ stage[c] = "response"
    /\ in.response # None
    /\ stage' = [stage EXCEPT ![c] = "busy_off"]
    /\ UNCHANGED <<awaited, ignoreTask, outcome, out, historyVars>>

\* BUSY OFF is seen and the response area is read; anything but 1 (AK) or
\* 8 (NK) is an error.  The task of an ignored command leaves both alone.
PollBusyOff(c) ==
    /\ Answered(c)
    /\ stage' = [stage EXCEPT ![c] = "done"]
    /\ IF c \in Ignored
       THEN UNCHANGED <<outcome, out>>
       ELSE /\ outcome' = [outcome EXCEPT ![c] =
                  IF in.response = None THEN "error" ELSE in.response.result]
            /\ out' = [out EXCEPT !.trigger = 0]
    /\ UNCHANGED <<awaited, ignoreTask, historyVars>>

\* What c waits for has not arrived.
Waits(c) ==
    \/ stage[c] = "busy_on" /\ in.busy = 0
    \/ stage[c] = "response" /\ in.response = None
    \/ stage[c] = "busy_off" /\ in.busy = 1

\* Slip: the wait of an ignored command has no deadline.
GivesUpInCall(c) == Waits(c) /\ c \notin Ignored

\* The deadline may pass at any poll, the scanner may be disconnected.
GivesUp(c) == Waits(c)

\* Slip: a failed command leaves its trigger on.
OutputLeft(c) == out

OutputOnFailure(c) == [out EXCEPT !.trigger = 0]

\* Slip: the failure of an ignored command is raised as well.
OutcomeRaised(c) == [outcome EXCEPT ![c] = "error"]

OutcomeOnFailure(c) ==
    IF c \in Ignored THEN outcome ELSE [outcome EXCEPT ![c] = "error"]

\* A wait gives up: the trigger goes off, in the finally clause or in the
\* except clause of the task.
Abandon(c) ==
    /\ GivesUp(c)
    /\ stage' = [stage EXCEPT ![c] = "done"]
    /\ outcome' = OutcomeOnFailure(c)
    /\ out' = OutputOnFailure(c)
    /\ disturbed' = TRUE
    /\ UNCHANGED <<awaited, ignoreTask, clean, executed>>

\* One wake-up of the exchange of c that changes something.
Progress(c) ==
    /\ \/ PollBusyOn(c)
       \/ PollResponse(c)
       \/ PollBusyOff(c)
       \/ Abandon(c)
    /\ UNCHANGED <<in, connected, wireOut, wireIn, deviceVars, inOrder>>

-----------------------------------------------------------------------------
(***************************************************************************)
(* The cyclic connection.                                                  *)
(***************************************************************************)

\* _send_output, once a cycle, is_connected or not; a copy the network loses is
\* one never sent, as nothing else depends on it.
SendOutput ==
    /\ wireOut = <<>>
    /\ wireOut' = <<out>>
    /\ UNCHANGED <<clientVars, in, connected, wireIn, deviceVars, inOrder,
                   historyVars>>

\* _drain_input_queue, _handle_input_packet, write_input: whatever the
\* sequence number, and is_connected or not.
HandleInput ==
    /\ \E k \in {j \in DOMAIN wireIn : inOrder => j = 1} :
          /\ in' = wireIn[k]
          /\ wireIn' = RemoveAt(wireIn, k)
    /\ UNCHANGED <<clientVars, connected, wireOut, deviceVars, inOrder,
                   historyVars>>

\* A failed send, or the receiving thread stopped by an error, only clears
\* is_connected: the I/O loop goes on sending and draining what came before.
\* Any other error ends the loop as well; its copies are then never sent nor
\* taken, which nothing here forces.  Buffers and session stay as they are.
Disconnect ==
    /\ connected
    /\ connected' = FALSE
    /\ UNCHANGED <<clientVars, in, wireOut, wireIn, deviceVars, inOrder,
                   historyVars>>

-----------------------------------------------------------------------------
(***************************************************************************)
(* The VTV device, external: the timing chart of PlcLinkHandshake over the *)
(* copies it receives and sends.  It starts a command when a copy shows    *)
(* the trigger on and the one before, or the one it ended on, did not.     *)
(***************************************************************************)
VtvReceive ==
    /\ wireOut # <<>>
    /\ devOut' = Head(wireOut)
    /\ wireOut' = <<>>
    /\ IF dev = "rest" /\ devOut.trigger = 0 /\ devOut'.trigger = 1
       THEN /\ dev' = "executing"
            /\ devCmd' = devOut'.command
            /\ devIn' = [devIn EXCEPT !.busy = 1]
       ELSE UNCHANGED <<dev, devCmd, devIn>>
    /\ UNCHANGED <<wireIn, executed>>

VtvSend ==
    /\ Len(wireIn) < MaxFlight
    /\ wireIn' = Append(wireIn, devIn)
    /\ UNCHANGED <<deviceVars, wireOut, executed>>

VtvRespond ==
    /\ dev = "executing"
    /\ dev' = "answered"
    /\ \E v \in MayAnswer[devCmd] :
          /\ devIn' = [devIn EXCEPT !.response = [cmd |-> devCmd, result |-> v]]
          /\ executed' = executed \cup {[cmd |-> devCmd, result |-> v]}
    /\ UNCHANGED <<devOut, devCmd, wireOut, wireIn>>

\* BUSY goes off, whether or not the trigger has.
VtvBusyOff ==
    /\ dev = "answered"
    /\ dev' = "rest"
    /\ devIn' = [devIn EXCEPT !.busy = 0]
    /\ UNCHANGED <<devOut, devCmd, wireOut, wireIn, executed>>

Vtv ==
    /\ \/ VtvReceive
       \/ VtvSend
       \/ VtvRespond
       \/ VtvBusyOff
    /\ UNCHANGED <<clientVars, in, connected, inOrder, disturbed, clean>>

-----------------------------------------------------------------------------
Next ==
    \/ \E c \in Command : \/ SendCommand(c)
                          \/ ResumeSend(c)
                          \/ Progress(c)
    \/ SendOutput
    \/ HandleInput
    \/ Disconnect
    \/ Vtv

\* The event loop wakes every poll again and its deadline comes.
Spec == Init /\ [][Next]_vars
        /\ \A c \in Command : WF_vars(Progress(c)) /\ WF_vars(ResumeSend(c))

-----------------------------------------------------------------------------
(***************************************************************************)
(* Properties.                                                             *)
(***************************************************************************)

\* Every variable keeps its type.
TypeOK ==
    /\ stage \in [Command -> {"unsent", "queued", "busy_on", "response",
                              "busy_off", "done"}]
    /\ awaited \in [Command -> Ignored \cup {None}]
    /\ ignoreTask \in Ignored \cup {None}
    /\ outcome \in [Command -> {"none", "ignored", "error"} \cup Verdict]
    /\ out \in Output /\ devOut \in Output /\ wireOut \in Seq(Output)
    /\ in \in Input /\ devIn \in Input /\ wireIn \in Seq(Input)
    /\ {connected, inOrder, disturbed} \subseteq BOOLEAN
    /\ dev \in {"rest", "executing", "answered"}
    /\ devCmd \in Command \cup {None}
    /\ clean \in SUBSET Command
    /\ executed \in SUBSET [cmd : Command \cup {None}, result : Verdict]

\* On a network that keeps the order, whatever it loses: as long as no exchange
\* has failed and no two were open at once, a command gets a verdict the device
\* gave on that very command, although the previous answer and any number of old
\* copies are still about and nothing in a copy is compared.  (Of two that
\* overlap one may be started by the device when its caller is long gone.)
AnswerIsOwn ==
    \A c \in clean : outcome[c] \in Verdict =>
        [cmd |-> c, result |-> outcome[c]] \in executed

\* The trigger the next cycles send is on only while an exchange waits for
\* BUSY ON, however the earlier ones ended.
TriggerIsAwaited ==
    out.trigger = 1 => \E c \in Command : stage[c] = "busy_on"

\* Every send_command returns or raises, also when it has to wait for an
\* ignored command first and when the connection is lost meanwhile.
SendReturns ==
    \A c \in Command : stage[c] # "unsent" ~> outcome[c] # "none"

Exchange == INSTANCE CommandExchange WITH
    sent <- {c \in Command : stage[c] \notin {"unsent", "queued"}}

\* The Field Network handshake implements the exchange of CommandExchange, as
\* the PLCLINK handshake does: one outcome per command, never revised, and a
\* clean one's verdict its own.
ImplementsExchange == Exchange!Init /\ [][Exchange!Next]_(Exchange!exchange)
=============================================================================
