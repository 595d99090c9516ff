--------------------------- MODULE PlcLinkHandshake ---------------------------
(***************************************************************************)
(* The PLCLINK command handshake: PlcLinkClient.send_command and the       *)
(* background completion of ignored commands (backend/plc_link/client.py)  *)
(* over the memory of the simulated PLC, which the VTV device polls.       *)
(*                                                                         *)
(* A command exchange is one process, named by its command.  It runs       *)
(* either inside the send_command call of the sequence that issued it, or, *)
(* for a command in Ignored, as the task created by create_task.  Between  *)
(* two awaits the event loop runs nothing else, so each action below is    *)
(* one stretch of code from one await to the next; the device's requests   *)
(* are served by tasks of the same loop, one request per action.           *)
(*                                                                         *)
(* All the sequences running in the server share one PlcLinkClient         *)
(* (main._get_plclink_client), hence the set Sender.                       *)
(***************************************************************************)
EXTENDS Naturals

CONSTANTS
    Command,     \* the commands that may be sent, each at most once
    Ignored,     \* those sent with ignore_response
    Sender,      \* the running sequences sharing this client
    None,        \* no command
    HoldsBusy,   \* the device keeps BUSY on until it reads the trigger off
    MayFail      \* waits may time out and the connection may be lost

ASSUME HandshakeAssumption ==
    /\ Ignored \subseteq Command
    /\ None \notin Command
    /\ HoldsBusy \in BOOLEAN
    /\ MayFail \in BOOLEAN

VARIABLES
    \* the client
    stage,       \* where the exchange of each command stands
    calling,     \* the command whose send_command each sequence is inside
    awaited,     \* the ignored command whose task that call waits for first
    ignoreTask,  \* _ignore_task: the ignored command in the single slot
    outcome,     \* what send_command returned or raised for each command
    \* the areas of the PLC memory the handshake uses
    trigger, command, response, busy,
    \* the device
    connected, dev, level, devCmd,
    \* history, read by the properties only
    taken, executed, clean

clientVars == <<stage, calling, awaited, ignoreTask, outcome>>
memoryVars == <<trigger, command, response, busy>>
deviceVars == <<connected, dev, level, devCmd>>
historyVars == <<taken, executed, clean>>
vars == <<clientVars, memoryVars, deviceVars, historyVars>>

Verdict == {"AK", "NK"}
Answer == [cmd : Command, result : Verdict]

\* The response area after write_words(response_base, [0] * response_size).
Cleared == [cmd |-> None, result |-> "none"]

\* Open exchanges: the command words are written and the wait is not over.
Open(c) == stage[c] \in {"busy_on", "response", "busy_off"}

Init ==
    /\ stage = [c \in Command |-> "unsent"]
    /\ calling = [s \in Sender |-> None]
    /\ awaited = [s \in Sender |-> None]
    /\ ignoreTask = None
    /\ outcome = [c \in Command |-> "none"]
    /\ trigger = 0
    /\ command = None
    /\ response = Cleared
    /\ busy = 0
    /\ connected = FALSE
    /\ dev = "rest"
    /\ level = 0
    /\ devCmd = None
    /\ taken = {}
    /\ executed = {}
    /\ clean = {}

-----------------------------------------------------------------------------
(***************************************************************************)
(* The client.                                                             *)
(***************************************************************************)

(***************************************************************************)
(* A definition introduced by "Slip:" is the definition that follows it    *)
(* with one thing done wrong.  No action uses it: it is what the runs must *)
(* tell from the code.                                                     *)
(***************************************************************************)

\* Slip: the previous response stays in the area.
WriteOverResponse(c) ==
    /\ command' = c
    /\ busy' = 0
    /\ trigger' = 1
    /\ UNCHANGED response

\* Slip: BUSY is left as an earlier exchange or a restarted device left it.
WriteOverBusy(c) ==
    /\ response' = Cleared
    /\ command' = c
    /\ trigger' = 1
    /\ UNCHANGED busy

\* Clear the response, write the command with the trigger off, clear BUSY,
\* trigger on: one stretch without an await.
WriteCommand(c) ==
    /\ response' = Cleared
    /\ command' = c
    /\ busy' = 0
    /\ trigger' = 1

\* An ignored command is handed over to a task, filling the slot, and
\* send_command returns "AK" at once; any other keeps the sequence waiting.
HandOver(s, c, slot) ==
    /\ ignoreTask' = IF c \in Ignored THEN c ELSE slot
    /\ calling' = [calling EXCEPT ![s] = IF c \in Ignored THEN None ELSE c]
    /\ outcome' = IF c \in Ignored THEN [outcome EXCEPT ![c] = "ignored"]
                                   ELSE outcome

\* History: a command is clean when it starts with the device at rest and no
\* other exchange open, until another command is written over it.
JudgeClean(c) ==
    clean' = IF dev = "rest" /\ \A d \in Command : ~Open(d)
             THEN clean \cup {c}
             ELSE {d \in clean : ~Open(d)}

\* send_command from its first memory write to its next await.
Issue(s, c, slot) ==
    /\ WriteCommand(c)
    /\ HandOver(s, c, slot)
    /\ JudgeClean(c)
    /\ stage' = [stage EXCEPT ![c] = "busy_on"]
    /\ UNCHANGED <<deviceVars, taken, executed>>

\* There is a task and it has not ended.
Pending(t) == t # None /\ stage[t] # "done"

\* Slip: the task of an earlier ignored command is not waited for.
SendAtOnce(s, c) ==
    /\ calling[s] = None
    /\ stage[c] = "unsent"
    /\ connected
    /\ Issue(s, c, None)
    /\ UNCHANGED awaited

\* send_command up to its first real suspension.  The slot is taken before
\* the wait; a task that has ended (or no task) is not waited for.
SendCommand(s, c) ==
    /\ calling[s] = None
    /\ stage[c] = "unsent"
    /\ connected
    /\ \/ /\ ~Pending(ignoreTask)
          /\ Issue(s, c, None)
          /\ UNCHANGED awaited
       \/ /\ Pending(ignoreTask)
          /\ stage' = [stage EXCEPT ![c] = "queued"]
          /\ calling' = [calling EXCEPT ![s] = c]
          /\ awaited' = [awaited EXCEPT ![s] = ignoreTask]
          /\ ignoreTask' = None
          /\ UNCHANGED <<outcome, memoryVars, deviceVars, historyVars>>

\* _await_ignore_task returns; the connection is not looked at again.
ResumeSend(s) ==
    /\ awaited[s] # None
    /\ ~Pending(awaited[s])
    /\ Issue(s, calling[s], ignoreTask)
    /\ awaited' = [awaited EXCEPT ![s] = None]

\* The exchange of c is over and the sequence inside it, if any, goes on.
Finish(c) ==
    /\ stage' = [stage EXCEPT ![c] = "done"]
    /\ calling' = [s \in Sender |-> IF calling[s] = c THEN None ELSE calling[s]]

\* The end of send_command: the finally clause drops the trigger, then the
\* response area is read; anything but 1 (AK) or 8 (NK) is an error.  The
\* echoed command is reported in the result and compared with nothing.
Return(c) ==
    /\ trigger' = 0
    /\ outcome' = [outcome EXCEPT ![c] =
                      IF response = Cleared THEN "error" ELSE response.result]
    /\ Finish(c)
    /\ UNCHANGED <<awaited, ignoreTask, command, response, busy,
                   deviceVars, historyVars>>

\* Slip: the trigger stays on until the finally clause.
PollBusyOnHolding(c) ==
    /\ stage[c] = "busy_on"
    /\ busy = 1
    /\ stage' = [stage EXCEPT ![c] =
                    IF c \in Ignored \/ response # Cleared
                    THEN "busy_off" ELSE "response"]
    /\ UNCHANGED <<calling, awaited, ignoreTask, outcome, memoryVars,
                   deviceVars, historyVars>>

\* BUSY ON is seen: trigger off, and the first look at what comes next is
\* made without suspending.  An ignored command does not look at the response.
PollBusyOn(c) ==
    /\ stage[c] = "busy_on"
    /\ busy = 1
    /\ trigger' = 0
    /\ stage' = [stage EXCEPT ![c] =
                    IF c \in Ignored \/ response # Cleared
                    THEN "busy_off" ELSE "response"]
    /\ UNCHANGED <<calling, awaited, ignoreTask, outcome, command, response,
                   busy, deviceVars, historyVars>>

\* _wait_response_ready sees result 1 or 8.
PollResponse(c) ==
    /\ stage[c] = "response"
    /\ response # Cleared
    /\ \/ /\ busy = 1
          /\ stage' = [stage EXCEPT ![c] = "busy_off"]
          /\ UNCHANGED <<calling, awaited, ignoreTask, outcome, memoryVars,
                         deviceVars, historyVars>>
       \/ /\ busy = 0
          /\ Return(c)

\* BUSY OFF is seen.  A task that completes leaves the trigger alone.
PollBusyOff(c) ==
    /\ stage[c] = "busy_off"
    /\ busy = 0
    /\ \/ /\ c \notin Ignored
          /\ Return(c)
       \/ /\ c \in Ignored
          /\ Finish(c)
          /\ UNCHANGED <<awaited, ignoreTask, outcome, memoryVars,
                         deviceVars, historyVars>>

\* What the exchange of c waits for is there: looked at before the deadline.
Ready(c) ==
    \/ stage[c] = "busy_on" /\ busy = 1
    \/ stage[c] = "response" /\ response # Cleared
    \/ stage[c] = "busy_off" /\ busy = 0

\* Slip: no finally clause.
AbandonTriggerOn(c) ==
    /\ Open(c) /\ ~Ready(c)
    /\ outcome' = IF c \in Ignored THEN outcome
                                   ELSE [outcome EXCEPT ![c] = "error"]
    /\ Finish(c)
    /\ UNCHANGED <<awaited, ignoreTask, memoryVars, deviceVars, historyVars>>

\* Slip: the failure of an ignored command reaches whoever sent it.
AbandonLoudly(c) ==
    /\ Open(c) /\ ~Ready(c)
    /\ trigger' = 0
    /\ outcome' = [outcome EXCEPT ![c] = "error"]
    /\ Finish(c)
    /\ UNCHANGED <<awaited, ignoreTask, command, response, busy,
                   deviceVars, historyVars>>

\* A wait gives up: trigger off (finally, or the task's except clause), and
\* send_command raises; what an ignored command returned stands.
Abandon(c) ==
    /\ Open(c) /\ ~Ready(c)
    /\ trigger' = 0
    /\ outcome' = IF c \in Ignored THEN outcome
                                   ELSE [outcome EXCEPT ![c] = "error"]
    /\ Finish(c)
    /\ UNCHANGED <<awaited, ignoreTask, command, response, busy,
                   deviceVars, historyVars>>

\* Slip: the background task has no deadline.
TimeOutInCall(c) == MayFail /\ c \notin Ignored /\ Abandon(c)

\* The deadline may pass at any poll: the device may be arbitrarily slow.
TimeOut(c) == MayFail /\ Abandon(c)

\* client_count is 0 at a poll.
LoseDevice(c) == ~connected /\ Abandon(c)

-----------------------------------------------------------------------------
(***************************************************************************)
(* The VTV device, external.  What it does is the timing chart of the      *)
(* PLCLINK manual (docs/plc_link/_extract.txt) and the device played by    *)
(* tests/test_plclink.py: it starts on a rise of the trigger it has seen,  *)
(* raises BUSY, writes the response, reads the trigger once more and       *)
(* lowers BUSY.  level is the trigger as it last read it.                  *)
(***************************************************************************)

VtvPoll ==
    /\ connected
    /\ dev = "rest"
    /\ level # trigger
    /\ level' = trigger
    /\ \/ trigger = 1 /\ dev' = "taken" /\ devCmd' = command
       \/ trigger = 0 /\ UNCHANGED <<dev, devCmd>>
    /\ UNCHANGED <<connected, clientVars, memoryVars, historyVars>>

VtvBusyOn ==
    /\ connected
    /\ dev = "taken"
    /\ dev' = "executing"
    /\ busy' = 1
    /\ taken' = taken \cup {devCmd}
    /\ UNCHANGED <<connected, level, devCmd, clientVars, trigger, command,
                   response, executed, clean>>

VtvRespond ==
    /\ connected
    /\ dev = "executing"
    /\ dev' = "answered"
    /\ \E v \in Verdict :
          /\ response' = [cmd |-> devCmd, result |-> v]
          /\ executed' = executed \cup {[cmd |-> devCmd, result |-> v]}
    /\ UNCHANGED <<connected, level, devCmd, clientVars, trigger, command,
                   busy, taken, clean>>

\* The read just before BUSY goes off.
VtvSample ==
    /\ connected
    /\ dev = "answered"
    /\ HoldsBusy => trigger = 0
    /\ dev' = "closing"
    /\ level' = trigger
    /\ UNCHANGED <<connected, devCmd, clientVars, memoryVars, historyVars>>

VtvBusyOff ==
    /\ connected
    /\ dev = "closing"
    /\ dev' = "rest"
    /\ devCmd' = None
    /\ busy' = 0
    /\ UNCHANGED <<connected, level, clientVars, trigger, command, response,
                   historyVars>>

Vtv == VtvPoll \/ VtvBusyOn \/ VtvRespond \/ VtvSample \/ VtvBusyOff

\* The last device connection is lost, or the server is stopped.
Disconnect ==
    /\ MayFail
    /\ connected
    /\ connected' = FALSE
    /\ UNCHANGED <<dev, level, devCmd, clientVars, memoryVars, historyVars>>

\* The device connects.  One at rest may publish its idle outputs, or not.
Connect ==
    /\ ~connected
    /\ connected' = TRUE
    /\ busy' \in {busy} \cup (IF dev = "rest" THEN {0} ELSE {})
    /\ UNCHANGED <<dev, level, devCmd, clientVars, trigger, command, response,
                   historyVars>>

\* The device is switched off and on: it forgets what it was doing.
Restart ==
    /\ MayFail
    /\ ~connected
    /\ dev' = "rest"
    /\ devCmd' = None
    /\ level' = 0
    /\ UNCHANGED <<connected, clientVars, memoryVars, historyVars>>

-----------------------------------------------------------------------------
\* One poll of the exchange of c that changes something.
Progress(c) ==
    \/ PollBusyOn(c)
    \/ PollResponse(c)
    \/ PollBusyOff(c)
    \/ TimeOut(c)
    \/ LoseDevice(c)

Next ==
    \/ \E s \in Sender : \/ \E c \in Command : SendCommand(s, c)
                         \/ ResumeSend(s)
    \/ \E c \in Command : Progress(c)
    \/ Vtv
    \/ Disconnect
    \/ Connect
    \/ Restart

\* Every poll loop wakes up again and its deadline comes; a task that has
\* ended wakes the call that awaits it.
LoopFairness ==
    /\ \A c \in Command : WF_vars(Progress(c))
    /\ \A s \in Sender : WF_vars(ResumeSend(s))

Spec == Init /\ [][Next]_vars /\ LoopFairness

\* With a device that is there and keeps working.
LiveDeviceSpec == Spec /\ WF_vars(Vtv) /\ WF_vars(Connect)

-----------------------------------------------------------------------------
(***************************************************************************)
(* Properties.                                                             *)
(***************************************************************************)

\* Every variable keeps its type.
TypeOK ==
    /\ stage \in [Command -> {"unsent", "queued", "busy_on", "response",
                              "busy_off", "done"}]
    /\ calling \in [Sender -> Command \cup {None}]
    /\ awaited \in [Sender -> Ignored \cup {None}]
    /\ ignoreTask \in Ignored \cup {None}
    /\ outcome \in [Command -> {"none", "ignored", "error"} \cup Verdict]
    /\ trigger \in {0, 1}
    /\ command \in Command \cup {None}
    /\ response \in Answer \cup {Cleared}
    /\ busy \in {0, 1}
    /\ connected \in BOOLEAN
    /\ dev \in {"rest", "taken", "executing", "answered", "closing"}
    /\ level \in {0, 1}
    /\ devCmd \in Command \cup {None}
    /\ taken \in SUBSET (Command \cup {None})
    /\ executed \in SUBSET [cmd : Command \cup {None}, result : Verdict]
    /\ clean \in SUBSET Command

\* A command written while the device is at rest and no other exchange is
\* open, and not written over since, is answered with a verdict the device
\* gave on that very command, or with an error: whatever times out, whoever
\* disconnects, and although send_command never looks at the echoed command.
AnswerIsOwn ==
    \A c \in clean : outcome[c] \in Verdict =>
        [cmd |-> c, result |-> outcome[c]] \in executed

\* For such a command, no wait is past BUSY ON, with the trigger dropped,
\* unless the device raised BUSY for that command: a BUSY left over by an
\* earlier exchange or by a device that was restarted is not mistaken for it.
TakenBeforeTriggerOff ==
    \A c \in clean : stage[c] \in {"response", "busy_off"} => c \in taken

\* The trigger is on only while some exchange still waits for BUSY ON: every
\* way out of that wait, by success, deadline or lost connection, in the call
\* or in the background task, leaves the trigger off.
TriggerIsAwaited ==
    trigger = 1 => \E c \in Command : stage[c] = "busy_on"

\* The device never acts on a command nobody sent, nor on one whose words a
\* queued sequence has not written yet.
OnlySentIsExecuted ==
    \A a \in executed : a.cmd \in Command
                        /\ stage[a.cmd] \notin {"unsent", "queued"}

\* "トリガ ON およびコマンドデータは、BUSY-ON が通知されるまで保持してください"
\* (the manual): the command words do not change while the trigger is on and
\* BUSY is off.  It holds for one sequence, ignored commands included.
CommandHeldUntilBusy ==
    [][trigger = 1 /\ busy = 0 => command' = command]_vars

\* Every send_command returns or raises, the wait for an earlier ignored
\* command included.
SendReturns ==
    \A s \in Sender : calling[s] # None ~> calling[s] = None

\* With a device that answers and a deadline that is not reached, every
\* command of a single sequence is executed and answered, and no command is
\* missed because the device never saw the trigger off in between.
AnswersArrive ==
    \A c \in Command : stage[c] = "busy_on" ~>
        /\ stage[c] = "done"
        /\ c \in taken
        /\ c \notin Ignored => outcome[c] \in Verdict

-----------------------------------------------------------------------------
(***************************************************************************)
(* The handshake implements the exchange of CommandExchange.               *)
(***************************************************************************)
Sent == {c \in Command : stage[c] \notin {"unsent", "queued"}}

Exchange == INSTANCE CommandExchange WITH sent <- Sent

\* Every command gets one outcome, which is never revised, only commands that
\* were sent are executed, a clean one is answered with a verdict of its own,
\* and every command sent is returned.
ImplementsExchange == Exchange!Spec

\* Its steps alone, without the promise that every command is returned.
ExchangeSteps == Exchange!Init /\ [][Exchange!Next]_(Exchange!exchange)
=============================================================================
