--------------------------- MODULE PlcLink_proofs ---------------------------
(***************************************************************************)
(* Proofs about the two sides of a PLCLINK connection: the client, for     *)
(* every set of commands, of ignored commands and of sequences sharing it, *)
(* and for either device (PlcLinkHandshake), and the simulated PLC, for    *)
(* every set of connections, what is sent on them and the sizes of its     *)
(* areas (Mc3eServer).                                                     *)
(***************************************************************************)
EXTENDS PlcLinkHandshake, Mc3eServer, WellFoundedInduction, TLAPS

-----------------------------------------------------------------------------
(***************************************************************************)
(* The client.                                                             *)
(***************************************************************************)

\* A sequence inside send_command has that command to itself, and one that
\* waits for an ignored command has written nothing yet.
CallersApart ==
    /\ \A s, t \in Sender : calling[s] = calling[t] /\ calling[s] # None => s = t
    /\ \A s \in Sender : calling[s] # None =>
          \/ stage[calling[s]] = "queued"
          \/ Open(calling[s]) /\ calling[s] \notin Ignored
    /\ \A s \in Sender : awaited[s] # None =>
          calling[s] # None /\ stage[calling[s]] = "queued"

\* What is in the memory, in the device and in the history was sent.
SentOnly ==
    /\ command # None => command \in Sent
    /\ devCmd # None => devCmd \in Sent
    /\ trigger = 1 => command # None
    /\ dev = "rest" <=> devCmd = None
    /\ response # Cleared => response \in executed
    /\ clean \subseteq Sent

\* A command has no outcome before its exchange is over, and only one whose
\* response counts waits for it.
NoEarlyOutcome ==
    /\ \A c \in Ignored : stage[c] # "response"
                            /\ outcome[c] \in {"none", "ignored"}
    /\ \A c \in Command :
          stage[c] \in {"unsent", "queued"} \/ (Open(c) /\ c \notin Ignored)
              => outcome[c] = "none"

\* While a clean command is under way it is the only one, and whatever BUSY,
\* the response and the device have to do with a command, it is that one.
CleanIsAlone ==
    \A c \in clean : Open(c) =>
        /\ \A d \in Command : Open(d) => d = c
        /\ command = c
        /\ devCmd # None => devCmd = c
        /\ response # Cleared => response.cmd = c
        /\ stage[c] = "busy_on" /\ busy = 1 => c \in taken

Inductive ==
    /\ TypeOK
    /\ CallersApart
    /\ SentOnly
    /\ NoEarlyOutcome
    /\ CleanIsAlone
    /\ AnswerIsOwn
    /\ TakenBeforeTriggerOff
    /\ TriggerIsAwaited
    /\ OnlySentIsExecuted

-----------------------------------------------------------------------------

LEMMA InitInductive == Init => Inductive
  <1> SUFFICES ASSUME Init PROVE Inductive
    OBVIOUS
  <1> USE DEF Init
  <1>1. TypeOK
    BY DEF TypeOK
  <1>2. CallersApart
    BY DEF CallersApart
  <1>3. SentOnly /\ NoEarlyOutcome
    BY HandshakeAssumption DEF SentOnly, NoEarlyOutcome, Open
  <1>4. CleanIsAlone /\ AnswerIsOwn /\ TakenBeforeTriggerOff
    BY DEF CleanIsAlone, AnswerIsOwn, TakenBeforeTriggerOff
  <1>5. TriggerIsAwaited /\ OnlySentIsExecuted
    BY DEF TriggerIsAwaited, OnlySentIsExecuted
  <1> QED
    BY <1>1, <1>2, <1>3, <1>4, <1>5 DEF Inductive

\* Writing a command that has not been written: SendCommand and ResumeSend.
LEMMA IssueInductive ==
    ASSUME Inductive,
           NEW s \in Sender, NEW c \in Command, NEW slot \in Ignored \cup {None},
           stage[c] \in {"unsent", "queued"},
           \A t \in Sender : calling[t] = c => t = s,
           calling[s] \in {c, None},
           Issue(s, c, slot),
           awaited' = [awaited EXCEPT ![s] = None]
    PROVE  Inductive'
  <1> USE HandshakeAssumption DEF Issue, Inductive, deviceVars
  <1>1. /\ stage' = [stage EXCEPT ![c] = "busy_on"]
        /\ stage \in [Command -> {"unsent", "queued", "busy_on", "response",
                                  "busy_off", "done"}]
        /\ Open(c)' /\ ~Open(c)
        /\ \A d \in Command : d # c => /\ stage'[d] = stage[d]
                                       /\ Open(d)' <=> Open(d)
    BY DEF TypeOK, Open
  <1>2. TypeOK'
    BY <1>1 DEF TypeOK, WriteCommand, HandOver, JudgeClean
  <1>3. CallersApart'
    BY <1>1 DEF TypeOK, CallersApart, HandOver
  <1>4. /\ c \notin clean
        /\ \A d \in clean' : d # c => d \in clean /\ ~Open(d)
        /\ c \in clean' => devCmd = None
    BY <1>1 DEF TypeOK, SentOnly, Sent, JudgeClean
  <1>5. SentOnly'
    <2>1. Sent' = Sent \cup {c}
      BY <1>1 DEF Sent
    <2> QED
      BY <2>1, <1>4, <1>1 DEF SentOnly, TypeOK, WriteCommand, JudgeClean
  <1>6. NoEarlyOutcome'
    BY <1>1 DEF NoEarlyOutcome, TypeOK, HandOver
  <1>7. CleanIsAlone'
    BY <1>1, <1>4 DEF CleanIsAlone, TypeOK, WriteCommand, JudgeClean
  <1>8. AnswerIsOwn'
    BY <1>1, <1>4 DEF AnswerIsOwn, NoEarlyOutcome, TypeOK, HandOver, Verdict
  <1>9. TakenBeforeTriggerOff'
    BY <1>1, <1>4 DEF TakenBeforeTriggerOff, Open
  <1>10. TriggerIsAwaited'
    BY <1>1 DEF TriggerIsAwaited, TypeOK
  <1>11. OnlySentIsExecuted'
    BY <1>1 DEF OnlySentIsExecuted
  <1> QED
    BY <1>2, <1>3, <1>5, <1>6, <1>7, <1>8, <1>9, <1>10, <1>11

\* The wait of an open exchange ends it without an answer.
LEMMA AbandonInductive ==
    ASSUME Inductive, NEW c \in Command, Abandon(c)
    PROVE  Inductive'
  <1> USE HandshakeAssumption DEF Abandon, Finish, Inductive, deviceVars,
                                  historyVars
  <1>1. /\ stage' = [stage EXCEPT ![c] = "done"]
        /\ stage \in [Command -> {"unsent", "queued", "busy_on", "response",
                                  "busy_off", "done"}]
        /\ ~Open(c)' /\ Open(c)
        /\ \A d \in Command : d # c => /\ stage'[d] = stage[d]
                                       /\ Open(d)' <=> Open(d)
        /\ Sent' = Sent
    BY DEF TypeOK, Open, Sent
  <1>2. TypeOK'
    BY <1>1 DEF TypeOK
  <1>3. CallersApart'
    BY <1>1 DEF TypeOK, CallersApart, Open
  <1>4. SentOnly'
    BY <1>1 DEF SentOnly, TypeOK
  <1>5. NoEarlyOutcome'
    BY <1>1 DEF NoEarlyOutcome, TypeOK, Open
  <1>6. CleanIsAlone'
    BY <1>1 DEF CleanIsAlone, TypeOK
  <1>7. AnswerIsOwn'
    BY <1>1 DEF AnswerIsOwn, TypeOK, Verdict
  <1>8. TakenBeforeTriggerOff' /\ TriggerIsAwaited'
    BY <1>1 DEF TakenBeforeTriggerOff, TriggerIsAwaited, TypeOK
  <1>9. OnlySentIsExecuted'
    BY <1>1 DEF OnlySentIsExecuted
  <1> QED
    BY <1>2, <1>3, <1>4, <1>5, <1>6, <1>7, <1>8, <1>9

\* The wait of an open exchange ends it with whatever the response area holds.
LEMMA ReturnInductive ==
    ASSUME Inductive, NEW c \in Command, Open(c), c \notin Ignored, Return(c)
    PROVE  Inductive'
  <1> USE HandshakeAssumption DEF Return, Finish, Inductive, deviceVars,
                                  historyVars
  <1>1. /\ stage' = [stage EXCEPT ![c] = "done"]
        /\ stage \in [Command -> {"unsent", "queued", "busy_on", "response",
                                  "busy_off", "done"}]
        /\ ~Open(c)'
        /\ \A d \in Command : d # c => /\ stage'[d] = stage[d]
                                       /\ Open(d)' <=> Open(d)
        /\ Sent' = Sent
    BY DEF TypeOK, Open, Sent
  <1>2. TypeOK'
    BY <1>1 DEF TypeOK, Answer
  <1>3. CallersApart'
    BY <1>1 DEF TypeOK, CallersApart, Open
  <1>4. SentOnly'
    BY <1>1 DEF SentOnly, TypeOK
  <1>5. NoEarlyOutcome'
    BY <1>1 DEF NoEarlyOutcome, TypeOK, Open
  <1>6. CleanIsAlone'
    BY <1>1 DEF CleanIsAlone, TypeOK
  <1>7. AnswerIsOwn'
    <2> SUFFICES ASSUME NEW d \in clean, outcome'[d] \in Verdict
                 PROVE  [cmd |-> d, result |-> outcome'[d]] \in executed
      BY DEF AnswerIsOwn
    <2>1. CASE d # c
      BY <2>1 DEF AnswerIsOwn, TypeOK
    <2>2. CASE d = c
      <3>1. response # Cleared /\ outcome'[c] = response.result
        BY <2>2 DEF TypeOK, Verdict
      <3>2. response.cmd = c /\ response \in executed /\ response \in Answer
        BY <2>2, <3>1 DEF CleanIsAlone, SentOnly, TypeOK
      <3>3. response = [cmd |-> response.cmd, result |-> response.result]
        BY <3>2 DEF Answer
      <3> QED
        BY <2>2, <3>1, <3>2, <3>3
    <2> QED
      BY <2>1, <2>2
  <1>8. TakenBeforeTriggerOff' /\ TriggerIsAwaited'
    BY <1>1 DEF TakenBeforeTriggerOff, TriggerIsAwaited, TypeOK
  <1>9. OnlySentIsExecuted'
    BY <1>1 DEF OnlySentIsExecuted
  <1> QED
    BY <1>2, <1>3, <1>4, <1>5, <1>6, <1>7, <1>8, <1>9

\* An exchange moves on to its next wait, or an ignored one is over: the
\* trigger goes off or stays, and the rest of the state is as before.
LEMMA StageInductive ==
    ASSUME Inductive, NEW c \in Command, Open(c),
           NEW next \in {"response", "busy_off", "done"},
           stage' = [stage EXCEPT ![c] = next],
           trigger' = 0 \/ (trigger' = trigger /\ stage[c] # "busy_on"),
           next = "done" => c \in Ignored,
           next = "response" => c \notin Ignored,
           stage[c] = "busy_on" => busy = 1,
           UNCHANGED <<calling, awaited, ignoreTask, outcome, command, response,
                       busy, deviceVars, historyVars>>
    PROVE  Inductive'
  <1> USE HandshakeAssumption DEF Inductive, deviceVars, historyVars
  <1>1. /\ stage \in [Command -> {"unsent", "queued", "busy_on", "response",
                                  "busy_off", "done"}]
        /\ stage'[c] = next
        /\ Open(c)' => Open(c)
        /\ \A d \in Command : d # c => /\ stage'[d] = stage[d]
                                       /\ Open(d)' <=> Open(d)
        /\ Sent' = Sent
    BY DEF TypeOK, Open, Sent
  <1>2. TypeOK'
    BY <1>1 DEF TypeOK
  <1>3. CallersApart'
    BY <1>1 DEF TypeOK, CallersApart, Open
  <1>4. SentOnly'
    BY <1>1 DEF SentOnly, TypeOK
  <1>5. NoEarlyOutcome'
    BY <1>1 DEF NoEarlyOutcome, TypeOK, Open
  <1>6. CleanIsAlone'
    BY <1>1 DEF CleanIsAlone, TypeOK
  <1>7. AnswerIsOwn'
    BY <1>1 DEF AnswerIsOwn, TypeOK
  <1>8. TakenBeforeTriggerOff'
    BY <1>1 DEF TakenBeforeTriggerOff, CleanIsAlone, TypeOK, Open
  <1>9. TriggerIsAwaited'
    BY <1>1 DEF TriggerIsAwaited, TypeOK
  <1>10. OnlySentIsExecuted'
    BY <1>1 DEF OnlySentIsExecuted
  <1> QED
    BY <1>2, <1>3, <1>4, <1>5, <1>6, <1>7, <1>8, <1>9, <1>10

\* A sequence starts to wait for an earlier ignored command.
LEMMA QueueInductive ==
    ASSUME Inductive, NEW s \in Sender, NEW c \in Command,
           calling[s] = None, stage[c] = "unsent",
           ignoreTask # None,
           stage' = [stage EXCEPT ![c] = "queued"],
           calling' = [calling EXCEPT ![s] = c],
           awaited' = [awaited EXCEPT ![s] = ignoreTask],
           ignoreTask' = None,
           UNCHANGED <<outcome, memoryVars, deviceVars, historyVars>>
    PROVE  Inductive'
  <1> USE HandshakeAssumption DEF Inductive, memoryVars, deviceVars, historyVars
  <1>1. /\ stage \in [Command -> {"unsent", "queued", "busy_on", "response",
                                  "busy_off", "done"}]
        /\ ~Open(c)' /\ ~Open(c)
        /\ stage'[c] = "queued"
        /\ \A d \in Command : d # c => stage'[d] = stage[d]
        /\ \A d \in Command : Open(d)' <=> Open(d)
        /\ Sent' = Sent
    BY DEF TypeOK, Open, Sent
  <1>2. TypeOK'
    BY <1>1 DEF TypeOK
  <1>3. CallersApart'
    BY <1>1 DEF TypeOK, CallersApart
  <1>4. SentOnly'
    BY <1>1 DEF SentOnly, TypeOK
  <1>5. NoEarlyOutcome'
    BY <1>1 DEF NoEarlyOutcome, TypeOK
  <1>6. CleanIsAlone'
    BY <1>1 DEF CleanIsAlone, TypeOK, Open
  <1>7. AnswerIsOwn'
    BY <1>1 DEF AnswerIsOwn, TypeOK
  <1>8. TakenBeforeTriggerOff' /\ TriggerIsAwaited'
    BY <1>1 DEF TakenBeforeTriggerOff, TriggerIsAwaited, TypeOK, Open
  <1>9. OnlySentIsExecuted'
    BY <1>1 DEF OnlySentIsExecuted, Sent
  <1> QED
    BY <1>2, <1>3, <1>4, <1>5, <1>6, <1>7, <1>8, <1>9

\* What the device and the connection do leaves the client alone.
LEMMA DeviceInductive ==
    ASSUME Inductive, Vtv \/ Disconnect \/ Connect \/ Restart
    PROVE  Inductive'
  <1> USE HandshakeAssumption DEF Inductive
  <1>1. /\ UNCHANGED <<clientVars, trigger, command, clean>>
        /\ Sent' = Sent
        /\ \A c \in Command : Open(c)' <=> Open(c)
    BY DEF Vtv, VtvPoll, VtvBusyOn, VtvRespond, VtvSample, VtvBusyOff,
           Disconnect, Connect, Restart, clientVars, memoryVars, historyVars,
           Sent, Open
  <1>2. CallersApart' /\ NoEarlyOutcome' /\ TriggerIsAwaited'
    BY <1>1 DEF clientVars, CallersApart, NoEarlyOutcome, TriggerIsAwaited, Open
  <1>3. ASSUME VtvPoll PROVE Inductive'
    <2>1. TypeOK' /\ SentOnly'
      BY <1>1, <1>3 DEF VtvPoll, TypeOK, SentOnly, clientVars, memoryVars,
                        historyVars, Sent
    <2>2. CleanIsAlone'
      BY <1>1, <1>3 DEF VtvPoll, CleanIsAlone, TriggerIsAwaited, TypeOK, Open,
                        clientVars, memoryVars, historyVars
    <2>3. AnswerIsOwn' /\ TakenBeforeTriggerOff' /\ OnlySentIsExecuted'
      BY <1>1, <1>3 DEF VtvPoll, AnswerIsOwn, TakenBeforeTriggerOff,
                        OnlySentIsExecuted, clientVars, historyVars
    <2> QED
      BY <1>2, <2>1, <2>2, <2>3
  <1>4. ASSUME VtvBusyOn PROVE Inductive'
    <2>1. TypeOK' /\ SentOnly'
      BY <1>1, <1>4 DEF VtvBusyOn, TypeOK, SentOnly, clientVars, Sent
    <2>2. CleanIsAlone'
      BY <1>1, <1>4 DEF VtvBusyOn, CleanIsAlone, SentOnly, TypeOK, clientVars
    <2>3. AnswerIsOwn' /\ TakenBeforeTriggerOff' /\ OnlySentIsExecuted'
      BY <1>1, <1>4 DEF VtvBusyOn, AnswerIsOwn, TakenBeforeTriggerOff,
                        OnlySentIsExecuted, clientVars
    <2> QED
      BY <1>2, <2>1, <2>2, <2>3
  <1>5. ASSUME VtvRespond PROVE Inductive'
    <2>1. PICK v \in Verdict :
              /\ response' = [cmd |-> devCmd, result |-> v]
              /\ executed' = executed \cup {[cmd |-> devCmd, result |-> v]}
      BY <1>5 DEF VtvRespond
    <2>2. devCmd \in Command /\ devCmd \in Sent
      BY <1>5 DEF VtvRespond, SentOnly, Sent
    <2>3. TypeOK' /\ SentOnly'
      BY <1>1, <1>5, <2>1, <2>2
      DEF VtvRespond, TypeOK, SentOnly, clientVars, Answer, Sent
    <2>4. CleanIsAlone'
      BY <1>1, <1>5, <2>1, <2>2 DEF VtvRespond, CleanIsAlone, TypeOK,
                                        clientVars
    <2>5. AnswerIsOwn' /\ TakenBeforeTriggerOff' /\ OnlySentIsExecuted'
      BY <1>1, <1>5, <2>1, <2>2
      DEF VtvRespond, AnswerIsOwn, TakenBeforeTriggerOff, OnlySentIsExecuted,
          clientVars, Sent
    <2> QED
      BY <1>2, <2>3, <2>4, <2>5
  <1>6. ASSUME VtvSample \/ VtvBusyOff \/ Disconnect \/ Connect \/ Restart
        PROVE  Inductive'
    <2>1. TypeOK'
      BY <1>1, <1>6 DEF VtvSample, VtvBusyOff, Disconnect, Connect, Restart,
                        TypeOK, clientVars, memoryVars, historyVars
    <2>2. SentOnly'
      BY <1>1, <1>6 DEF VtvSample, VtvBusyOff, Disconnect, Connect, Restart,
                        SentOnly, clientVars, memoryVars, historyVars, Sent
    <2>3. CleanIsAlone'
      BY <1>1, <1>6 DEF VtvSample, VtvBusyOff, Disconnect, Connect, Restart,
                        CleanIsAlone, TypeOK, clientVars, memoryVars,
                        historyVars
    <2>4. AnswerIsOwn' /\ TakenBeforeTriggerOff' /\ OnlySentIsExecuted'
      BY <1>1, <1>6 DEF VtvSample, VtvBusyOff, Disconnect, Connect, Restart,
                        AnswerIsOwn, TakenBeforeTriggerOff, OnlySentIsExecuted,
                        clientVars, memoryVars, historyVars
    <2> QED
      BY <1>2, <2>1, <2>2, <2>3, <2>4
  <1> QED
    BY <1>3, <1>4, <1>5, <1>6 DEF Vtv

LEMMA SendInductive ==
    ASSUME Inductive, NEW s \in Sender, NEW c \in Command, SendCommand(s, c)
    PROVE  Inductive'
  <1>1. /\ awaited[s] = None
        /\ \A t \in Sender : calling[t] # c
    BY HandshakeAssumption
    DEF SendCommand, Inductive, CallersApart, TypeOK, Open
  <1>2. CASE Issue(s, c, None) /\ UNCHANGED awaited
    <2>1. awaited' = [awaited EXCEPT ![s] = None]
      BY <1>1, <1>2 DEF Inductive, TypeOK
    <2> QED
      BY <1>1, <1>2, <2>1, IssueInductive DEF SendCommand
  <1>3. CASE ~Issue(s, c, None)
    BY <1>3, QueueInductive DEF SendCommand, Pending
  <1> QED
    BY <1>2, <1>3, QueueInductive DEF SendCommand, Pending

LEMMA ResumeInductive ==
    ASSUME Inductive, NEW s \in Sender, ResumeSend(s)
    PROVE  Inductive'
  <1>1. /\ calling[s] \in Command
        /\ stage[calling[s]] = "queued"
        /\ \A t \in Sender : calling[t] = calling[s] => t = s
        /\ ignoreTask \in Ignored \cup {None}
    BY DEF ResumeSend, Inductive, CallersApart, TypeOK
  <1> QED
    BY <1>1, IssueInductive DEF ResumeSend

\* A poll of an exchange, one step per wait and way out of it.
LEMMA ProgressInductive ==
    ASSUME Inductive, NEW c \in Command, Progress(c)
    PROVE  Inductive'
  <1> USE DEF Inductive
  <1>1. CASE PollBusyOn(c)
    <2>1. Open(c)
      BY <1>1 DEF PollBusyOn, Open
    <2>2. PICK next \in {"response", "busy_off"} :
             /\ stage' = [stage EXCEPT ![c] = next]
             /\ next = "response" => c \notin Ignored
      BY <1>1 DEF PollBusyOn
    <2> QED
      BY <1>1, <2>1, <2>2, StageInductive DEF PollBusyOn
  <1>2. CASE PollResponse(c)
    <2>1. Open(c) /\ c \notin Ignored
      BY <1>2 DEF PollResponse, Open, NoEarlyOutcome
    <2>2. CASE Return(c)
      BY <2>1, <2>2, ReturnInductive
    <2>3. CASE ~Return(c)
      BY <1>2, <2>1, <2>3, StageInductive DEF PollResponse, memoryVars
    <2> QED
      BY <2>2, <2>3
  <1>3. CASE PollBusyOff(c)
    <2>1. Open(c)
      BY <1>3 DEF PollBusyOff, Open
    <2>2. CASE c \notin Ignored
      BY <1>3, <2>1, <2>2, ReturnInductive DEF PollBusyOff
    <2>3. CASE c \in Ignored
      <3>1. \A s \in Sender : calling[s] # c
        BY <2>1, <2>3, HandshakeAssumption DEF CallersApart, Open
      <3>2. calling' = calling
        BY <1>3, <2>3, <3>1 DEF PollBusyOff, Finish, TypeOK
      <3> QED
        BY <1>3, <2>1, <2>3, <3>2, StageInductive
        DEF PollBusyOff, Finish, memoryVars
    <2> QED
      BY <2>2, <2>3
  <1>4. CASE TimeOut(c) \/ LoseDevice(c)
    BY <1>4, AbandonInductive DEF TimeOut, LoseDevice
  <1> QED
    BY <1>1, <1>2, <1>3, <1>4 DEF Progress

LEMMA StepInductive == Inductive /\ [Next]_vars => Inductive'
  <1> SUFFICES ASSUME Inductive, [Next]_vars PROVE Inductive'
    OBVIOUS
  <1>1. ASSUME NEW s \in Sender, NEW c \in Command, SendCommand(s, c)
        PROVE  Inductive'
    BY <1>1, SendInductive
  <1>2. ASSUME NEW s \in Sender, ResumeSend(s) PROVE Inductive'
    BY <1>2, ResumeInductive
  <1>3. ASSUME NEW c \in Command, Progress(c) PROVE Inductive'
    BY <1>3, ProgressInductive
  <1>4. CASE Vtv \/ Disconnect \/ Connect \/ Restart
    BY <1>4, DeviceInductive
  <1>5. CASE UNCHANGED vars
    BY <1>5 DEF vars, clientVars, memoryVars, deviceVars, historyVars,
                Inductive, TypeOK, CallersApart, SentOnly, NoEarlyOutcome,
                CleanIsAlone, AnswerIsOwn, TakenBeforeTriggerOff,
                TriggerIsAwaited, OnlySentIsExecuted, Open, Sent
  <1> QED
    BY <1>1, <1>2, <1>3, <1>4, <1>5 DEF Next

\* The inductive invariant holds in every reachable state.
THEOREM SafetyInvariant == Spec => []Inductive
  BY InitInductive, StepInductive, PTL DEF Spec

\* Every variable keeps its type.
THEOREM TypeCorrect == Spec => []TypeOK
  BY SafetyInvariant, PTL DEF Inductive

\* A clean command is answered with a verdict of its own or with an error,
\* however many sequences share the client and whatever times out.
THEOREM AnswersBelong == Spec => []AnswerIsOwn
  BY SafetyInvariant, PTL DEF Inductive

\* The trigger of a clean command is dropped by success only once the device
\* has taken it.
THEOREM TriggerHeld == Spec => []TakenBeforeTriggerOff
  BY SafetyInvariant, PTL DEF Inductive

\* No way out of send_command or of the background task leaves the trigger on.
THEOREM TriggerReleased == Spec => []TriggerIsAwaited
  BY SafetyInvariant, PTL DEF Inductive

\* The device executes sent commands only.
THEOREM ExecutedWereSent == Spec => []OnlySentIsExecuted
  BY SafetyInvariant, PTL DEF Inductive

-----------------------------------------------------------------------------
(***************************************************************************)
(* The handshake takes the steps CommandExchange allows, and no others.    *)
(***************************************************************************)

LEMMA IssueIsSend ==
    ASSUME Inductive, NEW s \in Sender, NEW c \in Command, NEW slot,
           stage[c] \in {"unsent", "queued"}, Issue(s, c, slot)
    PROVE  Exchange!Send(c)
  <1> USE HandshakeAssumption DEF Inductive, Issue
  <1>1. c \notin Sent /\ Sent' = Sent \cup {c}
    BY DEF Sent, TypeOK
  <1>2. \/ clean' = clean \cup {c}
        \/ /\ clean' \in SUBSET clean
           /\ \A d \in clean \ clean' : outcome[d] \in {"none", "ignored"}
    BY DEF JudgeClean, NoEarlyOutcome, TypeOK
  <1> QED
    BY <1>1, <1>2 DEF Exchange!Send, HandOver

LEMMA ProgressIsReturn ==
    ASSUME Inductive, NEW c \in Command, Progress(c)
    PROVE  Exchange!Next \/ UNCHANGED Exchange!exchange
  <1> USE HandshakeAssumption DEF Inductive
  <1>1. Inductive'
    BY ProgressInductive
  <1>2. Open(c) /\ c \in Sent
    BY DEF Progress, PollBusyOn, PollResponse, PollBusyOff, TimeOut, LoseDevice,
           Abandon, Open, Sent
  <1>3. UNCHANGED <<Sent, clean, executed>>
    BY <1>2 DEF Progress, PollBusyOn, PollResponse, PollBusyOff, TimeOut,
                LoseDevice, Abandon, Return, Finish, Open, Sent, TypeOK,
                historyVars
  <1>4. CASE outcome' = outcome
    BY <1>3, <1>4 DEF Exchange!exchange
  <1>5. CASE outcome' # outcome
    <2>1. c \notin Ignored /\ (Return(c) \/ Abandon(c))
      BY <1>5 DEF Progress, PollBusyOn, PollResponse, PollBusyOff, TimeOut,
                  LoseDevice, Abandon, NoEarlyOutcome
    <2>2. outcome[c] = "none"
      BY <1>2, <2>1 DEF NoEarlyOutcome
    <2>3. PICK r \in {"AK", "NK", "error"} : outcome' = [outcome EXCEPT ![c] = r]
      BY <2>1 DEF Return, Abandon, TypeOK, Answer, Verdict
    <2>4. r = "error" \/ (c \in clean => [cmd |-> c, result |-> r] \in executed)
      BY <1>1, <1>3, <2>3 DEF AnswerIsOwn, TypeOK, Verdict
    <2>5. Exchange!Return(c, r)
      BY <1>2, <1>3, <2>2, <2>3, <2>4 DEF Exchange!Return
    <2> QED
      BY <2>5 DEF Exchange!Next
  <1> QED
    BY <1>4, <1>5

LEMMA DeviceIsExecute ==
    ASSUME Inductive, Vtv \/ Disconnect \/ Connect \/ Restart
    PROVE  Exchange!Next \/ UNCHANGED Exchange!exchange
  <1> USE DEF Inductive
  <1>1. UNCHANGED <<Sent, clean, outcome>>
    BY DEF Vtv, VtvPoll, VtvBusyOn, VtvRespond, VtvSample, VtvBusyOff,
           Disconnect, Connect, Restart, clientVars, historyVars, Sent
  <1>2. CASE VtvRespond
    <2>1. PICK v \in Verdict :
              executed' = executed \cup {[cmd |-> devCmd, result |-> v]}
      BY <1>2 DEF VtvRespond
    <2>2. devCmd \in Sent /\ devCmd \in Command
      BY <1>2 DEF VtvRespond, SentOnly, Sent
    <2>3. Exchange!Execute(devCmd, v)
      BY <1>1, <2>1, <2>2 DEF Exchange!Execute
    <2> QED
      BY <2>1, <2>2, <2>3 DEF Exchange!Next, Verdict
  <1>3. CASE ~VtvRespond
    BY <1>1, <1>3 DEF Vtv, VtvPoll, VtvBusyOn, VtvSample, VtvBusyOff,
                      Disconnect, Connect, Restart, historyVars,
                      Exchange!exchange
  <1> QED
    BY <1>2, <1>3

\* Every step of the handshake is a step of the abstract exchange or leaves it
\* as it is: one outcome per command, never revised, and the right one.
THEOREM StepsImplementExchange == Spec => ExchangeSteps
  <1>1. Init => Exchange!Init
    BY HandshakeAssumption DEF Init, Exchange!Init, Sent
  <1>2. Inductive /\ [Next]_vars => [Exchange!Next]_(Exchange!exchange)
    <2> SUFFICES ASSUME Inductive, [Next]_vars
                 PROVE  Exchange!Next \/ UNCHANGED Exchange!exchange
      OBVIOUS
    <2>1. ASSUME NEW s \in Sender, NEW c \in Command, SendCommand(s, c)
          PROVE  Exchange!Next \/ UNCHANGED Exchange!exchange
      <3>1. CASE Issue(s, c, None)
        BY <2>1, <3>1, IssueIsSend DEF SendCommand, Exchange!Next
      <3>2. CASE ~Issue(s, c, None)
        <4>1. Sent' = Sent
          BY <2>1, <3>2 DEF SendCommand, Sent, Inductive, TypeOK
        <4> QED
          BY <2>1, <3>2, <4>1 DEF SendCommand, historyVars, Exchange!exchange
      <3> QED
        BY <3>1, <3>2
    <2>2. ASSUME NEW s \in Sender, ResumeSend(s)
          PROVE  Exchange!Next \/ UNCHANGED Exchange!exchange
      <3>1. calling[s] \in Command /\ stage[calling[s]] = "queued"
        BY <2>2 DEF ResumeSend, Inductive, CallersApart, TypeOK
      <3> QED
        BY <2>2, <3>1, IssueIsSend DEF ResumeSend, Exchange!Next
    <2>3. ASSUME NEW c \in Command, Progress(c)
          PROVE  Exchange!Next \/ UNCHANGED Exchange!exchange
      BY <2>3, ProgressIsReturn
    <2>4. CASE Vtv \/ Disconnect \/ Connect \/ Restart
      BY <2>4, DeviceIsExecute
    <2>5. CASE UNCHANGED vars
      BY <2>5 DEF vars, clientVars, historyVars, Exchange!exchange, Sent
    <2> QED
      BY <2>1, <2>2, <2>3, <2>4, <2>5 DEF Next
  <1> QED
    BY <1>1, <1>2, SafetyInvariant, PTL DEF Spec, ExchangeSteps

-----------------------------------------------------------------------------
(***************************************************************************)
(* One sequence alone never writes a command over another.                 *)
(***************************************************************************)

OneSequenceOnly == \A s, t \in Sender : s = t

\* Whoever is about to write a command waits for every open exchange: those
\* it is inside, the one in the slot and the one taken from it.
OpenIsAwaited ==
    /\ \A s \in Sender : awaited[s] # None => ignoreTask = None
    /\ \A c \in Command : Open(c) =>
          IF c \in Ignored
          THEN ignoreTask = c \/ \E s \in Sender : awaited[s] = c
          ELSE \E s \in Sender : calling[s] = c

LEMMA NoneOpenAtSend ==
    ASSUME OneSequenceOnly, Inductive, OpenIsAwaited,
           NEW s \in Sender,
           \/ calling[s] = None /\ ~Pending(ignoreTask)
           \/ awaited[s] # None /\ ~Pending(awaited[s])
    PROVE  \A d \in Command : ~Open(d)
  <1> USE HandshakeAssumption DEF Inductive, OneSequenceOnly
  <1> SUFFICES ASSUME NEW d \in Command, Open(d) PROVE FALSE
    OBVIOUS
  <1>1. d # None /\ stage[d] # "done" /\ stage[d] # "queued"
    BY DEF Open
  <1>2. CASE d \in Ignored
    BY <1>1, <1>2 DEF OpenIsAwaited, CallersApart, Pending
  <1>3. CASE d \notin Ignored
    BY <1>1, <1>3 DEF OpenIsAwaited, CallersApart, Pending
  <1> QED
    BY <1>2, <1>3

LEMMA OpenIsAwaitedStep ==
    ASSUME OneSequenceOnly, Inductive, OpenIsAwaited, [Next]_vars
    PROVE  OpenIsAwaited'
  <1> USE HandshakeAssumption DEF Inductive, OneSequenceOnly
  <1>1. ASSUME NEW s \in Sender, NEW c \in Command, SendCommand(s, c)
        PROVE  OpenIsAwaited'
    <2>1. awaited[s] = None
      BY <1>1 DEF SendCommand, CallersApart
    <2>2. CASE Issue(s, c, None) /\ UNCHANGED awaited /\ ~Pending(ignoreTask)
      <3>1. \A d \in Command : Open(d)' => d = c
        BY <1>1, <2>2, NoneOpenAtSend DEF SendCommand, Issue, Open, TypeOK
      <3> QED
        BY <2>1, <2>2, <3>1 DEF Issue, HandOver, OpenIsAwaited, TypeOK
    <2>3. CASE Pending(ignoreTask)
      <3>1. \A d \in Command : Open(d)' => Open(d) /\ d # c
        BY <1>1, <2>3 DEF SendCommand, Open, TypeOK
      <3>2. /\ ignoreTask' = None
            /\ awaited' = [awaited EXCEPT ![s] = ignoreTask]
            /\ calling' = [calling EXCEPT ![s] = c]
            /\ calling[s] = None
        BY <1>1, <2>3 DEF SendCommand
      <3> QED
        BY <2>1, <3>1, <3>2 DEF OpenIsAwaited, TypeOK
    <2> QED
      BY <1>1, <2>2, <2>3 DEF SendCommand
  <1>2. ASSUME NEW s \in Sender, ResumeSend(s) PROVE OpenIsAwaited'
    <2>1. /\ calling[s] \in Command
          /\ ignoreTask = None
          /\ awaited' = [awaited EXCEPT ![s] = None]
          /\ Issue(s, calling[s], None)
      BY <1>2 DEF ResumeSend, CallersApart, TypeOK, OpenIsAwaited
    <2>2. \A d \in Command : Open(d)' => d = calling[s]
      BY <1>2, <2>1, NoneOpenAtSend DEF ResumeSend, Issue, Open, TypeOK
    <2> QED
      BY <2>1, <2>2 DEF Issue, HandOver, OpenIsAwaited, TypeOK
  <1>3. ASSUME NEW c \in Command, Progress(c) PROVE OpenIsAwaited'
    <2>1. /\ UNCHANGED <<awaited, ignoreTask>>
          /\ \A d \in Command : Open(d)' => Open(d)
          /\ calling' = calling \/ Finish(c)
      BY <1>3 DEF Progress, PollBusyOn, PollResponse, PollBusyOff, TimeOut,
                  LoseDevice, Abandon, Return, Finish, Open, TypeOK
    <2>2. \A d \in Command, s \in Sender :
             Open(d)' /\ calling[s] = d => calling'[s] = d
      BY <2>1 DEF Finish, Open, TypeOK
    <2> QED
      BY <2>1, <2>2 DEF OpenIsAwaited
  <1>4. CASE Vtv \/ Disconnect \/ Connect \/ Restart
    BY <1>4 DEF Vtv, VtvPoll, VtvBusyOn, VtvRespond, VtvSample, VtvBusyOff,
                Disconnect, Connect, Restart, clientVars, OpenIsAwaited, Open
  <1>5. CASE UNCHANGED vars
    BY <1>5 DEF vars, clientVars, OpenIsAwaited, Open
  <1> QED
    BY <1>1, <1>2, <1>3, <1>4, <1>5 DEF Next

LEMMA HeldStep ==
    ASSUME OneSequenceOnly, Inductive, OpenIsAwaited, [Next]_vars
    PROVE  trigger = 1 /\ busy = 0 => command' = command
  <1> SUFFICES ASSUME trigger = 1, command' # command PROVE FALSE
    OBVIOUS
  <1>1. PICK d \in Command : Open(d)
    BY DEF Inductive, TriggerIsAwaited, Open
  <1>2. PICK s \in Sender :
           \/ calling[s] = None /\ ~Pending(ignoreTask)
           \/ awaited[s] # None /\ ~Pending(awaited[s])
    BY DEF Next, SendCommand, ResumeSend, Progress, PollBusyOn, PollResponse,
           PollBusyOff, TimeOut, LoseDevice, Abandon, Return, Vtv, VtvPoll,
           VtvBusyOn, VtvRespond, VtvSample, VtvBusyOff, Disconnect, Connect,
           Restart, vars, memoryVars
  <1> QED
    BY <1>1, <1>2, NoneOpenAtSend

\* With one sequence the command words are held while the trigger is on and
\* BUSY is off: an ignored command still under way is waited for.
THEOREM CommandHeld ==
    ASSUME OneSequenceOnly PROVE Spec => CommandHeldUntilBusy
  <1>1. Init => OpenIsAwaited
    BY DEF Init, OpenIsAwaited, Open
  <1>2. Inductive /\ OpenIsAwaited /\ [Next]_vars => OpenIsAwaited'
    BY OpenIsAwaitedStep
  <1>3. Inductive /\ OpenIsAwaited /\ [Next]_vars
          => [trigger = 1 /\ busy = 0 => command' = command]_vars
    BY HeldStep
  <1> QED
    BY <1>1, <1>2, <1>3, SafetyInvariant, PTL DEF Spec, CommandHeldUntilBusy

-----------------------------------------------------------------------------
(***************************************************************************)
(* The simulated PLC: sequences and the definitions by recursion over them *)
(* that the server is made of.  Induction over the numbers goes through    *)
(* the set of those with the property, as the library's rules with an      *)
(* operator for a parameter cannot be used.                                *)
(***************************************************************************)
LEMMA Least ==
  ASSUME NEW T, T \subseteq Nat, T # {}
  PROVE  \E n \in T: \A m \in T: n <= m
<1> DEFINE R == {ss \in Nat \X Nat: ss[1] < ss[2]}
<1>1. IsWellFoundedOn(R, Nat)
  BY NatLessThanWellFounded DEF OpToRel
<1> HIDE DEF R
<1>2. PICK n \in T: \A m \in T: <<m, n>> \notin R
  BY <1>1, WFMin
<1>3. ASSUME NEW m \in T PROVE n <= m
  <2>1. <<m, n>> \in Nat \X Nat /\ <<m, n>> \notin R
    BY <1>2
  <2>2. ~(m < n)
    BY <2>1 DEF R
  <2> QED
    BY <2>2
<1> QED
  BY <1>3

LEMMA Induction ==
  ASSUME NEW T, 0 \in T, \A n \in Nat: n \in T => n + 1 \in T
  PROVE  Nat \subseteq T
<1> SUFFICES ASSUME Nat \ T # {} PROVE FALSE
  OBVIOUS
<1>1. PICK n \in Nat \ T: \A m \in Nat \ T: n <= m
  BY Least
<1>2. n - 1 \in Nat /\ n - 1 \in T
  BY <1>1
<1> QED
  BY <1>1, <1>2

\* FlattenSeq, which every module that uses it has of its own.
Joined(p) ==
  IF Len(p) = 0 THEN p ELSE
    LET flatten[i \in 1..Len(p)] == IF i = 1 THEN p[i] ELSE flatten[i - 1] \o p[i]
    IN  flatten[Len(p)]

\* The recursion of FlattenSeq up to n.
JoinsUpTo(f, p, n) ==
  f = [i \in 1..n |-> IF i = 1 THEN p[i] ELSE f[i - 1] \o p[i]]

\* The recursion of FlattenSeq has a solution.
LEMMA JoinsExist ==
  ASSUME NEW E, NEW p \in Seq(Seq(E)), NEW n \in 1..Len(p)
  PROVE  \E f \in [1..n -> Seq(E)]: JoinsUpTo(f, p, n)
<1>1. Len(p) \in Nat /\ \A i \in 1..Len(p): p[i] \in Seq(E)
  OBVIOUS
<1> DEFINE T == {m \in Nat: m + 1 <= Len(p) =>
                    \E f \in [1..(m + 1) -> Seq(E)]: JoinsUpTo(f, p, m + 1)}
<1>2. 0 \in T
  <2> SUFFICES ASSUME 1 <= Len(p)
               PROVE  \E f \in [1..1 -> Seq(E)]: JoinsUpTo(f, p, 1)
    OBVIOUS
  <2> DEFINE f == [i \in 1..1 |-> p[i]]
  <2>1. f \in [1..1 -> Seq(E)]
    BY <1>1
  <2>2. \A i \in 1..1: i = 1
    OBVIOUS
  <2>3. JoinsUpTo(f, p, 1)
    BY <2>2 DEF JoinsUpTo
  <2> QED
    BY <2>1, <2>3
<1>3. ASSUME NEW m \in Nat, m \in T PROVE m + 1 \in T
  <2> SUFFICES ASSUME m + 2 <= Len(p)
               PROVE  \E f \in [1..(m + 2) -> Seq(E)]: JoinsUpTo(f, p, m + 2)
    OBVIOUS
  <2>1. PICK f \in [1..(m + 1) -> Seq(E)]: JoinsUpTo(f, p, m + 1)
    BY <1>1, <1>3
  <2> DEFINE g == [i \in 1..(m + 2) |-> IF i <= m + 1 THEN f[i]
                                                     ELSE f[m + 1] \o p[m + 2]]
  <2>2. f[m + 1] \in Seq(E) /\ p[m + 2] \in Seq(E)
    BY <1>1, <2>1
  <2>3. f[m + 1] \o p[m + 2] \in Seq(E)
    BY <2>2
  <2>4. g \in [1..(m + 2) -> Seq(E)]
    BY <2>1, <2>3
  <2>5. ASSUME NEW i \in 1..(m + 2)
        PROVE  g[i] = IF i = 1 THEN p[i] ELSE g[i - 1] \o p[i]
    <3>1. CASE i <= m + 1
      <4>1. i \in 1..(m + 1)
        BY <3>1
      <4>2. f[i] = IF i = 1 THEN p[i] ELSE f[i - 1] \o p[i]
        BY <2>1, <4>1 DEF JoinsUpTo
      <4>3. i = 1 \/ (i - 1 \in 1..(m + 2) /\ i - 1 <= m + 1)
        BY <3>1
      <4>4. g[i] = f[i]
        BY <4>1
      <4>5. i # 1 => g[i - 1] = f[i - 1]
        BY <4>3
      <4> HIDE DEF g
      <4> QED
        BY <4>2, <4>4, <4>5
    <3>2. CASE i = m + 2
      <4>1. ~(i <= m + 1)
        BY <3>2
      <4>2. g[i] = f[m + 1] \o p[m + 2]
        BY <4>1
      <4>3. i - 1 = m + 1 /\ i # 1 /\ m + 1 \in 1..(m + 2)
        BY <3>2
      <4>4. g[m + 1] = f[m + 1]
        BY <4>3
      <4> HIDE DEF g
      <4> QED
        BY <3>2, <4>2, <4>3, <4>4
    <3> QED
      BY <3>1, <3>2
  <2>6. JoinsUpTo(g, p, m + 2)
    <3>1. g = [i \in 1..(m + 2) |-> g[i]]
      BY <2>4
    <3> HIDE DEF g
    <3> QED
      BY <2>5, <3>1 DEF JoinsUpTo
  <2> QED
    BY <2>4, <2>6
<1> HIDE DEF T
<1>4. n - 1 \in Nat /\ (n - 1) + 1 = n /\ n <= Len(p)
  BY <1>1
<1>5. n - 1 \in T
  <2>1. Nat \subseteq T
    BY <1>2, <1>3, Induction
  <2> QED
    BY <1>4, <2>1
<1> QED
  BY <1>4, <1>5 DEF T

\* Two solutions agree where both are defined.
LEMMA JoinsAgree ==
  ASSUME NEW r, NEW q, NEW m \in Nat, NEW n \in Nat, n <= m, NEW f, NEW g,
         JoinsUpTo(f, r, m), JoinsUpTo(g, q, n), \A i \in 1..n: q[i] = r[i]
  PROVE  \A i \in 1..n: f[i] = g[i]
<1> DEFINE T == {i \in Nat: i + 1 <= n => f[i + 1] = g[i + 1]}
<1>1. ASSUME NEW i \in 1..n
      PROVE  /\ f[i] = IF i = 1 THEN r[i] ELSE f[i - 1] \o r[i]
             /\ g[i] = IF i = 1 THEN r[i] ELSE g[i - 1] \o r[i]
  <2>1. i \in 1..m
    OBVIOUS
  <2> QED
    BY <2>1 DEF JoinsUpTo
<1>2. 0 \in T
  BY <1>1
<1>3. ASSUME NEW i \in Nat, i \in T PROVE i + 1 \in T
  <2> SUFFICES ASSUME i + 2 <= n PROVE f[i + 2] = g[i + 2]
    OBVIOUS
  <2>1. f[i + 1] = g[i + 1]
    BY <1>3
  <2>2. i + 2 \in 1..n /\ i + 2 # 1 /\ (i + 2) - 1 = i + 1
    OBVIOUS
  <2> QED
    BY <1>1, <2>1, <2>2
<1> HIDE DEF T
<1>4. ASSUME NEW i \in 1..n PROVE f[i] = g[i]
  <2>1. i - 1 \in T
    BY <1>2, <1>3, Induction
  <2>2. (i - 1) + 1 = i
    OBVIOUS
  <2> QED
    BY <2>1, <2>2 DEF T
<1> QED
  BY <1>4

\* The sequence that FlattenSeq returns.
LEMMA JoinedIs ==
  ASSUME NEW E, NEW p \in Seq(Seq(E)), Len(p) > 0
  PROVE  \E f \in [1..Len(p) -> Seq(E)]:
            JoinsUpTo(f, p, Len(p)) /\ Joined(p) = f[Len(p)]
<1> DEFINE f == CHOOSE h: JoinsUpTo(h, p, Len(p))
<1>1. Len(p) \in Nat /\ Len(p) \in 1..Len(p)
  OBVIOUS
<1>2. PICK g \in [1..Len(p) -> Seq(E)]: JoinsUpTo(g, p, Len(p))
  BY <1>1, JoinsExist
<1>3. JoinsUpTo(f, p, Len(p))
  BY <1>2
<1>4. Joined(p) = f[Len(p)]
  BY DEF Joined, JoinsUpTo
<1> HIDE DEF f
<1>5. \A i \in 1..Len(p): p[i] = p[i]
  OBVIOUS
<1>6. \A i \in 1..Len(p): f[i] = g[i]
  BY <1>1, <1>2, <1>3, <1>5, JoinsAgree
<1>7. Joined(p) = g[Len(p)]
  BY <1>1, <1>4, <1>6
<1> QED
  BY <1>2, <1>7

\* The first n members.
First(p, n) == [k \in 1..n |-> p[k]]

LEMMA JoinedNone ==
  ASSUME NEW p PROVE Joined(First(p, 0)) = <<>>
<1>1. First(p, 0) = <<>>
  BY DEF First
<1> QED
  BY <1>1 DEF Joined

\* Sequences to join.
Pieces(E) == Seq(Seq(E))

LEMMA JoinedOneMore ==
  ASSUME NEW E, NEW p \in Pieces(E), NEW n \in 1..Len(p)
  PROVE  Joined(First(p, n)) = Joined(First(p, n - 1)) \o p[n]
<1>1. Len(p) \in Nat /\ \A i \in 1..Len(p): p[i] \in Seq(E)
  BY DEF Pieces
<1>2. /\ First(p, n) \in Seq(Seq(E)) /\ Len(First(p, n)) = n
      /\ \A i \in 1..n: First(p, n)[i] = p[i]
  BY <1>1 DEF First
<1>3. PICK f: JoinsUpTo(f, First(p, n), n) /\ Joined(First(p, n)) = f[n]
  <2> DEFINE q == First(p, n)
  <2>1. q \in Seq(Seq(E)) /\ Len(q) = n /\ Len(q) > 0
    BY <1>2
  <2> HIDE DEF q
  <2> QED
    BY <2>1, JoinedIs DEF q
<1>4. f[n] = IF n = 1 THEN p[n] ELSE f[n - 1] \o p[n]
  <2>1. n \in 1..n
    BY <1>1
  <2>2. f[n] = IF n = 1 THEN First(p, n)[n] ELSE f[n - 1] \o First(p, n)[n]
    BY <1>3, <2>1 DEF JoinsUpTo
  <2> QED
    BY <1>2, <2>1, <2>2
<1>5. CASE n = 1
  <2>1. Joined(First(p, n - 1)) = <<>>
    BY <1>5, JoinedNone
  <2> QED
    BY <1>1, <1>3, <1>4, <1>5, <2>1
<1>6. CASE n # 1
  <2>1. PICK q, r, m: q = First(p, n - 1) /\ r = First(p, n) /\ m = n - 1
    OBVIOUS
  <2>2. /\ q \in Seq(Seq(E)) /\ Len(q) = m /\ Len(q) > 0
        /\ \A i \in 1..m: q[i] = r[i]
    BY <1>1, <1>2, <1>6, <2>1 DEF First
  <2>3. n \in Nat /\ m \in Nat /\ m <= n /\ m \in 1..m
    BY <1>1, <1>6, <2>1
  <2>4. JoinsUpTo(f, r, n)
    BY <1>3, <2>1
  <2>5. PICK g: JoinsUpTo(g, q, m) /\ Joined(q) = g[m]
    BY <2>2, JoinedIs
  <2>6. \A i \in 1..m: f[i] = g[i]
    <3>1. \A i \in 1..m: q[i] = r[i]
      BY <2>2
    <3>2. n \in Nat /\ m \in Nat /\ m <= n
      BY <2>3
    <3>3. JoinsUpTo(f, r, n) /\ JoinsUpTo(g, q, m)
      BY <2>4, <2>5
    <3> QED
      BY <3>1, <3>2, <3>3, JoinsAgree
  <2>7. Joined(q) = f[n - 1]
    BY <2>1, <2>3, <2>5, <2>6
  <2> QED
    BY <2>1, <1>3, <1>4, <1>6, <2>7
<1> QED
  BY <1>5, <1>6

LEMMA JoinedSeq ==
  ASSUME NEW E, NEW p \in Pieces(E), NEW n \in 0..Len(p)
  PROVE  Joined(First(p, n)) \in Seq(E)
<1>1. CASE n = 0
  <2>1. Joined(First(p, n)) = <<>>
    BY <1>1, JoinedNone
  <2>2. <<>> \in Seq(E)
    OBVIOUS
  <2> QED
    BY <2>1, <2>2
<1>2. CASE n > 0
  <2> DEFINE q == First(p, n)
  <2>1. q \in Seq(Seq(E)) /\ Len(q) > 0
    BY <1>2 DEF First, Pieces
  <2> HIDE DEF q
  <2>2. PICK f \in [1..Len(q) -> Seq(E)]: Joined(q) = f[Len(q)]
    BY <2>1, JoinedIs
  <2>3. Len(q) \in 1..Len(q)
    BY <2>1
  <2> QED
    BY <2>2, <2>3 DEF q
<1> QED
  BY <1>1, <1>2

\* What is joined first stays where it is.
LEMMA JoinedPrefix ==
  ASSUME NEW E, NEW p \in Pieces(E), NEW k \in 0..Len(p), NEW n \in k..Len(p)
  PROVE  LET short == Joined(First(p, k))
             long  == Joined(First(p, n))
         IN  Len(short) <= Len(long) /\ \A i \in 1..Len(short): long[i] = short[i]
<1> DEFINE J(m) == Joined(First(p, m))
           Keeps(m) == Len(J(k)) <= Len(J(m)) /\ \A i \in 1..Len(J(k)): J(m)[i] = J(k)[i]
           T == {d \in Nat: k + d <= Len(p) => Keeps(k + d)}
<1>1. Len(p) \in Nat /\ k \in Nat /\ n \in Nat /\ \A i \in 1..Len(p): p[i] \in Seq(E)
  BY DEF Pieces
<1>2. \A m \in 0..Len(p): J(m) \in Seq(E)
  BY JoinedSeq
<1>3. \A m \in 1..Len(p): J(m) = J(m - 1) \o p[m]
  BY JoinedOneMore
<1> HIDE DEF J
<1>4. 0 \in T
  <2>1. k + 0 = k /\ J(k) \in Seq(E) /\ Len(J(k)) \in Nat
    BY <1>1, <1>2
  <2> QED
    BY <2>1
<1>5. ASSUME NEW d \in Nat, d \in T PROVE d + 1 \in T
  <2> SUFFICES ASSUME k + (d + 1) <= Len(p) PROVE Keeps(k + (d + 1))
    OBVIOUS
  <2> DEFINE m == k + d
  <2>1. m \in 0..Len(p) /\ m + 1 \in 1..Len(p) /\ (m + 1) - 1 = m /\ k + (d + 1) = m + 1
    BY <1>1
  <2>2. Keeps(m)
    BY <2>1, <1>5
  <2> HIDE DEF m
  <2>3. J(m) \in Seq(E) /\ p[m + 1] \in Seq(E) /\ J(m + 1) = J(m) \o p[m + 1]
    BY <2>1, <1>1, <1>2, <1>3
  <2>4. /\ Len(J(m)) \in Nat /\ Len(J(m)) <= Len(J(m + 1)) /\ Len(J(k)) \in Nat
        /\ \A i \in 1..Len(J(m)): J(m + 1)[i] = J(m)[i]
    BY <2>3, <1>2
  <2>5. Keeps(m + 1)
    BY <2>2, <2>4
  <2> QED
    BY <2>1, <2>5
<1> HIDE DEF T, Keeps
<1>6. n - k \in Nat /\ k + (n - k) = n /\ n <= Len(p)
  BY <1>1
<1>7. n - k \in T
  BY <1>4, <1>5, <1>6, Induction
<1>8. Keeps(n)
  BY <1>6, <1>7 DEF T
<1> QED
  BY <1>8 DEF Keeps, J

-----------------------------------------------------------------------------
(***************************************************************************)
(* The frames: what a stream holds where, what the loop finds at the head  *)
(* of a buffer, and that it takes one request after the other.             *)
(***************************************************************************)
\* What a stream is made of.
Byte == Nat \cup [request : Nat, byte : Nat]

\* What \o does, of a name for its result.
Concatenation(c, a, b, E) ==
  /\ c \in Seq(E) /\ Len(c) = Len(a) + Len(b)
  /\ \A i \in 1..Len(a): c[i] = a[i]
  /\ \A i \in 1..Len(b): c[Len(a) + i] = b[i]

LEMMA Concat ==
  ASSUME NEW E, NEW a \in Seq(E), NEW b \in Seq(E)
  PROVE  Concatenation(a \o b, a, b, E)
<1>1. Len(a) \in Nat /\ Len(b) \in Nat
  OBVIOUS
<1>2. ASSUME NEW i \in 1..Len(b) PROVE (a \o b)[Len(a) + i] = b[i]
  <2>1. /\ Len(a) + i \in 1..(Len(a) + Len(b)) /\ ~(Len(a) + i <= Len(a))
        /\ (Len(a) + i) - Len(a) = i
    BY <1>1
  <2> QED
    BY <2>1
<1> QED
  BY <1>2 DEF Concatenation

LEMMA FrameIs ==
  ASSUME Parameters, NEW k \in Nat
  PROVE  /\ Frame(k) \in Seq(Byte)
         /\ Len(Frame(k)) = 9 + BodyLength
         /\ Frame(k)[1] = 80 /\ Frame(k)[2] = 0
         /\ Frame(k)[8] \in Nat /\ Frame(k)[9] \in Nat
         /\ Frame(k)[8] + 256 * Frame(k)[9] = BodyLength
         /\ Body(k) \in Seq(Byte) /\ Len(Body(k)) = BodyLength
         /\ \A j \in 1..BodyLength: Frame(k)[9 + j] = Body(k)[j]
<1> DEFINE low == BodyLength % 256
           high == BodyLength \div 256
           sub == <<80, 0>>
           route == <<0, 255, 255, 3, 0>>
           size == <<low, high>>
           head == (sub \o route) \o size
           B == Body(k)
<1>1. BodyLength \in Nat /\ low \in Nat /\ high \in Nat /\ low + 256 * high = BodyLength
  BY DEF Parameters
<1> HIDE DEF low, high
<1>2. B \in Seq(Byte) /\ Len(B) = BodyLength
  <2>1. \A j \in 1..BodyLength: [request |-> k, byte |-> j] \in Byte
    BY <1>1 DEF Byte
  <2> QED
    BY <1>1, <2>1 DEF Body
<1>3. Frame(k) = head \o B
  BY DEF Frame, Subheader, low, high
<1>4. /\ sub \in Seq(Byte) /\ Len(sub) = 2 /\ sub[1] = 80 /\ sub[2] = 0
      /\ route \in Seq(Byte) /\ Len(route) = 5
      /\ size \in Seq(Byte) /\ Len(size) = 2 /\ size[1] = low /\ size[2] = high
  BY <1>1 DEF Byte
<1> HIDE DEF sub, route, size, B
<1> DEFINE front == sub \o route
<1>5. Concatenation(front, sub, route, Byte)
  BY <1>4, Concat
<1> HIDE DEF front
<1>6. /\ front \in Seq(Byte) /\ Len(front) = 7 /\ front[1] = 80 /\ front[2] = 0
  BY <1>4, <1>5 DEF Concatenation
<1>7. Concatenation(head, front, size, Byte)
  BY <1>4, <1>6, Concat DEF front
<1> HIDE DEF head
<1>8. /\ head \in Seq(Byte) /\ Len(head) = 9 /\ head[1] = 80 /\ head[2] = 0
      /\ head[8] = low /\ head[9] = high
  <2>1. 1 \in 1..Len(size) /\ 2 \in 1..Len(size) /\ Len(front) + 1 = 8 /\ Len(front) + 2 = 9
    BY <1>4, <1>6
  <2> QED
    BY <2>1, <1>4, <1>6, <1>7 DEF Concatenation
<1>9. Concatenation(Frame(k), head, B, Byte)
  BY <1>2, <1>3, <1>8, Concat
<1> DEFINE F == Frame(k)
<1>10. /\ F \in Seq(Byte) /\ Len(F) = 9 + BodyLength
       /\ \A i \in 1..9: F[i] = head[i]
       /\ \A j \in 1..BodyLength: F[9 + j] = B[j]
  BY <1>2, <1>8, <1>9 DEF Concatenation
<1> HIDE DEF F
<1>11. F[1] = 80 /\ F[2] = 0 /\ F[8] = low /\ F[9] = high
  BY <1>8, <1>10
<1> QED
  BY <1>1, <1>2, <1>10, <1>11 DEF B, F

\* What the stream of a script is put together from, and how much of it the
\* first k members take.
Piece(s) == [k \in DOMAIN s |-> s[k].stray \o Frame(k)]
End(s, k) == Len(Joined(First(Piece(s), k)))

LEMMA LargerSeq ==
  ASSUME NEW A, NEW B, A \subseteq B, NEW x, x \in Seq(A)
  PROVE  x \in Seq(B)
<1>1. Len(x) \in Nat /\ x = [i \in 1..Len(x) |-> x[i]] /\ \A i \in 1..Len(x): x[i] \in B
  OBVIOUS
<1>2. [i \in 1..Len(x) |-> x[i]] \in Seq(B)
  BY <1>1
<1> QED
  BY <1>1, <1>2

LEMMA SendableIs ==
  ASSUME Parameters, NEW s \in Script
  PROVE  /\ Len(s) \in Nat /\ DOMAIN s = 1..Len(s)
         /\ \A k \in 1..Len(s): /\ s[k].stray \in Seq(Byte)
                                /\ s[k].request \in Request
<1> DEFINE S == Seq(0..255)
           M == [stray: S, request: Request]
<1>1. s \in Seq(M)
  BY DEF Parameters, Sendable
<1>2. ASSUME NEW k \in 1..Len(s) PROVE s[k].stray \in Seq(Byte) /\ s[k].request \in Request
  <2> HIDE DEF M
  <2>1. s[k] \in M
    BY <1>1
  <2> USE DEF M
  <2> HIDE DEF S
  <2>2. s[k].stray \in S /\ s[k].request \in Request
    BY <2>1
  <2>3. s[k].stray \in Seq(0..255)
    BY <2>2 DEF S
  <2>4. 0..255 \subseteq Byte
    BY DEF Byte
  <2> DEFINE x == s[k].stray
             C == 0..255
  <2>5. x \in Seq(C) /\ C \subseteq Byte
    BY <2>3, <2>4
  <2> HIDE DEF x, C
  <2>6. x \in Seq(Byte)
    BY <2>5, LargerSeq
  <2> QED
    BY <2>2, <2>6 DEF x
<1>3. Len(s) \in Nat /\ DOMAIN s = 1..Len(s)
  BY <1>1
<1> QED
  BY <1>2, <1>3

LEMMA PieceIs ==
  ASSUME Parameters, NEW s \in Script
  PROVE  /\ Piece(s) \in Pieces(Byte) /\ Len(Piece(s)) = Len(s)
         /\ \A k \in 1..Len(s): Concatenation(Piece(s)[k], s[k].stray, Frame(k), Byte)
<1>1. /\ Len(s) \in Nat /\ DOMAIN s = 1..Len(s)
      /\ \A k \in 1..Len(s): s[k].stray \in Seq(Byte)
  BY SendableIs
<1>2. ASSUME NEW k \in 1..Len(s)
      PROVE  Concatenation(s[k].stray \o Frame(k), s[k].stray, Frame(k), Byte)
  <2>1. Frame(k) \in Seq(Byte)
    BY FrameIs
  <2> QED
    BY <1>1, <2>1, Concat
<1>3. \A k \in 1..Len(s): s[k].stray \o Frame(k) \in Seq(Byte)
  BY <1>2 DEF Concatenation
<1>4. Piece(s) = [k \in 1..Len(s) |-> s[k].stray \o Frame(k)]
  BY <1>1 DEF Piece
<1>5. Piece(s) \in Seq(Seq(Byte)) /\ Len(Piece(s)) = Len(s)
  BY <1>1, <1>3, <1>4
<1>6. \A k \in 1..Len(s): Piece(s)[k] = s[k].stray \o Frame(k)
  BY <1>4
<1> QED
  BY <1>2, <1>5, <1>6 DEF Pieces

LEMMA StreamIs ==
  ASSUME Parameters, NEW s \in Script
  PROVE  /\ Stream[s] \in Seq(Byte) /\ Len(Stream[s]) = End(s, Len(s))
         /\ End(s, 0) = 0
         /\ \A k \in 1..Len(s):
              /\ End(s, k - 1) \in Nat
              /\ End(s, k) = End(s, k - 1) + Len(Piece(s)[k])
              /\ End(s, k) <= Len(Stream[s])
              /\ \A j \in 1..Len(Piece(s)[k]):
                   Stream[s][End(s, k - 1) + j] = Piece(s)[k][j]
<1> DEFINE p == Piece(s)
<1>1. /\ p \in Pieces(Byte) /\ Len(p) = Len(s) /\ Len(p) \in Nat
      /\ First(p, Len(p)) = p
      /\ \A k \in 1..Len(p): p[k] \in Seq(Byte)
  <2>1. p \in Pieces(Byte) /\ Len(p) = Len(s) /\ Len(s) \in Nat
    BY PieceIs, SendableIs
  <2> HIDE DEF p
  <2>2. First(p, Len(p)) = p /\ \A k \in 1..Len(p): p[k] \in Seq(Byte)
    BY <2>1 DEF First, Pieces
  <2> QED
    BY <2>1, <2>2
<1> DEFINE J(n) == Joined(First(p, n))
<1>2. Stream[s] = J(Len(p))
  <2>1. Stream[s] = Joined(p)
    BY DEF Stream, FlattenSeq, Joined, Piece
  <2> QED
    BY <1>1, <2>1
<1>3. \A n \in 0..Len(s): End(s, n) = Len(J(n))
  BY DEF End
<1> HIDE DEF p
<1>4. J(0) = <<>>
  BY JoinedNone
<1>5. \A n \in 0..Len(p): J(n) \in Seq(Byte)
  BY <1>1, JoinedSeq
<1>6. ASSUME NEW k \in 1..Len(p)
      PROVE  /\ Concatenation(J(k), J(k - 1), p[k], Byte)
             /\ Len(J(k)) <= Len(J(Len(p)))
             /\ \A i \in 1..Len(J(k)): J(Len(p))[i] = J(k)[i]
  <2>1. k \in 0..Len(p) /\ k - 1 \in 0..Len(p) /\ Len(p) \in k..Len(p) /\ p[k] \in Seq(Byte)
    BY <1>1
  <2>2. J(k) = J(k - 1) \o p[k]
    BY <1>1, JoinedOneMore
  <2>3. J(k - 1) \in Seq(Byte)
    BY <1>5, <2>1
  <2>4. Concatenation(J(k - 1) \o p[k], J(k - 1), p[k], Byte)
    BY <2>1, <2>3, Concat
  <2>5. LET short == Joined(First(p, k))
            long  == Joined(First(p, Len(p)))
        IN  Len(short) <= Len(long) /\ \A i \in 1..Len(short): long[i] = short[i]
    BY <1>1, <2>1, JoinedPrefix
  <2> QED
    BY <2>2, <2>4, <2>5
<1>7. \A n \in 0..Len(p): Len(J(n)) \in Nat
  BY <1>5
<1> HIDE DEF J
<1>8. ASSUME NEW k \in 1..Len(p)
      PROVE  /\ Len(J(k)) = Len(J(k - 1)) + Len(p[k])
             /\ \A j \in 1..Len(p[k]): J(Len(p))[Len(J(k - 1)) + j] = p[k][j]
  <2>1. Len(J(k)) = Len(J(k - 1)) + Len(p[k])
    BY <1>6 DEF Concatenation
  <2>2. ASSUME NEW j \in 1..Len(p[k]) PROVE J(Len(p))[Len(J(k - 1)) + j] = p[k][j]
    <3>1. J(k)[Len(J(k - 1)) + j] = p[k][j]
      BY <1>6 DEF Concatenation
    <3>2. Len(J(k - 1)) \in Nat /\ Len(p[k]) \in Nat
      BY <1>1, <1>7
    <3>3. Len(J(k - 1)) + j \in 1..Len(J(k))
      BY <2>1, <3>2
    <3> QED
      BY <1>6, <3>1, <3>3
  <2> QED
    BY <2>1, <2>2
<1>9. /\ Len(p) \in 0..Len(p) /\ 0 \in 0..Len(p)
      /\ \A k \in 1..Len(p): k \in 0..Len(p) /\ k - 1 \in 0..Len(p)
  BY <1>1
<1>10. Len(J(0)) = 0
  BY <1>4
<1>11. Stream[s] \in Seq(Byte) /\ Len(Stream[s]) = End(s, Len(s)) /\ End(s, 0) = 0
  BY <1>1, <1>2, <1>3, <1>5, <1>9, <1>10
<1>12. ASSUME NEW k \in 1..Len(s)
       PROVE  /\ End(s, k - 1) \in Nat
              /\ End(s, k) = End(s, k - 1) + Len(Piece(s)[k])
              /\ End(s, k) <= Len(Stream[s])
              /\ \A j \in 1..Len(Piece(s)[k]):
                   Stream[s][End(s, k - 1) + j] = Piece(s)[k][j]
  <2>1. /\ k \in 1..Len(p) /\ k \in 0..Len(s) /\ k - 1 \in 0..Len(s)
        /\ k - 1 \in 0..Len(p)
    BY <1>1, <1>9
  <2>2. End(s, k) = Len(J(k)) /\ End(s, k - 1) = Len(J(k - 1))
    BY <1>3, <2>1
  <2> QED
    BY <1>2, <1>6, <1>7, <1>8, <2>1, <2>2 DEF p
<1> QED
  BY <1>11, <1>12

LEMMA PartIs ==
  ASSUME NEW E, NEW q \in Seq(E), NEW u \in Nat, NEW r \in Nat, u <= r, r <= Len(q)
  PROVE  /\ SubSeq(q, u + 1, r) \in Seq(E) /\ Len(SubSeq(q, u + 1, r)) = r - u
         /\ \A i \in 1..(r - u): SubSeq(q, u + 1, r)[i] = q[u + i]
<1>1. Len(q) \in Nat /\ \A i \in (u + 1)..r: i \in 1..Len(q) /\ q[i] \in E
  OBVIOUS
<1>2. SubSeq(q, u + 1, r) \in Seq(E) /\ Len(SubSeq(q, u + 1, r)) = r - u
  BY <1>1
<1>3. ASSUME NEW i \in 1..(r - u) PROVE SubSeq(q, u + 1, r)[i] = q[u + i]
  <2>1. i \in 1..(r - (u + 1) + 1) /\ (u + 1) + i - 1 = u + i
    OBVIOUS
  <2> QED
    BY <2>1, <1>1
<1> QED
  BY <1>2, <1>3

LEMMA PairIs ==
  ASSUME NEW E, NEW q \in Seq(E), NEW j \in Nat, 1 <= j, j + 1 <= Len(q)
  PROVE  SubSeq(q, j, j + 1) = <<q[j], q[j + 1]>>
<1> DEFINE u == j - 1
           r == j + 1
           D == SubSeq(q, u + 1, r)
<1>1. u \in Nat /\ r \in Nat /\ u <= r /\ r <= Len(q) /\ r - u = 2
      /\ u + 1 = j /\ u + 2 = j + 1
  OBVIOUS
<1> HIDE DEF u, r
<1>2. D \in Seq(E) /\ Len(D) = r - u /\ \A i \in 1..(r - u): D[i] = q[u + i]
  BY <1>1, PartIs
<1> HIDE DEF D
<1>3. D \in Seq(E) /\ Len(D) = 2 /\ D[1] = q[j] /\ D[2] = q[j + 1]
  <2>1. 1 \in 1..(r - u) /\ 2 \in 1..(r - u)
    BY <1>1
  <2> QED
    BY <1>1, <1>2, <2>1
<1>4. D = <<q[j], q[j + 1]>>
  BY <1>3
<1> QED
  BY <1>1, <1>4 DEF D, r

\* What the server makes of a buffer that starts behind u bytes of the stream,
\* where frame k is next.
Finds(buffer, s, k, u) ==
  /\ StartsFrame(buffer) <=> u = End(s, k - 1) + Len(s[k].stray)
  /\ StartsFrame(buffer) =>
       /\ u + Needed(buffer) = End(s, k)
       /\ Needed(buffer) \in Nat
       /\ Complete(buffer) =>
            SubSeq(buffer, HeaderLength + 1, Needed(buffer)) = Body(k)

\* Before the next frame of a script the bytes are stray and none of them
\* starts a frame; at its start there is a subheader, and then the length that
\* leads to the body of that frame and to its end.
LEMMA FrameFound ==
  ASSUME Parameters, NEW s \in Script, NEW k \in 1..Len(s),
         NEW u \in Nat, NEW r \in Nat,
         End(s, k - 1) <= u, u <= End(s, k - 1) + Len(s[k].stray),
         r <= Len(Stream[s]), 9 <= r - u
  PROVE  Finds(SubSeq(Stream[s], u + 1, r), s, k, u)
<1> DEFINE S == Stream[s]
           buffer == SubSeq(S, u + 1, r)
           e == End(s, k - 1)
           t == s[k].stray
           F == Frame(k)
           P == Piece(s)[k]
<1>1. e <= u /\ u <= e + Len(t) /\ r <= Len(S)
  OBVIOUS
<1>2. /\ Len(s) \in Nat /\ k \in Nat /\ t \in Seq(Byte) /\ Len(t) \in Nat
  BY SendableIs
<1>3. /\ S \in Seq(Byte) /\ e \in Nat /\ Len(S) \in Nat
      /\ \A j \in 1..Len(P): S[e + j] = P[j]
      /\ End(s, k) = e + Len(P) /\ End(s, k) <= Len(S)
  BY StreamIs
<1>4. /\ F \in Seq(Byte) /\ Len(F) = 9 + BodyLength
      /\ F[1] = 80 /\ F[2] = 0 /\ F[8] + 256 * F[9] = BodyLength
      /\ Body(k) \in Seq(Byte) /\ Len(Body(k)) = BodyLength
      /\ \A j \in 1..BodyLength: F[9 + j] = Body(k)[j]
      /\ BodyLength \in Nat
  BY <1>2, FrameIs DEF Parameters
<1>5. Concatenation(P, t, F, Byte)
  BY PieceIs
<1>6. /\ Len(P) = Len(t) + (9 + BodyLength)
      /\ \A j \in 1..Len(t): S[e + j] = t[j]
      /\ \A j \in 1..(9 + BodyLength): S[e + Len(t) + j] = F[j]
  <2>1. Len(P) = Len(t) + (9 + BodyLength)
    BY <1>4, <1>5 DEF Concatenation
  <2> HIDE DEF S, e, t, F, P
  <2>2. ASSUME NEW j \in 1..Len(t) PROVE S[e + j] = t[j]
    <3>1. j \in 1..Len(P)
      BY <2>1, <1>2, <1>4
    <3> QED
      BY <3>1, <1>3, <1>5 DEF Concatenation
  <2>3. ASSUME NEW j \in 1..(9 + BodyLength) PROVE S[e + Len(t) + j] = F[j]
    <3>1. Len(t) + j \in 1..Len(P) /\ e + Len(t) + j = e + (Len(t) + j)
      BY <2>1, <1>2, <1>3, <1>4
    <3>2. P[Len(t) + j] = F[j]
      BY <1>4, <1>5 DEF Concatenation
    <3> QED
      BY <3>1, <3>2, <1>3
  <2> QED
    BY <2>1, <2>2, <2>3
<1>7. \A j \in 2..Len(t): SubSeq(t, j - 1, j) # <<80, 0>>
  <2>1. DOMAIN s = 1..Len(s)
    BY SendableIs
  <2> QED
    BY <2>1 DEF Parameters, Sendable, Subheader
<1> HIDE DEF S, e, t, F, P
<1>8. /\ buffer \in Seq(Byte) /\ Len(buffer) = r - u
      /\ \A i \in 1..(r - u): buffer[i] = S[u + i]
  <2>1. u <= r /\ r <= Len(S)
    BY <1>3 DEF S
  <2> QED
    BY <1>3, <2>1, PartIs
<1> HIDE DEF buffer
<1>9. 1 \in 1..(r - u) /\ 2 \in 1..(r - u) /\ 8 \in 1..(r - u) /\ 9 \in 1..(r - u)
  OBVIOUS
<1>10. StartsFrame(buffer) <=> S[u + 1] = 80 /\ S[u + 2] = 0
  <2>1. SubSeq(buffer, 1, 2) = <<buffer[1], buffer[2]>>
    <3>1. 1 \in Nat /\ 1 <= 1 /\ 1 + 1 <= Len(buffer) /\ 1 + 1 = 2
      BY <1>8
    <3>2. SubSeq(buffer, 1, 1 + 1) = <<buffer[1], buffer[1 + 1]>>
      BY <1>8, <3>1, PairIs
    <3> QED
      BY <3>1, <3>2
  <2>2. StartsFrame(buffer) <=> buffer[1] = 80 /\ buffer[2] = 0
    BY <1>8, <2>1 DEF StartsFrame, HeaderLength, Subheader
  <2> QED
    BY <1>8, <1>9, <2>2
<1>11. ASSUME u < e + Len(t) PROVE ~(S[u + 1] = 80 /\ S[u + 2] = 0)
  <2> DEFINE j == u - e + 1
  <2>1. j \in 1..Len(t) /\ e + j = u + 1 /\ e + (j + 1) = u + 2
    <3>1. e \in Nat /\ Len(t) \in Nat
      BY <1>2, <1>3
    <3> QED
      BY <1>1, <1>11, <3>1
  <2>2. S[u + 1] = t[j]
    BY <1>6, <2>1
  <2>3. CASE j = Len(t)
    <3>1. e + Len(t) + 1 = u + 2 /\ 1 \in 1..(9 + BodyLength)
      BY <1>4, <2>1, <2>3
    <3>2. S[u + 2] = 80
      BY <1>4, <1>6, <3>1
    <3> QED
      BY <3>2
  <2>4. CASE j < Len(t)
    <3>1. j + 1 \in 1..Len(t) /\ j + 1 \in 2..Len(t) /\ (j + 1) - 1 = j
      BY <2>1, <2>4, <1>2
    <3>2. S[u + 2] = t[j + 1]
      BY <1>6, <2>1, <3>1
    <3> HIDE DEF j
    <3>3. SubSeq(t, j, j + 1) # <<80, 0>>
      BY <1>7, <3>1
    <3>4. SubSeq(t, j, j + 1) = <<t[j], t[j + 1]>>
      <4>1. j \in Nat /\ 1 <= j /\ j + 1 <= Len(t)
        BY <1>2, <2>1, <3>1
      <4> QED
        BY <1>2, <4>1, PairIs
    <3> QED
      BY <2>2, <3>2, <3>3, <3>4
  <2>5. j <= Len(t)
    BY <2>1
  <2> QED
    BY <1>2, <2>1, <2>3, <2>4, <2>5
<1>12. ASSUME u = e + Len(t)
       PROVE  /\ S[u + 1] = 80 /\ S[u + 2] = 0
              /\ Needed(buffer) = 9 + BodyLength
              /\ u + Needed(buffer) = End(s, k)
              /\ Complete(buffer) =>
                   SubSeq(buffer, HeaderLength + 1, Needed(buffer)) = Body(k)
  <2>1. \A j \in 1..(9 + BodyLength): S[u + j] = F[j]
    BY <1>6, <1>12
  <2>2. /\ 1 \in 1..(9 + BodyLength) /\ 2 \in 1..(9 + BodyLength)
        /\ 8 \in 1..(9 + BodyLength) /\ 9 \in 1..(9 + BodyLength)
    BY <1>4
  <2>3. S[u + 1] = 80 /\ S[u + 2] = 0 /\ buffer[8] = F[8] /\ buffer[9] = F[9]
    <3>1. S[u + 1] = F[1] /\ S[u + 2] = F[2] /\ S[u + 8] = F[8] /\ S[u + 9] = F[9]
      BY <2>1, <2>2
    <3>2. buffer[8] = S[u + 8] /\ buffer[9] = S[u + 9]
      BY <1>8, <1>9
    <3>3. F[1] = 80 /\ F[2] = 0
      BY <1>4
    <3> QED
      BY <3>1, <3>2, <3>3
  <2>4. F[8] \in Byte /\ F[9] \in Byte
    BY <1>4, <2>2
  <2>5. Needed(buffer) = 9 + BodyLength
    <3>1. Needed(buffer) = 9 + F[8] + 256 * F[9]
      BY <2>3 DEF Needed, HeaderLength
    <3>2. /\ F[8] \in Nat /\ F[9] \in Nat /\ F[8] + 256 * F[9] = BodyLength
          /\ BodyLength \in Nat
      BY <1>2, <1>4, FrameIs DEF F
    <3> DEFINE x == F[8]
               y == 256 * F[9]
    <3>3. Needed(buffer) = 9 + x + y
      BY <3>1
    <3>4. x + y = BodyLength
      BY <3>2
    <3>5. x \in Nat /\ y \in Nat
      BY <3>2
    <3> HIDE DEF x, y
    <3>6. 9 + x + y = 9 + (x + y)
      BY <3>5
    <3> QED
      BY <3>3, <3>4, <3>6
  <2>6. u + Needed(buffer) = End(s, k)
    BY <1>2, <1>3, <1>4, <1>6, <1>12, <2>5
  <2>7. ASSUME Complete(buffer)
        PROVE  SubSeq(buffer, 10, 9 + BodyLength) = Body(k)
    <3>1. 9 + BodyLength <= r - u
      BY <1>8, <2>5, <2>7 DEF Complete
    <3>2. /\ 9 \in Nat /\ 9 + BodyLength \in Nat /\ 9 <= 9 + BodyLength
          /\ 9 + BodyLength <= Len(buffer) /\ (9 + BodyLength) - 9 = BodyLength
      BY <1>4, <1>8, <3>1
    <3> DEFINE m == 9 + BodyLength
               D == SubSeq(buffer, 9 + 1, m)
    <3>3. D \in Seq(Byte) /\ Len(D) = m - 9 /\ \A i \in 1..(m - 9): D[i] = buffer[9 + i]
      <4> HIDE DEF m
      <4>1. m \in Nat /\ 9 <= m /\ m <= Len(buffer)
        BY <3>2 DEF m
      <4> QED
        BY <1>8, <4>1, PartIs
    <3> HIDE DEF D
    <3>4. ASSUME NEW i \in 1..BodyLength PROVE D[i] = Body(k)[i]
      <4>1. 9 + i \in 1..(9 + BodyLength) /\ 9 + i \in 1..(r - u)
        BY <1>4, <3>1
      <4>2. D[i] = S[u + (9 + i)]
        BY <1>8, <3>2, <3>3, <4>1
      <4> QED
        BY <1>4, <2>1, <4>1, <4>2
    <3>5. D = Body(k)
      <4>1. Len(D) = BodyLength
        BY <3>2, <3>3
      <4> QED
        BY <1>4, <3>3, <3>4, <4>1
    <3> QED
      BY <3>5 DEF D
  <2> QED
    BY <2>3, <2>5, <2>6, <2>7 DEF HeaderLength
<1>13. u < e + Len(t) \/ u = e + Len(t)
  <2>1. e \in Nat /\ Len(t) \in Nat
    BY <1>2, <1>3
  <2> QED
    BY <1>1, <2>1
<1>14. 9 + BodyLength \in Nat
  BY <1>4
<1>15. StartsFrame(buffer) <=> u = e + Len(t)
  BY <1>10, <1>11, <1>12, <1>13
<1>16. ASSUME StartsFrame(buffer)
       PROVE  /\ u + Needed(buffer) = End(s, k)
              /\ Needed(buffer) \in Nat
              /\ Complete(buffer) =>
                   SubSeq(buffer, HeaderLength + 1, Needed(buffer)) = Body(k)
  BY <1>12, <1>14, <1>15, <1>16
<1> QED
  BY <1>15, <1>16 DEF e, t, buffer, S, Finds

\* The bodies handled are the first ones of the script, and what is used of
\* the stream ends before the next frame or among its stray bytes, unless all
\* of it is used.
AtFrame(s, u, h) ==
  /\ Len(h) \in 0..Len(s)
  /\ \A k \in 1..Len(h): h[k] = Body(k)
  /\ \/ u = Len(Stream[s])
     \/ /\ Len(h) < Len(s)
        /\ End(s, Len(h)) <= u
        /\ u <= End(s, Len(h)) + Len(s[Len(h) + 1].stray)

\* What keeps requests whole: every buffer begins with strays of the request
\* that is next, and what was handled are those before it.
FrameInv ==
  /\ sent \in [Conn -> Script]
  /\ used \in [Conn -> Nat] /\ received \in [Conn -> Nat]
  /\ handled \in [Conn -> Seq(Seq(Byte))]
  /\ \A c \in Conn: /\ used[c] <= received[c]
                    /\ received[c] <= Len(Stream[sent[c]])
                    /\ AtFrame(sent[c], used[c], handled[c])

LEMMA FrameStart ==
  ASSUME Parameters, ServerInit
  PROVE  FrameInv
<1>1. sent \in [Conn -> Script]
  BY DEF ServerInit
<1>2. ASSUME NEW c \in Conn
      PROVE  0 <= Len(Stream[sent[c]]) /\ AtFrame(sent[c], 0, <<>>)
  <2> DEFINE s == sent[c]
  <2>1. s \in Script
    BY <1>1
  <2> HIDE DEF s
  <2>2. /\ Stream[s] \in Seq(Byte) /\ Len(Stream[s]) = End(s, Len(s))
        /\ End(s, 0) = 0 /\ Len(s) \in Nat
    BY <2>1, StreamIs, SendableIs
  <2>3. 0 <= Len(Stream[s])
    BY <2>2
  <2>4. ASSUME Len(s) # 0 PROVE 0 <= 0 + Len(s[0 + 1].stray)
    <3>1. 0 + 1 \in 1..Len(s)
      BY <2>2, <2>4
    <3>2. s[0 + 1].stray \in Seq(Byte)
      BY <2>1, <3>1, SendableIs
    <3>3. Len(s[0 + 1].stray) \in Nat
      BY <3>2
    <3> QED
      BY <3>3
  <2>5. Len(<<>>) = 0
    OBVIOUS
  <2>6. AtFrame(s, 0, <<>>)
    BY <2>2, <2>4, <2>5 DEF AtFrame
  <2> QED
    BY <2>3, <2>6 DEF s
<1>3. /\ used = [c \in Conn |-> 0] /\ received = [c \in Conn |-> 0]
      /\ handled = [c \in Conn |-> <<>>] /\ <<>> \in Seq(Seq(Byte))
  BY DEF ServerInit
<1> QED
  BY <1>1, <1>2, <1>3 DEF FrameInv

\* What an action on a connection does to the frames of that connection.
LEMMA FrameMoves ==
  ASSUME Parameters, FrameInv, NEW c \in Conn, NEW u \in Nat, NEW r \in Nat,
         NEW h \in Seq(Seq(Byte)),
         used' = [used EXCEPT ![c] = u], received' = [received EXCEPT ![c] = r],
         handled' = [handled EXCEPT ![c] = h], sent' = sent,
         u <= r, r <= Len(Stream[sent[c]]), AtFrame(sent[c], u, h)
  PROVE  FrameInv'
<1>1. /\ used' \in [Conn -> Nat] /\ received' \in [Conn -> Nat]
      /\ handled' \in [Conn -> Seq(Seq(Byte))] /\ sent' \in [Conn -> Script]
  BY DEF FrameInv
<1>2. ASSUME NEW d \in Conn
      PROVE  /\ used'[d] <= received'[d]
             /\ received'[d] <= Len(Stream[sent[d]])
             /\ AtFrame(sent[d], used'[d], handled'[d])
  <2>1. CASE d = c
    BY <2>1 DEF FrameInv
  <2>2. CASE d # c
    <3>1. used'[d] = used[d] /\ received'[d] = received[d] /\ handled'[d] = handled[d]
      BY <2>2 DEF FrameInv
    <3> QED
      BY <3>1 DEF FrameInv
  <2> QED
    BY <2>1, <2>2
<1>3. ASSUME NEW d \in Conn
      PROVE  /\ used'[d] <= received'[d]
             /\ received'[d] <= Len(Stream'[sent'[d]])
             /\ AtFrame(sent[d], used[d], handled[d])'
  BY <1>2 DEF AtFrame, Stream, Frame, Body, End
<1> QED
  BY <1>1, <1>3 DEF FrameInv

\* The buffer of a connection, when it holds as much as a header.
LEMMA BufferIs ==
  ASSUME Parameters, FrameInv, NEW c \in Conn,
         Len(Buffer(c)) >= HeaderLength
  PROVE  LET s == sent[c]
             h == handled[c]
             k == Len(h) + 1
         IN  /\ s \in Script /\ k \in 1..Len(s) /\ Len(h) = k - 1
             /\ used[c] + 9 <= received[c]
             /\ End(s, k - 1) <= used[c]
             /\ used[c] <= End(s, k - 1) + Len(s[k].stray)
             /\ Finds(Buffer(c), s, k, used[c])
             /\ StartsFrame(Buffer(c)) /\ Complete(Buffer(c))
                  => End(s, k) <= received[c]
<1> DEFINE s == sent[c]
           h == handled[c]
           u == used[c]
           r == received[c]
           k == Len(h) + 1
           S == Stream[s]
           buffer == Buffer(c)
<1>1. /\ s \in Script /\ u \in Nat /\ r \in Nat /\ h \in Seq(Seq(Byte)) /\ Len(h) \in Nat
      /\ u <= r /\ r <= Len(S) /\ AtFrame(s, u, h)
  BY DEF FrameInv
<1>2. buffer = SubSeq(S, u + 1, r) /\ Len(buffer) >= 9
  BY DEF Buffer, HeaderLength
<1> HIDE DEF s, h, u, r, S, buffer
<1>3. Stream[s] = S /\ S \in Seq(Byte) /\ Len(S) \in Nat /\ Len(s) \in Nat
  BY <1>1, StreamIs, SendableIs DEF S
<1>4. Len(buffer) = r - u
  BY <1>1, <1>2, <1>3, PartIs
<1>5. 9 <= r - u /\ u + 9 <= r /\ u # Len(S)
  BY <1>1, <1>2, <1>3, <1>4
<1>6. /\ k \in 1..Len(s) /\ k - 1 = Len(h)
      /\ End(s, k - 1) <= u /\ u <= End(s, k - 1) + Len(s[k].stray)
  BY <1>1, <1>3, <1>5 DEF AtFrame
<1> HIDE DEF k
<1>7. Finds(SubSeq(Stream[s], u + 1, r), s, k, u)
  <2>1. /\ s \in Script /\ k \in 1..Len(s) /\ u \in Nat /\ r \in Nat
        /\ End(s, k - 1) <= u /\ u <= End(s, k - 1) + Len(s[k].stray)
        /\ r <= Len(Stream[s]) /\ 9 <= r - u
    BY <1>1, <1>3, <1>5, <1>6
  <2> QED
    BY <2>1, FrameFound
<1>8. Finds(buffer, s, k, u)
  BY <1>2, <1>3, <1>7
<1>9. ASSUME StartsFrame(buffer), Complete(buffer) PROVE End(s, k) <= r
  <2> DEFINE n == Needed(buffer)
  <2>1. n <= r - u /\ n \in Nat /\ u + n = End(s, k)
    BY <1>4, <1>8, <1>9 DEF Complete, Finds
  <2> HIDE DEF n
  <2> QED
    BY <1>1, <2>1
<1> QED
  BY <1>1, <1>5, <1>6, <1>8, <1>9 DEF s, h, u, r, k, buffer

LEMMA DropKeeps ==
  ASSUME Parameters, FrameInv, NEW c \in Conn, DropByte(c)
  PROVE  FrameInv'
<1> DEFINE s == sent[c]
           h == handled[c]
           u == used[c]
           k == Len(h) + 1
<1>1. /\ Len(Buffer(c)) >= HeaderLength /\ ~StartsFrame(Buffer(c))
      /\ used' = [used EXCEPT ![c] = u + 1]
      /\ received' = received /\ handled' = handled /\ sent' = sent
  BY DEF DropByte
<1>2. /\ s \in Script /\ k \in 1..Len(s) /\ Len(h) = k - 1
      /\ u + 9 <= received[c]
      /\ End(s, k - 1) <= u
      /\ u <= End(s, k - 1) + Len(s[k].stray)
      /\ u # End(s, k - 1) + Len(s[k].stray)
  BY <1>1, BufferIs DEF Finds
<1>3. /\ u \in Nat /\ received[c] \in Nat /\ h \in Seq(Seq(Byte))
      /\ received[c] <= Len(Stream[s]) /\ AtFrame(s, u, h)
  BY DEF FrameInv
<1>4. /\ received' = [received EXCEPT ![c] = received[c]]
      /\ handled' = [handled EXCEPT ![c] = h]
  BY <1>1 DEF FrameInv
<1>5. End(s, k - 1) \in Nat /\ Len(s[k].stray) \in Nat /\ Len(s) \in Nat /\ Len(h) \in Nat
  <2>1. s[k].stray \in Seq(Byte) /\ Len(s) \in Nat
    BY <1>2, SendableIs
  <2>2. End(s, k - 1) \in Nat
    BY <1>2, StreamIs
  <2> DEFINE t == s[k].stray
  <2>3. t \in Seq(Byte)
    BY <2>1
  <2> HIDE DEF t
  <2>4. Len(t) \in Nat
    BY <2>3
  <2>5. Len(h) \in Nat
    BY <1>3
  <2> QED
    BY <2>1, <2>2, <2>4, <2>5 DEF t
<1>6. u + 1 \in Nat /\ u + 1 <= received[c]
  BY <1>2, <1>3
<1>7. AtFrame(s, u + 1, h)
  <2> HIDE DEF u, s
  <2>1. Len(h) < Len(s) /\ Len(h) + 1 = k
    BY <1>2, <1>5
  <2>2. End(s, k - 1) <= u + 1 /\ u + 1 <= End(s, k - 1) + Len(s[k].stray)
    <3> DEFINE low == End(s, k - 1)
               gap == Len(s[k].stray)
    <3>1. /\ u \in Nat /\ low \in Nat /\ gap \in Nat
          /\ low <= u /\ u <= low + gap /\ u # low + gap
      BY <1>2, <1>3, <1>5
    <3> HIDE DEF low, gap
    <3>2. low <= u + 1 /\ u + 1 <= low + gap
      BY <3>1
    <3> QED
      BY <3>2 DEF low, gap
  <2> HIDE DEF k
  <2> QED
    BY <1>2, <1>3, <2>1, <2>2 DEF AtFrame
<1> HIDE DEF u, s, h, k
<1> QED
  BY <1>1, <1>3, <1>4, <1>6, <1>7, FrameMoves DEF s

LEMMA HandleKeeps ==
  ASSUME Parameters, FrameInv, NEW c \in Conn, HandleFrame(c)
  PROVE  FrameInv'
<1> DEFINE s == sent[c]
           h == handled[c]
           u == used[c]
           k == Len(h) + 1
           need == Needed(Buffer(c))
           body == SubSeq(Buffer(c), HeaderLength + 1, need)
<1>1. /\ StartsFrame(Buffer(c)) /\ Complete(Buffer(c))
      /\ handled' = [handled EXCEPT ![c] = Append(@, body)]
      /\ used' = [used EXCEPT ![c] = u + need]
      /\ received' = received /\ sent' = sent
  BY DEF HandleFrame
<1>2. Len(Buffer(c)) >= HeaderLength
  BY <1>1 DEF StartsFrame
<1>3. /\ s \in Script /\ k \in 1..Len(s) /\ Len(h) = k - 1
      /\ u + need = End(s, k) /\ need \in Nat
      /\ End(s, k) <= received[c]
      /\ body = Body(k)
  BY <1>1, <1>2, BufferIs DEF Finds
<1> HIDE DEF need, body
<1>4. /\ u \in Nat /\ received[c] \in Nat /\ h \in Seq(Seq(Byte)) /\ Len(h) \in Nat
      /\ received[c] <= Len(Stream[s]) /\ AtFrame(s, u, h)
  BY DEF FrameInv
<1> DEFINE g == Append(h, Body(k))
<1>5. /\ received' = [received EXCEPT ![c] = received[c]]
      /\ handled' = [handled EXCEPT ![c] = g]
      /\ used' = [used EXCEPT ![c] = End(s, k)]
  BY <1>1, <1>3 DEF FrameInv
<1>6. Len(s) \in Nat /\ Len(Stream[s]) = End(s, Len(s)) /\ k \in Nat
  BY <1>3, StreamIs, SendableIs
<1>7. Body(k) \in Seq(Byte)
  BY <1>6, FrameIs
<1>8. g \in Seq(Seq(Byte)) /\ Len(g) = k /\ \A j \in 1..k: g[j] = Body(j)
  <2> DEFINE b == Body(k)
             X == Seq(Byte)
  <2>1. b \in X /\ h \in Seq(X)
    BY <1>4, <1>7
  <2>2. \A j \in 1..Len(h): h[j] = Body(j)
    BY <1>4 DEF AtFrame
  <2> HIDE DEF b, X
  <2>3. /\ Append(h, b) \in Seq(X) /\ Len(Append(h, b)) = Len(h) + 1
        /\ Append(h, b)[Len(h) + 1] = b
        /\ \A j \in 1..Len(h): Append(h, b)[j] = h[j]
    BY <2>1
  <2>4. \A j \in 1..k: j \in 1..Len(h) \/ j = Len(h) + 1
    BY <1>4
  <2> QED
    BY <2>2, <2>3, <2>4 DEF b, X
<1> HIDE DEF g
<1>9. End(s, k) \in Nat /\ (k < Len(s) => Len(s[k + 1].stray) \in Nat)
  <2>1. End(s, k) \in Nat
    BY <1>3, <1>4
  <2>2. ASSUME k < Len(s) PROVE Len(s[k + 1].stray) \in Nat
    <3>1. k + 1 \in 1..Len(s)
      BY <1>6, <2>2
    <3>2. s[k + 1].stray \in Seq(Byte)
      BY <1>3, <3>1, SendableIs
    <3> QED
      BY <3>2
  <2> QED
    BY <2>1, <2>2
<1>10. AtFrame(s, End(s, k), g)
  <2> HIDE DEF k, s
  <2>1. k \in 0..Len(s) /\ (k = Len(s) \/ k < Len(s))
    BY <1>3, <1>6
  <2>2. CASE k = Len(s)
    BY <1>6, <1>8, <2>1, <2>2 DEF AtFrame
  <2>3. CASE k < Len(s)
    <3>1. End(s, k) <= End(s, k) /\ End(s, k) <= End(s, k) + Len(s[k + 1].stray)
      BY <1>9, <2>3
    <3> QED
      BY <1>8, <2>1, <2>3, <3>1 DEF AtFrame
  <2> QED
    BY <2>1, <2>2, <2>3
<1> DEFINE e == End(s, k)
<1>11. /\ e \in Nat /\ e <= received[c] /\ AtFrame(s, e, g)
       /\ used' = [used EXCEPT ![c] = e]
  BY <1>3, <1>5, <1>9, <1>10
<1> HIDE DEF e, s, h, u, k
<1> QED
  BY <1>1, <1>4, <1>5, <1>8, <1>11, FrameMoves DEF s

LEMMA FrameStill ==
  ASSUME FrameInv, sent' = sent, used' = used, received' = received, handled' = handled
  PROVE  FrameInv'
BY DEF FrameInv, AtFrame, Stream, Frame, Body, End

LEMMA FrameStep ==
  ASSUME Parameters, FrameInv, [ServerNext]_serverVars
  PROVE  FrameInv'
<1>1. CASE UNCHANGED serverVars
  BY <1>1, FrameStill DEF serverVars, connVars
<1>2. ASSUME NEW c \in Conn, Accept(c) PROVE FrameInv'
  BY <1>2, FrameStill DEF Accept
<1>3. ASSUME NEW c \in Conn, EndOfBuffer(c) PROVE FrameInv'
  BY <1>3, FrameStill DEF EndOfBuffer
<1>4. ASSUME NEW c \in Conn, Drained(c) PROVE FrameInv'
  BY <1>4, FrameStill DEF Drained
<1>5. ASSUME NEW c \in Conn
      PROVE  /\ sent[c] \in Script /\ used[c] \in Nat /\ received[c] \in Nat
             /\ handled[c] \in Seq(Seq(Byte)) /\ used[c] <= received[c]
             /\ received[c] <= Len(Stream[sent[c]])
             /\ Len(Stream[sent[c]]) \in Nat
             /\ AtFrame(sent[c], used[c], handled[c])
             /\ used = [used EXCEPT ![c] = used[c]]
             /\ handled = [handled EXCEPT ![c] = handled[c]]
  <2>1. sent[c] \in Script
    BY DEF FrameInv
  <2>2. Stream[sent[c]] \in Seq(Byte)
    BY <2>1, StreamIs
  <2> DEFINE S == Stream[sent[c]]
  <2>3. S \in Seq(Byte)
    BY <2>2
  <2> HIDE DEF S
  <2>4. Len(S) \in Nat
    BY <2>3
  <2> QED
    BY <2>1, <2>4 DEF FrameInv, S
<1>6. ASSUME NEW c \in Conn, TakeChunk(c) PROVE FrameInv'
  <2>1. PICK n \in (received[c] + 1) .. Len(Stream[sent[c]]):
           received' = [received EXCEPT ![c] = n]
    BY <1>6 DEF TakeChunk
  <2>2. used' = used /\ handled' = handled /\ sent' = sent
    BY <1>6 DEF TakeChunk
  <2>3. n \in Nat /\ used[c] <= n /\ n <= Len(Stream[sent[c]])
    BY <1>5, <2>1
  <2>4. used' = [used EXCEPT ![c] = used[c]] /\ handled' = [handled EXCEPT ![c] = handled[c]]
    BY <1>5, <2>2
  <2> QED
    BY <1>5, <2>1, <2>2, <2>3, <2>4, FrameMoves
<1>7. ASSUME NEW c \in Conn, HangUp(c) PROVE FrameInv'
  <2> DEFINE n == Len(Stream[sent[c]])
  <2>1. /\ received' = [received EXCEPT ![c] = n] /\ used' = [used EXCEPT ![c] = n]
        /\ handled' = handled /\ sent' = sent
    BY <1>7 DEF HangUp
  <2>2. handled' = [handled EXCEPT ![c] = handled[c]]
    BY <1>5, <2>1
  <2>3. AtFrame(sent[c], n, handled[c])
    BY <1>5 DEF AtFrame
  <2>4. n \in Nat /\ n <= n /\ n <= Len(Stream[sent[c]])
    BY <1>5
  <2> HIDE DEF n
  <2> QED
    BY <1>5, <2>1, <2>2, <2>3, <2>4, FrameMoves
<1>8. ASSUME NEW c \in Conn, Loop(c) PROVE FrameInv'
  BY <1>3, <1>4, <1>6, <1>8, DropKeeps, HandleKeeps DEF Loop
<1> QED
  BY <1>1, <1>2, <1>7, <1>8 DEF ServerNext

LEMMA FrameInvariant ==
  ASSUME Parameters PROVE ServerSpec => []FrameInv
<1>1. ServerInit => FrameInv
  BY FrameStart
<1>2. FrameInv /\ [ServerNext]_serverVars => FrameInv'
  BY FrameStep
<1> QED
  BY <1>1, <1>2, PTL DEF ServerSpec

LEMMA FramesInOrder ==
  ASSUME Parameters, FrameInv PROVE HandledAsSent
<1> SUFFICES ASSUME NEW c \in Conn
             PROVE  IsPrefix(handled[c], [k \in DOMAIN sent[c] |-> Body(k)])
  BY DEF HandledAsSent
<1> DEFINE s == sent[c]
           h == handled[c]
           t == [k \in DOMAIN s |-> Body(k)]
           n == Len(h)
<1>1. /\ s \in Script /\ h \in Seq(Seq(Byte)) /\ Len(h) \in 0..Len(s)
      /\ \A k \in 1..Len(h): h[k] = Body(k)
  BY DEF FrameInv, AtFrame
<1>2. Len(s) \in Nat /\ DOMAIN s = 1..Len(s)
  BY <1>1, SendableIs
<1>3. \A k \in 1..Len(s): Body(k) \in Seq(Byte)
  BY <1>2, FrameIs
<1> DEFINE X == Seq(Byte)
<1>4. t \in Seq(X) /\ Len(t) = Len(s) /\ h \in Seq(X) /\ \A k \in 1..Len(s): t[k] = Body(k)
  BY <1>1, <1>2, <1>3
<1> HIDE DEF X, t, s, h
<1>5. 0 \in Nat /\ n \in Nat /\ 0 <= n /\ n <= Len(h) /\ n <= Len(t) /\ n - 0 = n
  BY <1>1, <1>2, <1>4
<1> HIDE DEF n
<1>6. /\ SubSeq(h, 0 + 1, n) \in Seq(X) /\ Len(SubSeq(h, 0 + 1, n)) = n - 0
      /\ \A i \in 1..(n - 0): SubSeq(h, 0 + 1, n)[i] = h[0 + i]
  BY <1>4, <1>5, PartIs
<1>7. /\ SubSeq(t, 0 + 1, n) \in Seq(X) /\ Len(SubSeq(t, 0 + 1, n)) = n - 0
      /\ \A i \in 1..(n - 0): SubSeq(t, 0 + 1, n)[i] = t[0 + i]
  BY <1>4, <1>5, PartIs
<1>8. SubSeq(h, 1, n) = SubSeq(t, 1, n)
  <2> DEFINE a == SubSeq(h, 1, n)
             b == SubSeq(t, 1, n)
  <2>1. a \in Seq(X) /\ b \in Seq(X) /\ Len(a) = n /\ Len(b) = n
    BY <1>5, <1>6, <1>7
  <2>2. ASSUME NEW i \in 1..n PROVE a[i] = b[i]
    <3>1. i \in 1..(n - 0) /\ 0 + i = i /\ i \in 1..Len(h) /\ i \in 1..Len(s)
      BY <1>1, <1>2, <1>4, <1>5 DEF n
    <3>2. a[i] = h[i] /\ b[i] = t[i]
      BY <1>6, <1>7, <3>1
    <3> QED
      BY <1>1, <1>4, <3>1, <3>2
  <2> HIDE DEF a, b
  <2>3. a = b
    BY <2>1, <2>2
  <2> QED
    BY <2>3 DEF a, b
<1>9. IsPrefix(h, t)
  BY <1>5, <1>8 DEF IsPrefix, n
<1> QED
  BY <1>9 DEF h, t, s

\* Whatever the connections, the scripts, the strays before the requests (as
\* long as none holds a subheader) and the cuts between the chunks: what
\* _consume_frames hands to handle_request is what was sent, whole, once and in
\* its order.
THEOREM RequestsHandledAsSent == ServerSpec => []HandledAsSent
<1> Parameters
  BY Mc3eAssumption
<1>1. FrameInv => HandledAsSent
  BY FramesInOrder
<1> QED
  BY <1>1, FrameInvariant, PTL

-----------------------------------------------------------------------------
(***************************************************************************)
(* The memory: what each access does to the lists, what all those of a     *)
(* request do, and that this is what PlcMemory says.                       *)
(***************************************************************************)
Device == {"D", "M"}
Cell == Device \X (0 .. Size - 1)

\* The members of a batch or a random access, with the values of words and of
\* the bits of a word.
Val == Nat \cup {Shape!Bits(w)[j] : w \in Nat, j \in 1..WordBits}
\* One access of a request, as the memory sees it.
SingleAccess == [device : Device, head : Nat, values : Seq(Val)]

\* Written, of any memory.
Over(store, cells, values) ==
  [x \in Cell |->
     LET at == {k \in DOMAIN cells : cells[k] = x}
     IN  IF at = {} THEN store[x]
         ELSE values[CHOOSE k \in at : \A j \in at : j <= k]]

\* The cells of one access, and a memory after it is written.
Hit(a, x) == x[1] = a.device /\ a.head <= x[2] /\ x[2] < a.head + Len(a.values)
After(store, a) ==
  [x \in Cell |-> IF Hit(a, x) THEN a.values[x[2] - a.head + 1] ELSE store[x]]

LEMMA Greatest ==
  ASSUME NEW n \in Nat, NEW T, T \subseteq 1..n, T # {}
  PROVE  \E k \in T: \A j \in T: j <= k
<1> DEFINE U == {n - k: k \in T}
<1>1. U \subseteq Nat /\ U # {}
  <2>1. \A k \in T: n - k \in Nat
    OBVIOUS
  <2> QED
    BY <2>1
<1>2. PICK m \in U: \A i \in U: m <= i
  BY <1>1, Least
<1>3. PICK k \in T: m = n - k
  BY <1>2
<1>4. ASSUME NEW j \in T PROVE j <= k
  <2>1. n - j \in U
    OBVIOUS
  <2>2. n - k <= n - j
    BY <1>2, <1>3, <2>1
  <2> QED
    BY <2>2
<1> QED
  BY <1>4

LEMMA AccessIs ==
  ASSUME NEW a \in SingleAccess
  PROVE  /\ a.device \in Device /\ a.head \in Nat /\ a.values \in Seq(Val)
         /\ Len(a.values) \in Nat
         /\ Shape!Run(a) \in Seq(Device \X Nat)
         /\ Len(Shape!Run(a)) = Len(a.values)
         /\ \A k \in 1..Len(a.values):
              Shape!Run(a)[k] = <<a.device, a.head + k - 1>>
<1> DEFINE v == a.values
           d == a.device
           h == a.head
<1>1. d \in Device /\ h \in Nat /\ v \in Seq(Val)
  BY DEF SingleAccess
<1>2. Shape!Run(a) = [k \in DOMAIN v |-> <<d, h + k - 1>>]
  BY DEF Shape!Run
<1> HIDE DEF v, d, h
<1>3. Len(v) \in Nat /\ DOMAIN v = 1..Len(v)
  BY <1>1
<1>4. \A k \in 1..Len(v): <<d, h + k - 1>> \in Device \X Nat
  BY <1>1, <1>3
<1> DEFINE X == Device \X Nat
           F(k) == <<d, h + k - 1>>
<1>5. \A k \in 1..Len(v): F(k) \in X
  BY <1>4
<1>6. Shape!Run(a) = [k \in 1..Len(v) |-> F(k)]
  BY <1>2, <1>3
<1> HIDE DEF X, F
<1>7. /\ Shape!Run(a) \in Seq(X) /\ Len(Shape!Run(a)) = Len(v)
      /\ \A k \in 1..Len(v): Shape!Run(a)[k] = F(k)
  BY <1>3, <1>5, <1>6
<1> QED
  BY <1>1, <1>3, <1>7 DEF X, F, v, d, h

\* Writing one more access after others: the later one wins.
\* The cells C2 with the values W2 are C with W, and then those of a.
LastWins(a, C, W, C2, W2) ==
  /\ C \in Seq(Device \X Nat) /\ W \in Seq(Val) /\ Len(C) = Len(W)
  /\ Concatenation(C2, C, Shape!Run(a), Device \X Nat)
  /\ Concatenation(W2, W, a.values, Val)

LEMMA OverMore ==
  ASSUME NEW store, NEW a \in SingleAccess, NEW C, NEW W, NEW C2, NEW W2,
         LastWins(a, C, W, C2, W2)
  PROVE  Over(store, C2, W2) = After(Over(store, C, W), a)
<1> DEFINE R == Shape!Run(a)
           n == Len(C)
           l == Len(a.values)
           v == a.values
           X == Device \X Nat
<1>1. /\ a.device \in Device /\ a.head \in Nat /\ l \in Nat /\ Len(R) = l
      /\ \A k \in 1..l: R[k] = <<a.device, a.head + k - 1>>
  BY AccessIs
<1>2. n \in Nat /\ Len(W) = n /\ DOMAIN C = 1..n
  <2>1. C \in Seq(X) /\ Len(C) = Len(W)
    BY DEF LastWins
  <2> HIDE DEF X
  <2> QED
    BY <2>1
<1>3. /\ Len(C2) = n + l /\ DOMAIN C2 = 1..(n + l)
      /\ \A i \in 1..n: C2[i] = C[i] /\ W2[i] = W[i]
      /\ \A i \in 1..l: C2[n + i] = R[i] /\ W2[n + i] = v[i]
  <2>1. /\ C2 \in Seq(X) /\ Len(C2) = n + l
        /\ \A i \in 1..n: C2[i] = C[i]
        /\ \A i \in 1..l: C2[n + i] = R[i]
    BY <1>1 DEF Concatenation, LastWins
  <2>2. /\ \A i \in 1..n: W2[i] = W[i]
        /\ \A i \in 1..l: W2[n + i] = v[i]
    BY <1>2 DEF Concatenation, LastWins
  <2> HIDE DEF X
  <2>3. DOMAIN C2 = 1..(n + l)
    BY <2>1
  <2> QED
    BY <2>1, <2>2, <2>3
<1> HIDE DEF R, n, l, v
<1> DEFINE At(x) == {k \in DOMAIN C: C[k] = x}
           At2(x) == {k \in DOMAIN C2: C2[k] = x}
           Latest(T) == CHOOSE k \in T: \A j \in T: j <= k
<1>4. ASSUME NEW x \in Cell, Hit(a, x)
      PROVE  /\ At2(x) # {}
             /\ W2[Latest(At2(x))] = a.values[x[2] - a.head + 1]
  <2> DEFINE i == x[2] - a.head + 1
  <2>1. x[2] \in Int /\ x = <<x[1], x[2]>>
    BY DEF Cell
  <2>2. i \in 1..l /\ a.head + i - 1 = x[2] /\ x[1] = a.device
    <3>1. a.head <= x[2] /\ x[2] < a.head + l /\ x[1] = a.device
      BY <1>4 DEF Hit, l
    <3> QED
      BY <1>1, <2>1, <3>1
  <2> HIDE DEF i
  <2>3. R[i] = x
    BY <1>1, <2>1, <2>2
  <2>4. n + i \in At2(x)
    <3>1. n + i \in 1..(n + l)
      BY <1>1, <1>2, <2>2
    <3>2. C2[n + i] = x
      BY <1>3, <2>2, <2>3
    <3> QED
      BY <1>3, <3>1, <3>2
  <2>5. ASSUME NEW k \in At2(x) PROVE k <= n + i
    <3>1. k \in 1..(n + l) /\ C2[k] = x
      BY <1>3
    <3>2. CASE k <= n
      BY <1>2, <2>2, <3>1, <3>2
    <3>3. CASE k > n
      <4>1. k - n \in 1..l /\ n + (k - n) = k
        BY <1>1, <1>2, <3>1, <3>3
      <4>2. C2[k] = R[k - n]
        BY <1>3, <4>1
      <4>3. x = <<a.device, a.head + (k - n) - 1>>
        BY <1>1, <3>1, <4>1, <4>2
      <4>4. x[2] = a.head + (k - n) - 1
        BY <4>3
      <4>5. k - n = i
        BY <1>1, <2>1, <2>2, <4>1, <4>4
      <4> QED
        BY <1>1, <1>2, <2>2, <3>1, <4>1, <4>5
    <3> QED
      BY <1>2, <3>1, <3>2, <3>3
  <2> DEFINE T == At2(x)
  <2>6. \A k \in T: k \in Nat
    BY <1>1, <1>2, <1>3
  <2>7. n + i \in T /\ \A k \in T: k <= n + i
    BY <2>4, <2>5
  <2> HIDE DEF T
  <2>8. Latest(T) = n + i
    BY <2>6, <2>7
  <2>9. W2[n + i] = v[i]
    BY <1>3, <2>2
  <2> QED
    BY <2>7, <2>8, <2>9 DEF T, v, i
<1>5. ASSUME NEW x \in Cell, ~Hit(a, x)
      PROVE  /\ At2(x) = At(x)
             /\ At(x) # {} => W2[Latest(At(x))] = W[Latest(At(x))]
  <2>1. x[2] \in Int
    BY DEF Cell
  <2>2. ASSUME NEW k \in 1..l PROVE C2[n + k] # x
    <3>1. C2[n + k] = <<a.device, a.head + k - 1>>
      BY <1>1, <1>3
    <3>2. ASSUME x = <<a.device, a.head + k - 1>> PROVE FALSE
      <4>1. x[1] = a.device /\ x[2] = a.head + k - 1
        BY <3>2
      <4>2. a.head <= x[2] /\ x[2] < a.head + Len(a.values)
        BY <1>1, <4>1 DEF l
      <4> QED
        BY <1>5, <4>1, <4>2 DEF Hit
    <3> QED
      BY <3>1, <3>2
  <2>3. At2(x) = At(x)
    <3>1. ASSUME NEW k \in At2(x) PROVE k \in At(x)
      <4>1. k \in 1..(n + l) /\ C2[k] = x
        BY <1>3
      <4>2. CASE k <= n
        <5>1. k \in 1..n
          BY <1>2, <4>1, <4>2
        <5> QED
          BY <1>2, <1>3, <4>1, <5>1
      <4>3. CASE k > n
        <5>1. k - n \in 1..l /\ n + (k - n) = k
          BY <1>1, <1>2, <4>1, <4>3
        <5> QED
          BY <2>2, <4>1, <5>1
      <4> QED
        BY <1>2, <4>1, <4>2, <4>3
    <3>2. ASSUME NEW k \in At(x) PROVE k \in At2(x)
      <4>1. k \in 1..n /\ C[k] = x
        BY <1>2
      <4>2. k \in 1..(n + l) /\ C2[k] = x
        BY <1>1, <1>2, <1>3, <4>1
      <4> QED
        BY <1>3, <4>2
    <3> QED
      BY <3>1, <3>2
  <2>4. ASSUME At(x) # {} PROVE W2[Latest(At(x))] = W[Latest(At(x))]
    <3> DEFINE T == At(x)
    <3>1. T \subseteq 1..n /\ T # {}
      BY <1>2, <2>4
    <3> HIDE DEF T
    <3>2. \E k \in T: \A j \in T: j <= k
      BY <1>2, <3>1, Greatest
    <3>3. Latest(T) \in T
      BY <3>2
    <3>4. Latest(T) \in 1..n
      BY <3>1, <3>3
    <3> HIDE DEF Latest
    <3>5. W2[Latest(T)] = W[Latest(T)]
      BY <1>3, <3>4
    <3> QED
      BY <3>5 DEF T
  <2> QED
    BY <2>3, <2>4
<1>6. ASSUME NEW x \in Cell
      PROVE  Over(store, C2, W2)[x] = After(Over(store, C, W), a)[x]
  <2>1. Over(store, C2, W2)[x] = IF At2(x) = {} THEN store[x] ELSE W2[Latest(At2(x))]
    BY DEF Over
  <2>2. Over(store, C, W)[x] = IF At(x) = {} THEN store[x] ELSE W[Latest(At(x))]
    BY DEF Over
  <2>3. After(Over(store, C, W), a)[x] =
           IF Hit(a, x) THEN a.values[x[2] - a.head + 1] ELSE Over(store, C, W)[x]
    BY DEF After
  <2> HIDE DEF At, At2, Latest
  <2>4. CASE Hit(a, x)
    BY <1>4, <2>1, <2>3, <2>4
  <2>5. CASE ~Hit(a, x)
    BY <1>5, <2>1, <2>2, <2>3, <2>5
  <2> QED
    BY <2>4, <2>5
<1>7. /\ Over(store, C2, W2) = [x \in Cell |-> Over(store, C2, W2)[x]]
      /\ After(Over(store, C, W), a) = [x \in Cell |-> After(Over(store, C, W), a)[x]]
  BY DEF Over, After
<1> QED
  BY <1>6, <1>7

LEMMA RequestIs ==
  ASSUME Parameters, NEW r \in Request
  PROVE  /\ r.op \in {"read", "write"} /\ r.complete \in BOOLEAN
         /\ r.entries \in Seq(Entry)
BY DEF Parameters

LEMMA AccessesAre ==
  ASSUME Parameters, NEW e \in Entry, NEW unit
  PROVE  Shape!Accesses(e, unit) \in Seq(SingleAccess)
<1> DEFINE v == e.values
<1>1. e.device \in Device /\ e.head \in Nat /\ v \in Seq(Nat)
  BY DEF Entry, Device
<1> DEFINE N == Nat
<1>2. v \in Seq(N) /\ N \subseteq Val
  BY <1>1 DEF Val
<1>3. Len(v) \in Nat /\ DOMAIN v = 1..Len(v) /\ \A k \in 1..Len(v): v[k] \in Nat
  BY <1>1
<1>4. WordBits \in Nat
  BY DEF Parameters
<1>5. e \in SingleAccess
  <2> HIDE DEF v, N
  <2>1. v \in Seq(Val)
    BY <1>2, LargerSeq
  <2> HIDE DEF Device
  <2> DEFINE V == Seq(Val)
  <2>2. v \in V
    BY <2>1
  <2> HIDE DEF V
  <2>3. e.values \in V
    BY <2>2 DEF v
  <2>4. e \in [device : {"D", "M"}, head : Nat, values : Seq(Nat)]
    BY DEF Entry
  <2> DEFINE W == Seq(Nat)
  <2>5. e \in [device : {"D", "M"}, head : Nat, values : W]
    BY <2>4
  <2> HIDE DEF W
  <2>6. e = [device |-> e.device, head |-> e.head, values |-> e.values]
    BY <2>5
  <2>7. e \in [device : Device, head : Nat, values : V]
    BY <1>1, <2>3, <2>6
  <2> QED
    BY <2>7 DEF SingleAccess, V
<1>6. ASSUME NEW k \in 1..Len(v)
      PROVE  [device |-> "M", head |-> e.head + (k - 1) * WordBits,
              values |-> Shape!Bits(v[k])] \in SingleAccess
  <2> DEFINE w == v[k]
             b == Shape!Bits(w)
  <2>1. w \in Nat
    BY <1>3
  <2> HIDE DEF w
  <2>2. \A j \in 1..WordBits: b[j] \in Val
    BY <2>1 DEF Val
  <2>3. b = [j \in 1..WordBits |-> b[j]]
    BY DEF Shape!Bits
  <2> HIDE DEF b
  <2>4. b \in Seq(Val)
    BY <1>4, <2>2, <2>3
  <2>5. k - 1 \in Nat
    BY <1>3
  <2>6. (k - 1) * WordBits \in Nat
    BY <1>4, <2>5
  <2> DEFINE m == (k - 1) * WordBits
  <2> HIDE DEF m
  <2>7. e.head + m \in Nat
    BY <1>1, <2>6 DEF m
  <2> DEFINE V == Seq(Val)
             h == e.head + m
  <2>8. b \in V /\ h \in Nat /\ "M" \in Device
    BY <2>4, <2>7 DEF Device
  <2> HIDE DEF V, h
  <2>9. [device |-> "M", head |-> h, values |-> b] \in [device : Device, head : Nat, values : V]
    BY <2>8
  <2> QED
    BY <2>9 DEF SingleAccess, V, h, m, b, w
<1>7. <<e>> \in Seq(SingleAccess)
  <2> HIDE DEF SingleAccess
  <2> QED
    BY <1>5
<1> DEFINE F(k) == [device |-> "M", head |-> e.head + (k - 1) * WordBits,
                    values |-> Shape!Bits(v[k])]
<1>8. [k \in 1..Len(v) |-> F(k)] \in Seq(SingleAccess)
  <2>1. \A k \in 1..Len(v): F(k) \in SingleAccess
    BY <1>6
  <2> HIDE DEF F, SingleAccess
  <2> QED
    BY <1>3, <2>1
<1>9. Shape!Accesses(e, unit) = <<e>>
        \/ Shape!Accesses(e, unit) = [k \in 1..Len(v) |-> F(k)]
  BY <1>3 DEF Shape!Accesses
<1> QED
  BY <1>7, <1>8, <1>9

LEMMA PlanIs ==
  ASSUME Parameters, NEW r \in Request
  PROVE  Shape!Plan[r] \in Seq(SingleAccess)
<1> DEFINE E == r.entries
           p == [k \in DOMAIN E |-> Shape!Accesses(E[k], r.unit)]
<1>1. E \in Seq(Entry)
  BY RequestIs
<1>2. Shape!Plan[r] = Joined(p)
  BY DEF Shape!Plan, Shape!FlattenSeq, Joined
<1> HIDE DEF E
<1>3. Len(E) \in Nat /\ DOMAIN E = 1..Len(E) /\ \A k \in 1..Len(E): E[k] \in Entry
  BY <1>1
<1>4. \A k \in 1..Len(E): Shape!Accesses(E[k], r.unit) \in Seq(SingleAccess)
  BY <1>3, AccessesAre
<1> DEFINE F(k) == Shape!Accesses(E[k], r.unit)
           X == Seq(SingleAccess)
<1>5. p = [k \in 1..Len(E) |-> F(k)] /\ \A k \in 1..Len(E): F(k) \in X
  BY <1>3, <1>4
<1> HIDE DEF p, F, X
<1>6. p \in Seq(X) /\ Len(p) = Len(E) /\ Len(p) \in 0..Len(p)
  BY <1>3, <1>5
<1>7. p \in Pieces(SingleAccess) /\ First(p, Len(p)) = p
  <2>1. p \in Pieces(SingleAccess)
    BY <1>6 DEF Pieces, X
  <2>2. First(p, Len(p)) = p
    BY <1>3, <1>5, <1>6 DEF First
  <2> QED
    BY <2>1, <2>2
<1>8. Joined(First(p, Len(p))) \in Seq(SingleAccess)
  BY <1>6, <1>7, JoinedSeq
<1> QED
  BY <1>2, <1>7, <1>8

\* The cells and the values of the first n accesses, one access after another.
LEMMA CellsAre ==
  ASSUME NEW p \in Seq(SingleAccess)
  PROVE  /\ Memory!Cells(p, 0) = <<>> /\ Memory!Values(p, 0) = <<>>
         /\ \A n \in 0..Len(p): /\ Memory!Cells(p, n) \in Seq(Device \X Nat)
                                /\ Memory!Values(p, n) \in Seq(Val)
         /\ \A n \in 1..Len(p):
              /\ Concatenation(Memory!Cells(p, n), Memory!Cells(p, n - 1),
                               Shape!Run(p[n]), Device \X Nat)
              /\ Concatenation(Memory!Values(p, n), Memory!Values(p, n - 1),
                               p[n].values, Val)
<1> DEFINE N == Len(p)
           R == [k \in 1..N |-> Shape!Run(p[k])]
           V == [k \in 1..N |-> p[k].values]
           X == Seq(Device \X Nat)
           Y == Seq(Val)
<1>1. N \in Nat /\ \A k \in 1..N: p[k] \in SingleAccess
  <2> HIDE DEF SingleAccess
  <2> QED
    OBVIOUS
<1>2. \A k \in 1..N: Shape!Run(p[k]) \in X /\ p[k].values \in Y
  BY <1>1, AccessIs
<1>3. /\ \A n \in 0..N: Memory!Cells(p, n) = Joined([k \in 1..n |-> Shape!Run(p[k])])
      /\ \A n \in 0..N: Memory!Values(p, n) = Joined([k \in 1..n |-> p[k].values])
  BY DEF Memory!Cells, Memory!Values, Memory!FlattenSeq, Joined,
         Memory!Run, Shape!Run
<1> HIDE DEF N, X, Y
<1>4. ASSUME NEW n \in 0..N
      PROVE  /\ First(R, n) = [k \in 1..n |-> Shape!Run(p[k])]
             /\ First(V, n) = [k \in 1..n |-> p[k].values]
  <2>1. \A k \in 1..n: k \in 1..N
    BY <1>1
  <2> QED
    BY <2>1 DEF First
<1>5. R \in Seq(X) /\ Len(R) = N /\ V \in Seq(Y) /\ Len(V) = N
  BY <1>1, <1>2
<1>6. /\ R \in Pieces(Device \X Nat) /\ V \in Pieces(Val)
      /\ Len(R) = N /\ Len(V) = N
      /\ \A n \in 1..N: R[n] = Shape!Run(p[n]) /\ V[n] = p[n].values
  BY <1>5 DEF Pieces, X, Y
<1> HIDE DEF R, V
<1>7. \A n \in 0..N: /\ Memory!Cells(p, n) = Joined(First(R, n))
                     /\ Memory!Values(p, n) = Joined(First(V, n))
  BY <1>3, <1>4
<1>8. /\ Memory!Cells(p, 0) = <<>> /\ Memory!Values(p, 0) = <<>>
  BY <1>1, <1>7, JoinedNone
<1>9. ASSUME NEW n \in 0..N PROVE Joined(First(R, n)) \in X /\ Joined(First(V, n)) \in Y
  BY <1>6, JoinedSeq DEF X, Y
<1>10. ASSUME NEW n \in 1..N
       PROVE  /\ Concatenation(Joined(First(R, n)), Joined(First(R, n - 1)), Shape!Run(p[n]),
                               Device \X Nat)
              /\ Concatenation(Joined(First(V, n)), Joined(First(V, n - 1)), p[n].values, Val)
  <2>1. n - 1 \in 0..N
    BY <1>1
  <2>2. Joined(First(R, n)) = Joined(First(R, n - 1)) \o R[n]
    BY <1>6, JoinedOneMore
  <2>3. Joined(First(V, n)) = Joined(First(V, n - 1)) \o V[n]
    BY <1>6, JoinedOneMore
  <2>4. R[n] \in X /\ V[n] \in Y
    BY <1>2, <1>6
  <2>5. Concatenation(Joined(First(R, n - 1)) \o R[n], Joined(First(R, n - 1)), R[n], Device \X Nat)
    BY <1>9, <2>1, <2>4, Concat DEF X
  <2>6. Concatenation(Joined(First(V, n - 1)) \o V[n], Joined(First(V, n - 1)), V[n], Val)
    BY <1>9, <2>1, <2>4, Concat DEF Y
  <2> QED
    BY <1>6, <2>2, <2>3, <2>5, <2>6
<1>11. \A n \in 1..N: n \in 0..N /\ n - 1 \in 0..N
  BY <1>1
<1>12. ASSUME NEW n \in 1..N
       PROVE  /\ Concatenation(Memory!Cells(p, n), Memory!Cells(p, n - 1),
                               Shape!Run(p[n]), Device \X Nat)
              /\ Concatenation(Memory!Values(p, n), Memory!Values(p, n - 1),
                               p[n].values, Val)
  BY <1>7, <1>10, <1>11
<1>13. \A n \in 0..N: /\ Memory!Cells(p, n) \in X
                      /\ Memory!Values(p, n) \in Y
  BY <1>7, <1>9
<1> QED
  BY <1>8, <1>12, <1>13 DEF N, X, Y
-----------------------------------------------------------------------------

\* What the lists and the state of a request under way may be.
Areas == {m \in [Device -> Seq(Val)] :
             \A d \in Device : Len(m[d]) \in InitialSize .. Size}
State == [mem : Areas, ok : BOOLEAN, data : Seq(Val)]

\* Store, of any areas.
StoreOf(m) ==
  [x \in Cell |-> IF x[2] < Len(m[x[1]]) THEN m[x[1]][x[2] + 1] ELSE 0]

LEMMA AreasAre ==
  ASSUME Parameters, NEW m \in Areas
  PROVE  /\ DOMAIN m = Device /\ Size \in Nat /\ InitialSize \in Nat
         /\ \A d \in Device: /\ m[d] \in Seq(Val) /\ Len(m[d]) \in Nat
                             /\ InitialSize <= Len(m[d]) /\ Len(m[d]) <= Size
<1>1. Size \in Nat /\ InitialSize \in Nat
  BY DEF Parameters
<1> DEFINE X == Seq(Val)
<1>2. m \in [Device -> X] /\ \A d \in Device: Len(m[d]) \in InitialSize .. Size
  BY DEF Areas
<1> HIDE DEF X
<1>3. DOMAIN m = Device /\ \A d \in Device: m[d] \in X
  BY <1>2
<1> QED
  BY <1>1, <1>2, <1>3 DEF X

\* One area replaced by a list.
Replaces(after, m, d, list) ==
  /\ after \in Areas
  /\ \A x \in Cell: StoreOf(after)[x] =
       IF x[1] = d THEN IF x[2] < Len(list) THEN list[x[2] + 1] ELSE 0
       ELSE StoreOf(m)[x]

LEMMA AreaReplaced ==
  ASSUME Parameters, NEW m \in Areas, NEW d \in Device, NEW list \in Seq(Val),
         Len(list) \in InitialSize .. Size
  PROVE  Replaces([m EXCEPT ![d] = list], m, d, list)
<1> DEFINE after == [m EXCEPT ![d] = list]
           X == Seq(Val)
<1>1. m \in [Device -> X] /\ list \in X /\ \A e \in Device: Len(m[e]) \in InitialSize .. Size
  BY DEF Areas
<1> HIDE DEF X
<1>2. after \in [Device -> X] /\ after[d] = list
      /\ \A e \in Device: e # d => after[e] = m[e]
  BY <1>1
<1> HIDE DEF after
<1>3. \A e \in Device: Len(after[e]) \in InitialSize .. Size
  BY <1>1, <1>2
<1>4. after \in Areas
  BY <1>2, <1>3 DEF Areas, X
<1>5. ASSUME NEW x \in Cell
      PROVE  StoreOf(after)[x] =
               IF x[1] = d THEN IF x[2] < Len(list) THEN list[x[2] + 1] ELSE 0
               ELSE StoreOf(m)[x]
  <2>1. x[1] \in Device
    BY DEF Cell
  <2>2. CASE x[1] = d
    BY <1>2, <2>2 DEF StoreOf
  <2>3. CASE x[1] # d
    BY <1>2, <2>1, <2>3 DEF StoreOf
  <2> QED
    BY <2>2, <2>3
<1> QED
  BY <1>4, <1>5 DEF after, Replaces

LEMMA ExtendedIs ==
  ASSUME NEW list \in Seq(Val), NEW need \in Nat
  PROVE  LET new == Extended(list, need) IN
         /\ new \in Seq(Val) /\ Len(new) \in Nat
         /\ Len(new) = IF need <= Len(list) THEN Len(list) ELSE need
         /\ \A i \in 1..Len(list): new[i] = list[i]
         /\ \A i \in (Len(list) + 1)..Len(new): new[i] = 0
<1>1. Len(list) \in Nat
  OBVIOUS
<1>2. CASE need <= Len(list)
  <2>1. Extended(list, need) = list
    BY <1>2 DEF Extended
  <2>2. \A i \in (Len(list) + 1)..Len(list): FALSE
    BY <1>1
  <2> QED
    BY <1>1, <1>2, <2>1, <2>2
<1>3. CASE ~(need <= Len(list))
  <2> DEFINE n == need - Len(list)
             zeros == [k \in 1 .. n |-> 0]
             new == Extended(list, need)
  <2>1. new = list \o zeros
    BY <1>3 DEF Extended
  <2>2. n \in Nat /\ need = Len(list) + n
    BY <1>1, <1>3
  <2>3. zeros \in Seq(Val) /\ Len(zeros) = n /\ \A k \in 1..n: zeros[k] = 0
    <3>1. 0 \in Val
      BY DEF Val
    <3> HIDE DEF n
    <3> QED
      BY <2>2, <3>1
  <2> HIDE DEF zeros, new, n
  <2>4. Concatenation(new, list, zeros, Val)
    BY <2>1, <2>3, Concat
  <2>5. ASSUME NEW i \in (Len(list) + 1)..Len(new) PROVE new[i] = 0
    <3>1. i - Len(list) \in 1..n /\ Len(list) + (i - Len(list)) = i
      BY <1>1, <2>2, <2>3, <2>4 DEF Concatenation
    <3>2. new[Len(list) + (i - Len(list))] = zeros[i - Len(list)]
      BY <2>3, <2>4, <3>1 DEF Concatenation
    <3> QED
      BY <2>3, <3>1, <3>2
  <2>6. new \in Seq(Val) /\ Len(new) = need /\ \A i \in 1..Len(list): new[i] = list[i]
    BY <2>2, <2>3, <2>4 DEF Concatenation
  <2> QED
    BY <1>3, <2>5, <2>6 DEF new
<1> QED
  BY <1>2, <1>3

\* Growing an area does not show.
Grown(list, m, d, need) ==
  /\ list \in Seq(Val) /\ Len(list) \in InitialSize .. Size /\ need <= Len(list)
  /\ [m EXCEPT ![d] = list] \in Areas /\ StoreOf([m EXCEPT ![d] = list]) = StoreOf(m)
  /\ \A i \in 0 .. (Len(list) - 1): list[i + 1] = StoreOf(m)[<<d, i>>]

LEMMA GrowthHidden ==
  ASSUME Parameters, NEW m \in Areas, NEW d \in Device, NEW need \in Nat, need <= Size
  PROVE  Grown(Extended(m[d], need), m, d, need)
<1> DEFINE l == m[d]
           list == Extended(l, need)
           after == [m EXCEPT ![d] = list]
<1>1. /\ l \in Seq(Val) /\ Len(l) \in Nat /\ InitialSize <= Len(l) /\ Len(l) <= Size
      /\ Size \in Nat /\ InitialSize \in Nat
  BY AreasAre
<1> DEFINE l2 == l
<1>2. /\ list \in Seq(Val) /\ Len(list) \in Nat
      /\ Len(list) = IF need <= Len(l) THEN Len(l) ELSE need
      /\ \A i \in 1..Len(l): list[i] = l[i]
      /\ \A i \in (Len(l) + 1)..Len(list): list[i] = 0
  <2> HIDE DEF l
  <2> QED
    BY <1>1, ExtendedIs
<1>3. Len(list) \in InitialSize .. Size /\ need <= Len(list) /\ Len(l) <= Len(list)
  BY <1>1, <1>2
<1> HIDE DEF list
<1>4. /\ after \in Areas
      /\ \A x \in Cell: StoreOf(after)[x] =
           IF x[1] = d THEN IF x[2] < Len(list) THEN list[x[2] + 1] ELSE 0
           ELSE StoreOf(m)[x]
  <2>1. Replaces(after, m, d, list)
    BY <1>2, <1>3, AreaReplaced
  <2> QED
    BY <2>1 DEF Replaces
<1> HIDE DEF after
<1>5. ASSUME NEW i \in Nat
      PROVE  (IF i < Len(list) THEN list[i + 1] ELSE 0) = IF i < Len(l) THEN l[i + 1] ELSE 0
  <2> HIDE DEF l
  <2>1. CASE i < Len(l)
    <3>1. i + 1 \in 1..Len(l) /\ i < Len(list)
      BY <1>1, <1>2, <1>3, <2>1
    <3> QED
      BY <1>2, <2>1, <3>1
  <2>2. CASE ~(i < Len(l)) /\ i < Len(list)
    <3>1. i + 1 \in (Len(l) + 1)..Len(list)
      BY <1>1, <1>2, <2>2
    <3> QED
      BY <1>2, <2>2, <3>1
  <2>3. CASE ~(i < Len(l)) /\ ~(i < Len(list))
    BY <2>3
  <2> QED
    BY <2>1, <2>2, <2>3
<1>6. ASSUME NEW x \in Cell PROVE StoreOf(after)[x] = StoreOf(m)[x]
  <2>1. x[1] \in Device /\ x[2] \in Nat
    BY <1>1 DEF Cell
  <2>2. CASE x[1] = d
    <3>1. StoreOf(m)[x] = IF x[2] < Len(l) THEN l[x[2] + 1] ELSE 0
      BY <2>2 DEF StoreOf
    <3>2. StoreOf(after)[x] = IF x[2] < Len(list) THEN list[x[2] + 1] ELSE 0
      BY <1>4, <2>2
    <3> HIDE DEF l
    <3> QED
      BY <1>5, <2>1, <3>1, <3>2
  <2>3. CASE x[1] # d
    BY <1>4, <2>3
  <2> QED
    BY <2>2, <2>3
<1>7. StoreOf(after) = StoreOf(m)
  <2>1. /\ StoreOf(after) = [x \in Cell |-> StoreOf(after)[x]]
        /\ StoreOf(m) = [x \in Cell |-> StoreOf(m)[x]]
    BY DEF StoreOf
  <2> QED
    BY <1>6, <2>1
<1>8. ASSUME NEW i \in 0 .. (Len(list) - 1) PROVE list[i + 1] = StoreOf(m)[<<d, i>>]
  <2>1. i \in Nat /\ i < Len(list) /\ i \in 0 .. (Size - 1)
    BY <1>1, <1>2, <1>3
  <2>2. <<d, i>> \in Cell
    BY <2>1 DEF Cell
  <2>3. StoreOf(m)[<<d, i>>] = IF i < Len(l) THEN l[i + 1] ELSE 0
    BY <2>2 DEF StoreOf
  <2> HIDE DEF l
  <2> QED
    BY <1>5, <2>1, <2>3
<1> QED
  BY <1>2, <1>3, <1>4, <1>7, <1>8 DEF after, list, Grown

\* What one access makes of a state that has not failed.
Read(store, a) == [k \in 1 .. Len(a.values) |-> store[<<a.device, a.head + k - 1>>]]

\* y is what the access a makes of x.
Does(op, x, a, y) ==
  /\ y \in State
  /\ y.ok <=> a.head + Len(a.values) <= Size
  /\ ~y.ok => StoreOf(y.mem) = StoreOf(x.mem) /\ y.data = x.data
  /\ y.ok /\ op = "read" =>
       /\ StoreOf(y.mem) = StoreOf(x.mem)
       /\ Read(StoreOf(x.mem), a) \in Seq(Val)
       /\ y.data = x.data \o Read(StoreOf(x.mem), a)
  /\ y.ok /\ op # "read" =>
       StoreOf(y.mem) = After(StoreOf(x.mem), a) /\ y.data = x.data

LEMMA StateIs ==
  ASSUME NEW x \in State
  PROVE  x.mem \in Areas /\ x.ok \in BOOLEAN /\ x.data \in Seq(Val)
<1> DEFINE X == Seq(Val)
<1>1. x \in [mem : Areas, ok : BOOLEAN, data : X]
  BY DEF State
<1> HIDE DEF X
<1>2. x.mem \in Areas /\ x.ok \in BOOLEAN /\ x.data \in X
  BY <1>1
<1> QED
  BY <1>2 DEF X

LEMMA StateMade ==
  ASSUME NEW m \in Areas, NEW ok \in BOOLEAN, NEW data, data \in Seq(Val)
  PROVE  [mem |-> m, ok |-> ok, data |-> data] \in State
<1> DEFINE X == Seq(Val)
<1>1. data \in X
  OBVIOUS
<1> HIDE DEF X
<1>2. [mem |-> m, ok |-> ok, data |-> data] \in [mem : Areas, ok : BOOLEAN, data : X]
  BY <1>1
<1> QED
  BY <1>2 DEF State, X

LEMMA FailedStays ==
  ASSUME NEW op, NEW x, ~x.ok, NEW a
  PROVE  Access(op, x, a) = x
BY DEF Access

LEMMA AccessDoes ==
  ASSUME Parameters, NEW op, NEW x \in State, x.ok, NEW a \in SingleAccess
  PROVE  Does(op, x, a, Access(op, x, a))
<1> DEFINE y == Access(op, x, a)
           m == x.mem
           d == a.device
           v == a.values
           h == a.head
           need == h + Len(v)
           list == Extended(m[d], need)
           data == x.data
<1>1. m \in Areas /\ data \in Seq(Val) /\ x = [mem |-> m, ok |-> TRUE, data |-> data]
  <2>1. x.mem \in Areas /\ x.data \in Seq(Val)
    BY StateIs
  <2>2. x = [mem |-> x.mem, ok |-> x.ok, data |-> x.data]
    BY DEF State
  <2>3. x.ok = TRUE
    BY StateIs
  <2> QED
    BY <2>1, <2>2, <2>3
<1>2. d \in Device /\ h \in Nat /\ v \in Seq(Val) /\ Len(v) \in Nat
  BY AccessIs
<1>3. need \in Nat /\ Size \in Nat
  BY <1>2 DEF Parameters
<1>4. CASE ~(need <= Size)
  <2>1. y = [x EXCEPT !.ok = FALSE]
    BY <1>4 DEF Access, InRange
  <2> HIDE DEF y, m, data
  <2>2. y = [mem |-> m, ok |-> FALSE, data |-> data]
    BY <1>1, <2>1
  <2>3. y \in State
    BY <1>1, <2>2, StateMade
  <2>4. y.mem = m /\ y.ok = FALSE /\ y.data = data
    BY <2>2
  <2> QED
    BY <1>4, <2>3, <2>4 DEF Does, need, m, data, y
<1>5. CASE need <= Size
  <2>1. Grown(list, m, d, need)
    BY <1>1, <1>2, <1>3, <1>5, GrowthHidden
  <2> DEFINE grown == [m EXCEPT ![d] = list]
  <2>2. /\ list \in Seq(Val) /\ Len(list) \in Nat /\ Len(list) \in InitialSize .. Size
        /\ need <= Len(list)
        /\ grown \in Areas /\ StoreOf(grown) = StoreOf(m)
        /\ \A i \in 0 .. (Len(list) - 1): list[i + 1] = StoreOf(m)[<<d, i>>]
    <3> HIDE DEF list, m
    <3>1. list \in Seq(Val)
      BY <2>1 DEF Grown
    <3>2. Len(list) \in Nat
      BY <3>1
    <3> QED
      BY <2>1, <3>1, <3>2 DEF Grown
  <2>3. CASE op = "read"
    <3> DEFINE part == SubSeq(list, h + 1, need)
    <3>1. y = [x EXCEPT !.mem[d] = list, !.data = data \o part]
      BY <1>5, <2>3 DEF Access, InRange
    <3>2. /\ part \in Seq(Val) /\ Len(part) = need - h
          /\ \A i \in 1..(need - h): part[i] = list[h + i]
      <4>1. h <= need
        BY <1>2
      <4> HIDE DEF list, need, h
      <4> QED
        BY <1>2, <1>3, <2>2, <4>1, PartIs
    <3> HIDE DEF list, m, y, part, data
    <3>3. y = [mem |-> grown, ok |-> TRUE, data |-> data \o part]
      BY <1>1, <3>1
    <3> HIDE DEF grown
    <3>4. Concatenation(data \o part, data, part, Val)
      BY <1>1, <3>2, Concat
    <3>5. y \in State
      <4> DEFINE all == data \o part
      <4>1. all \in Seq(Val)
        BY <3>4 DEF Concatenation
      <4> HIDE DEF all
      <4>2. [mem |-> grown, ok |-> TRUE, data |-> all] \in State
        BY <2>2, <4>1, StateMade
      <4> QED
        BY <3>3, <4>2 DEF all
    <3>6. y.mem = grown /\ y.ok = TRUE /\ y.data = data \o part
      BY <3>3
    <3>7. part = Read(StoreOf(m), a)
      <4>1. need - h = Len(v)
        BY <1>2
      <4>2. ASSUME NEW k \in 1 .. Len(v) PROVE part[k] = StoreOf(m)[<<d, h + k - 1>>]
        <5>1. h + k - 1 \in 0 .. (Len(list) - 1) /\ (h + k - 1) + 1 = h + k /\ k \in 1..(need - h)
          BY <1>2, <2>2, <4>1
        <5> QED
          BY <2>2, <3>2, <5>1
      <4>3. part = [k \in 1 .. Len(v) |-> part[k]]
        BY <1>2, <3>2, <4>1
      <4> HIDE DEF need
      <4>4. part = [k \in 1 .. Len(v) |-> StoreOf(m)[<<d, h + k - 1>>]]
        BY <4>2, <4>3
      <4> QED
        BY <4>4 DEF Read, v, d, h
    <3> QED
      BY <1>5, <2>2, <2>3, <3>2, <3>5, <3>6, <3>7 DEF Does, need, m, data, y, h, v
  <2>4. CASE op # "read"
    <3> DEFINE Mine(k) == h < k /\ k <= need
               new == [k \in DOMAIN list |-> IF Mine(k) THEN v[k - h] ELSE list[k]]
               after == [m EXCEPT ![d] = new]
    <3>1. y = [x EXCEPT !.mem[d] = new]
      BY <1>5, <2>4 DEF Access, InRange
    <3> HIDE DEF list
    <3>2. ASSUME NEW k \in 1 .. Len(list) PROVE (IF Mine(k) THEN v[k - h] ELSE list[k]) \in Val
      <4>1. list[k] \in Val
        BY <2>2
      <4>2. ASSUME Mine(k) PROVE v[k - h] \in Val
        <5>1. k - h \in 1 .. Len(v)
          BY <1>2, <2>2, <4>2
        <5> QED
          BY <1>2, <5>1
      <4> QED
        BY <4>1, <4>2
    <3>3. DOMAIN list = 1 .. Len(list)
      BY <2>2
    <3>4. /\ new \in Seq(Val) /\ Len(new) = Len(list)
          /\ \A k \in 1 .. Len(list): new[k] = IF Mine(k) THEN v[k - h] ELSE list[k]
      <4> DEFINE G(k) == IF Mine(k) THEN v[k - h] ELSE list[k]
      <4>1. new = [k \in 1 .. Len(list) |-> G(k)] /\ \A k \in 1 .. Len(list): G(k) \in Val
        BY <3>2, <3>3
      <4> HIDE DEF G, new
      <4>2. /\ new \in Seq(Val) /\ Len(new) = Len(list)
            /\ \A k \in 1 .. Len(list): new[k] = G(k)
        BY <2>2, <4>1
      <4> QED
        BY <4>2 DEF G
    <3> HIDE DEF new
    <3>5. Replaces(after, m, d, new)
      <4>1. Len(new) \in InitialSize .. Size
        BY <2>2, <3>4
      <4> HIDE DEF m, d
      <4> QED
        BY <1>1, <1>2, <3>4, <4>1, AreaReplaced
    <3> HIDE DEF y, m, data
    <3>6. y = [mem |-> after, ok |-> TRUE, data |-> data]
      BY <1>1, <3>1
    <3> HIDE DEF after
    <3>7. after \in Areas
      BY <3>5 DEF Replaces
    <3>8. y \in State
      BY <1>1, <3>6, <3>7, StateMade
    <3>9. y.mem = after /\ y.ok = TRUE /\ y.data = data
      BY <3>6
    <3>10. ASSUME NEW z \in Cell PROVE StoreOf(after)[z] = After(StoreOf(m), a)[z]
      <4> DEFINE i == z[2]
      <4>1. z[1] \in Device /\ i \in Nat /\ i < Size /\ z = <<z[1], i>>
        BY <1>3 DEF Cell
      <4>2. Hit(a, z) <=> z[1] = d /\ h <= i /\ i < need
        BY DEF Hit, d, h, v, need
      <4>3. After(StoreOf(m), a)[z] = IF Hit(a, z) THEN v[i - h + 1] ELSE StoreOf(m)[z]
        BY DEF After, v, h
      <4>4. StoreOf(after)[z] = IF z[1] = d THEN IF i < Len(list) THEN new[i + 1] ELSE 0
                                ELSE StoreOf(m)[z]
        BY <3>4, <3>5 DEF Replaces
      <4>5. StoreOf(m)[z] = StoreOf(grown)[z]
        BY <2>2
      <4>6. ASSUME z[1] = d
            PROVE  StoreOf(m)[z] = IF i < Len(list) THEN list[i + 1] ELSE 0
        <5>1. CASE i < Len(list)
          <6>1. i \in 0 .. (Len(list) - 1)
            BY <2>2, <4>1, <5>1
          <6>2. list[i + 1] = StoreOf(m)[<<d, i>>]
            BY <2>2, <6>1
          <6> QED
            BY <4>1, <4>6, <5>1, <6>2
        <5>2. CASE ~(i < Len(list))
          <6>1. Replaces(grown, m, d, list)
            <7> HIDE DEF d
            <7> QED
              BY <1>1, <1>2, <2>2, AreaReplaced DEF m
          <6>2. StoreOf(grown)[z] = 0
            BY <4>6, <5>2, <6>1 DEF Replaces
          <6> QED
            BY <4>5, <5>2, <6>2
        <5> QED
          BY <5>1, <5>2
      <4> HIDE DEF i, d, h, v
      <4>7. CASE Hit(a, z)
        <5>1. z[1] = d /\ h <= i /\ i < need
          BY <4>2, <4>7
        <5>2. i + 1 \in 1 .. Len(list) /\ Mine(i + 1) /\ i < Len(list)
              /\ (i + 1) - h = i - h + 1
          BY <1>2, <1>3, <2>2, <4>1, <5>1
        <5>3. new[i + 1] = v[(i + 1) - h]
          BY <3>4, <5>2
        <5> QED
          BY <4>3, <4>4, <4>7, <5>1, <5>2, <5>3
      <4>8. CASE ~Hit(a, z) /\ z[1] = d
        <5>1. CASE i < Len(list)
          <6>1. i + 1 \in 1 .. Len(list) /\ ~Mine(i + 1)
            BY <1>2, <1>3, <2>2, <4>1, <4>2, <4>8, <5>1
          <6>2. new[i + 1] = list[i + 1]
            BY <3>4, <6>1
          <6> QED
            BY <4>3, <4>4, <4>6, <4>8, <5>1, <6>2
        <5>2. CASE ~(i < Len(list))
          BY <4>3, <4>4, <4>6, <4>8, <5>2
        <5> QED
          BY <5>1, <5>2
      <4>9. CASE ~Hit(a, z) /\ z[1] # d
        BY <4>3, <4>4, <4>9
      <4> QED
        BY <4>7, <4>8, <4>9
    <3>11. StoreOf(after) = After(StoreOf(m), a)
      <4>1. /\ StoreOf(after) = [z \in Cell |-> StoreOf(after)[z]]
            /\ After(StoreOf(m), a) = [z \in Cell |-> After(StoreOf(m), a)[z]]
        BY DEF StoreOf, After
      <4> QED
        BY <3>10, <4>1
    <3> QED
      BY <1>5, <2>4, <3>8, <3>9, <3>11 DEF Does, need, m, data, y, h, v
  <2> QED
    BY <2>3, <2>4
<1> QED
  BY <1>4, <1>5

\* A recursive definition over 0..N has a solution.
Iterates(f, V, N, b, step) ==
  /\ f \in [0..N -> V] /\ f[0] = b
  /\ \A i \in 1..N: f[i] = step[i][f[i - 1]]

LEMMA Iterated ==
  ASSUME NEW V, NEW N \in Nat, NEW b \in V, NEW step \in [1..N -> [V -> V]]
  PROVE  \E f: Iterates(f, V, N, b, step)
<1> DEFINE Good(f, n) == f[0] = b /\ \A i \in 1..n: f[i] = step[i][f[i - 1]]
           T == {n \in Nat: n <= N => \E f \in [0..n -> V]: Good(f, n)}
<1>1. 0 \in T
  <2>1. [i \in 0..0 |-> b] \in [0..0 -> V] /\ Good([i \in 0..0 |-> b], 0)
    OBVIOUS
  <2> QED
    BY <2>1
<1>2. ASSUME NEW n \in Nat, n \in T PROVE n + 1 \in T
  <2> SUFFICES ASSUME n + 1 <= N PROVE \E f \in [0..(n + 1) -> V]: Good(f, n + 1)
    OBVIOUS
  <2>1. PICK f \in [0..n -> V]: Good(f, n)
    BY <1>2
  <2> DEFINE g == [i \in 0..(n + 1) |-> IF i <= n THEN f[i] ELSE step[i][f[n]]]
  <2>2. f[n] \in V /\ n + 1 \in 1..N /\ step[n + 1][f[n]] \in V
    OBVIOUS
  <2>3. g \in [0..(n + 1) -> V]
    BY <2>2
  <2>4. g[0] = b
    BY <2>1
  <2>5. ASSUME NEW i \in 1..(n + 1) PROVE g[i] = step[i][g[i - 1]]
    <3>1. CASE i <= n
      BY <2>1, <3>1
    <3>2. CASE i = n + 1
      BY <3>2
    <3> QED
      BY <3>1, <3>2
  <2>6. Good(g, n + 1)
    BY <2>4, <2>5
  <2> QED
    BY <2>3, <2>6
<1> HIDE DEF T
<1>3. N \in T
  BY <1>1, <1>2, Induction
<1> QED
  BY <1>3 DEF T, Iterates

-----------------------------------------------------------------------------

LEMMA SameLength ==
  ASSUME NEW p \in Seq(SingleAccess), NEW n \in 0..Len(p)
  PROVE  Len(Memory!Cells(p, n)) = Len(Memory!Values(p, n))
<1> DEFINE N == Len(p)
           C(k) == Memory!Cells(p, k)
           V(k) == Memory!Values(p, k)
           T == {k \in Nat: k <= N => Len(C(k)) = Len(V(k))}
<1>1. N \in Nat /\ \A k \in 1..N: p[k] \in SingleAccess
  <2> HIDE DEF SingleAccess
  <2> QED
    OBVIOUS
<1>2. /\ C(0) = <<>> /\ V(0) = <<>>
      /\ \A k \in 1..N: Len(C(k)) = Len(C(k - 1)) + Len(Shape!Run(p[k]))
      /\ \A k \in 1..N: Len(V(k)) = Len(V(k - 1)) + Len(p[k].values)
  BY CellsAre DEF Concatenation
<1>3. \A k \in 1..N: Len(Shape!Run(p[k])) = Len(p[k].values)
  BY <1>1, AccessIs
<1> HIDE DEF N, C, V
<1>4. 0 \in T
  BY <1>2
<1>5. ASSUME NEW k \in Nat, k \in T PROVE k + 1 \in T
  <2> SUFFICES ASSUME k + 1 <= N PROVE Len(C(k + 1)) = Len(V(k + 1))
    OBVIOUS
  <2>1. k + 1 \in 1..N /\ (k + 1) - 1 = k /\ k <= N
    BY <1>1
  <2>2. Len(C(k)) = Len(V(k))
    BY <1>5, <2>1
  <2> QED
    BY <1>2, <1>3, <2>1, <2>2
<1> HIDE DEF T
<1>6. n \in T
  BY <1>4, <1>5, <1>1, Induction DEF N
<1> QED
  BY <1>6, <1>1 DEF T, N, C, V

\* What is read from a sequence of cells.
Fetched(store, cells) == [k \in DOMAIN cells |-> store[cells[k]]]

\* data is what the cells C hold, and C2 are those and the cells of a.
Fetches(store, a, C, C2, data) ==
  /\ C \in Seq(Device \X Nat)
  /\ Concatenation(C2, C, Shape!Run(a), Device \X Nat)
  /\ data = Fetched(store, C) /\ data \in Seq(Val) /\ Read(store, a) \in Seq(Val)

LEMMA FetchedMore ==
  ASSUME NEW store, NEW a \in SingleAccess, NEW C, NEW C2, NEW data,
         Fetches(store, a, C, C2, data)
  PROVE  data \o Read(store, a) = Fetched(store, C2)
<1> DEFINE R == Shape!Run(a)
           n == Len(C)
           l == Len(a.values)
           q == Read(store, a)
           all == data \o q
           X == Device \X Nat
<1>1. /\ l \in Nat /\ Len(R) = l
      /\ \A k \in 1..l: R[k] = <<a.device, a.head + k - 1>>
  BY AccessIs
<1>2. n \in Nat /\ DOMAIN C = 1..n
  <2> HIDE DEF X
  <2>1. C \in Seq(X)
    BY DEF X, Fetches
  <2> QED
    BY <2>1
<1>3. /\ C2 \in Seq(X) /\ Len(C2) = n + l
      /\ \A i \in 1..n: C2[i] = C[i]
      /\ \A i \in 1..l: C2[n + i] = R[i]
  BY <1>1 DEF Concatenation, Fetches
<1> HIDE DEF X
<1>4. DOMAIN C2 = 1..(n + l)
  BY <1>3
<1>5. Len(data) = n /\ \A i \in 1..n: data[i] = store[C[i]]
  BY <1>2 DEF Fetched, Fetches
<1> HIDE DEF R
<1>6. Len(q) = l /\ \A i \in 1..l: q[i] = store[R[i]]
  <2>1. q = [k \in 1..l |-> store[<<a.device, a.head + k - 1>>]]
    BY DEF Read
  <2> HIDE DEF q, l
  <2>2. Len(q) = l /\ \A i \in 1..l: q[i] = store[<<a.device, a.head + i - 1>>]
    BY <1>1, <2>1
  <2> QED
    BY <1>1, <2>2
<1> HIDE DEF n, l, q
<1>7. Concatenation(all, data, q, Val)
  BY Concat DEF q, Fetches
<1>8. /\ all \in Seq(Val) /\ Len(all) = n + l
      /\ \A i \in 1..n: all[i] = data[i]
      /\ \A i \in 1..l: all[n + i] = q[i]
  BY <1>5, <1>6, <1>7 DEF Concatenation
<1> HIDE DEF all
<1>9. ASSUME NEW i \in 1..(n + l) PROVE all[i] = store[C2[i]]
  <2>1. CASE i <= n
    <3>1. i \in 1..n
      BY <1>2, <2>1
    <3> QED
      BY <1>3, <1>5, <1>8, <3>1
  <2>2. CASE i > n
    <3>1. i - n \in 1..l /\ n + (i - n) = i
      BY <1>1, <1>2, <2>2
    <3>2. all[i] = q[i - n] /\ C2[i] = R[i - n]
      BY <1>3, <1>8, <3>1
    <3> QED
      BY <1>6, <3>1, <3>2
  <2> QED
    BY <1>2, <2>1, <2>2
<1>10. all = [i \in 1..(n + l) |-> all[i]]
  BY <1>8
<1>11. all = [i \in 1..(n + l) |-> store[C2[i]]]
  BY <1>9, <1>10
<1> QED
  BY <1>4, <1>11 DEF Fetched, all, q

\* What the first n accesses make of the memory they start with.
Did(op, p, n, m, x) ==
  /\ x \in State
  /\ x.ok <=> \A k \in 1..n: Memory!Exists(p[k])
  /\ op = "read" =>
       /\ StoreOf(x.mem) = StoreOf(m)
       /\ x.ok => x.data = Fetched(StoreOf(m), Memory!Cells(p, n))
  /\ op # "read" => x.data = <<>>
  /\ op # "read" =>
       \E j \in 0..n:
          /\ x.ok => j = n
          /\ \A k \in 1..j: Memory!Exists(p[k])
          /\ StoreOf(x.mem) = Over(StoreOf(m), Memory!Cells(p, j),
                                               Memory!Values(p, j))

LEMMA DidNothing ==
  ASSUME NEW op, NEW p \in Seq(SingleAccess), NEW m \in Areas
  PROVE  Did(op, p, 0, m, [mem |-> m, ok |-> TRUE, data |-> <<>>])
<1> DEFINE x == [mem |-> m, ok |-> TRUE, data |-> <<>>]
<1>1. x \in State
  <2>1. <<>> \in Seq(Val)
    OBVIOUS
  <2> QED
    BY <2>1, StateMade
<1>2. x.mem = m /\ x.ok = TRUE /\ x.data = <<>>
  OBVIOUS
<1> HIDE DEF x
<1>3. Memory!Cells(p, 0) = <<>> /\ Memory!Values(p, 0) = <<>>
  BY CellsAre
<1>4. Fetched(StoreOf(m), <<>>) = <<>>
  BY DEF Fetched
<1>5. Over(StoreOf(m), <<>>, <<>>) = StoreOf(m)
  <2>1. \A y \in Cell: {k \in DOMAIN <<>>: <<>>[k] = y} = {}
    OBVIOUS
  <2>2. Over(StoreOf(m), <<>>, <<>>) = [y \in Cell |-> StoreOf(m)[y]]
    BY <2>1 DEF Over
  <2> QED
    BY <2>2 DEF StoreOf
<1>6. 0 \in 0..0 /\ \A k \in 1..0: FALSE
  OBVIOUS
<1> QED
  BY <1>1, <1>2, <1>3, <1>4, <1>5, <1>6 DEF Did, x

LEMMA DidOneMore ==
  ASSUME Parameters, NEW op, NEW p \in Seq(SingleAccess), NEW m \in Areas,
         NEW n \in 1..Len(p), NEW x, Did(op, p, n - 1, m, x)
  PROVE  Did(op, p, n, m, Access(op, x, p[n]))
<1> DEFINE a == p[n]
           y == Access(op, x, a)
           C(k) == Memory!Cells(p, k)
           V(k) == Memory!Values(p, k)
           E(k) == Memory!Exists(p[k])
           X == Device \X Nat
           N == Len(p)
<1>1. N \in Nat /\ a \in SingleAccess
  <2> HIDE DEF SingleAccess
  <2> QED
    OBVIOUS
<1>2. /\ n - 1 \in 0..N /\ n \in Nat /\ n - 1 \in Nat /\ n \in 1..n
      /\ \A k \in 1..n: k = n \/ k \in 1..(n - 1)
      /\ \A k \in 1..(n - 1): k \in 1..n
  BY <1>1
<1>3. /\ C(n - 1) \in Seq(X) /\ V(n - 1) \in Seq(Val)
      /\ Concatenation(C(n), C(n - 1), Shape!Run(a), X)
      /\ Concatenation(V(n), V(n - 1), a.values, Val)
      /\ Len(C(n - 1)) = Len(V(n - 1))
  BY <1>2, CellsAre, SameLength
<1>4. E(n) <=> a.head + Len(a.values) <= Size
  BY DEF Memory!Exists
<1>5. /\ x \in State /\ x.mem \in Areas /\ x.data \in Seq(Val)
      /\ x.ok <=> \A k \in 1..(n - 1): E(k)
  <2>1. x \in State
    BY DEF Did
  <2> QED
    BY <2>1, StateIs DEF Did
<1> HIDE DEF E, C, V, X, N, a
<1>6. CASE ~x.ok
  <2>1. y = x
    BY <1>6, FailedStays
  <2>2. ~\A k \in 1..n: E(k)
    BY <1>2, <1>5, <1>6
  <2>3. ASSUME op # "read"
        PROVE  \E j \in 0..n:
                 /\ x.ok => j = n
                 /\ \A k \in 1..j: E(k)
                 /\ StoreOf(x.mem) = Over(StoreOf(m), C(j), V(j))
    <3>1. PICK j \in 0..(n - 1): /\ \A k \in 1..j: E(k)
                                 /\ StoreOf(x.mem) = Over(StoreOf(m), C(j), V(j))
      BY <2>3 DEF Did, E, C, V
    <3>2. j \in 0..n
      BY <1>2
    <3> QED
      BY <1>6, <3>1, <3>2
  <2> HIDE DEF y
  <2>4. /\ op = "read" => StoreOf(x.mem) = StoreOf(m)
        /\ op # "read" => x.data = <<>>
    BY DEF Did
  <2>5. Did(op, p, n, m, x)
    BY <1>5, <1>6, <2>2, <2>3, <2>4 DEF Did, C, V, E
  <2> QED
    BY <2>1, <2>5 DEF y, a
<1>7. CASE x.ok
  <2>1. Does(op, x, a, y)
    BY <1>1, <1>5, <1>7, AccessDoes
  <2> HIDE DEF y
  <2>2. y \in State /\ (y.ok <=> E(n)) /\ \A k \in 1..(n - 1): E(k)
    BY <1>4, <1>5, <1>7, <2>1 DEF Does
  <2>3. y.ok <=> \A k \in 1..n: E(k)
    BY <1>2, <2>2
  <2>4. CASE op = "read"
    <3>1. StoreOf(x.mem) = StoreOf(m) /\ x.data = Fetched(StoreOf(m), C(n - 1))
      BY <1>7, <2>4 DEF Did, C
    <3>2. StoreOf(y.mem) = StoreOf(m)
      BY <2>1, <2>4, <3>1 DEF Does
    <3>3. ASSUME y.ok PROVE y.data = Fetched(StoreOf(m), C(n))
      <4>1. /\ Read(StoreOf(m), a) \in Seq(Val)
            /\ y.data = x.data \o Read(StoreOf(m), a)
        BY <2>1, <2>4, <3>1, <3>3 DEF Does
      <4>2. x.data \o Read(StoreOf(m), a) = Fetched(StoreOf(m), C(n))
        <5>1. /\ C(n - 1) \in Seq(Device \X Nat)
              /\ Concatenation(C(n), C(n - 1), Shape!Run(a), Device \X Nat)
          BY <1>3 DEF X
        <5>2. Fetches(StoreOf(m), a, C(n - 1), C(n), x.data)
          BY <1>5, <3>1, <4>1, <5>1 DEF Fetches
        <5> QED
          BY <1>1, <5>2, FetchedMore
      <4> QED
        BY <4>1, <4>2
    <3> QED
      BY <2>2, <2>3, <2>4, <3>2, <3>3 DEF Did, C, V, E, y, a
  <2>5. CASE op # "read"
    <3>1. StoreOf(x.mem) = Over(StoreOf(m), C(n - 1), V(n - 1))
      BY <1>7, <2>5 DEF Did, C, V
    <3>2. y.data = <<>>
      <4>1. x.data = <<>>
        BY <2>5 DEF Did
      <4> QED
        BY <2>1, <2>5, <4>1 DEF Does
    <3>3. CASE y.ok
      <4>1. StoreOf(y.mem) = After(StoreOf(x.mem), a)
        BY <2>1, <2>5, <3>3 DEF Does
      <4>2. Over(StoreOf(m), C(n), V(n)) = After(Over(StoreOf(m), C(n - 1), V(n - 1)), a)
        <5>1. /\ C(n - 1) \in Seq(Device \X Nat)
              /\ Concatenation(C(n), C(n - 1), Shape!Run(a), Device \X Nat)
          BY <1>3 DEF X
        <5>2. V(n - 1) \in Seq(Val) /\ Len(C(n - 1)) = Len(V(n - 1))
          BY <1>3
        <5>3. Concatenation(V(n), V(n - 1), a.values, Val)
          BY <1>3
        <5>4. a \in SingleAccess
          BY <1>1
        <5> HIDE DEF y
        <5>5. LastWins(a, C(n - 1), V(n - 1), C(n), V(n))
          BY <5>1, <5>2, <5>3 DEF LastWins
        <5> QED
          BY <5>4, <5>5, OverMore
      <4>3. StoreOf(y.mem) = Over(StoreOf(m), C(n), V(n)) /\ n \in 0..n
        BY <1>2, <3>1, <4>1, <4>2
      <4> QED
        BY <2>2, <2>3, <2>5, <3>3, <3>2, <4>3 DEF Did, C, V, E, y, a
    <3>4. CASE ~y.ok
      <4>1. StoreOf(y.mem) = Over(StoreOf(m), C(n - 1), V(n - 1)) /\ n - 1 \in 0..n
        BY <1>2, <2>1, <3>1, <3>4 DEF Does
      <4> QED
        BY <2>2, <2>3, <2>5, <3>4, <3>2, <4>1 DEF Did, C, V, E, y, a
    <3> QED
      BY <3>3, <3>4
  <2> QED
    BY <2>4, <2>5
<1> QED
  BY <1>6, <1>7

\* The recursion of Execute.
Steps(f, op, p, start) ==
  f = [n \in 0..Len(p) |-> IF n = 0 THEN start ELSE Access(op, f[n - 1], p[n])]

LEMMA StepsExist ==
  ASSUME Parameters, NEW op, NEW p \in Seq(SingleAccess), NEW start \in State
  PROVE  \E f: Steps(f, op, p, start)
<1> DEFINE N == Len(p)
           step == [i \in 1..N |-> [x \in State |-> Access(op, x, p[i])]]
<1>1. N \in Nat /\ \A i \in 1..N: p[i] \in SingleAccess
  <2> HIDE DEF SingleAccess
  <2> QED
    OBVIOUS
<1>2. ASSUME NEW i \in 1..N, NEW x \in State PROVE Access(op, x, p[i]) \in State
  <2>1. CASE x.ok
    BY <1>1, <2>1, AccessDoes DEF Does
  <2>2. CASE ~x.ok
    BY <2>2, FailedStays
  <2> QED
    BY <2>1, <2>2
<1> HIDE DEF N
<1>3. step \in [1..N -> [State -> State]]
  BY <1>2
<1>4. \A i \in 1..N, x \in State: step[i][x] = Access(op, x, p[i])
  OBVIOUS
<1> HIDE DEF step
<1>5. PICK f: Iterates(f, State, N, start, step)
  BY <1>1, <1>3, Iterated
<1>6. /\ f \in [0..N -> State] /\ f[0] = start
      /\ \A i \in 1..N: f[i] = step[i][f[i - 1]]
  BY <1>5 DEF Iterates
<1>7. ASSUME NEW n \in 0..N
      PROVE  f[n] = IF n = 0 THEN start ELSE Access(op, f[n - 1], p[n])
  <2>1. CASE n = 0
    BY <1>6, <2>1
  <2>2. CASE n # 0
    <3>1. n \in 1..N /\ n - 1 \in 0..N
      BY <1>1, <2>2
    <3>2. f[n - 1] \in State
      BY <1>6, <3>1
    <3> QED
      BY <1>4, <1>6, <2>2, <3>1, <3>2
  <2> QED
    BY <2>1, <2>2
<1>8. f = [n \in 0..N |-> IF n = 0 THEN start ELSE Access(op, f[n - 1], p[n])]
  <2>1. f = [n \in 0..N |-> f[n]]
    BY <1>6
  <2> QED
    BY <1>7, <2>1
<1> QED
  BY <1>8 DEF Steps, N

LEMMA StepsDo ==
  ASSUME Parameters, NEW op, NEW p \in Seq(SingleAccess), NEW m \in Areas,
         NEW f, Steps(f, op, p, [mem |-> m, ok |-> TRUE, data |-> <<>>])
  PROVE  Did(op, p, Len(p), m, f[Len(p)])
<1> DEFINE N == Len(p)
           T == {n \in Nat: n <= N => Did(op, p, n, m, f[n])}
           start == [mem |-> m, ok |-> TRUE, data |-> <<>>]
<1>1. N \in Nat
  OBVIOUS
<1>2. \A n \in 0..N: f[n] = IF n = 0 THEN start ELSE Access(op, f[n - 1], p[n])
  BY DEF Steps
<1>3. Did(op, p, 0, m, start)
  BY DidNothing
<1> HIDE DEF start
<1>4. 0 \in T
  BY <1>1, <1>2, <1>3
<1>5. ASSUME NEW n \in Nat, n \in T PROVE n + 1 \in T
  <2> SUFFICES ASSUME n + 1 <= N PROVE Did(op, p, n + 1, m, f[n + 1])
    OBVIOUS
  <2>1. n + 1 \in 1..N /\ n + 1 \in 0..N /\ n + 1 # 0 /\ (n + 1) - 1 = n /\ n <= N
    BY <1>1
  <2>2. Did(op, p, (n + 1) - 1, m, f[n])
    BY <1>5, <2>1
  <2>3. Did(op, p, n + 1, m, Access(op, f[n], p[n + 1]))
    BY <2>1, <2>2, DidOneMore DEF N
  <2> QED
    BY <1>2, <2>1, <2>3
<1> HIDE DEF T
<1>6. N \in T
  BY <1>1, <1>4, <1>5, Induction
<1> QED
  BY <1>1, <1>6 DEF T, N

\* What Execute returns.
LEMMA ExecuteIs ==
  ASSUME Parameters, mem \in Areas, NEW r \in Request
  PROVE  LET start == [mem |-> mem, ok |-> TRUE, data |-> <<>>]
             p == Shape!Plan[r]
         IN  /\ Shape!Refused(r) =>
                  Execute(r) = [start EXCEPT !.ok = FALSE]
             /\ ~Shape!Refused(r) =>
                  \E x: /\ Did(r.op, p, Len(p), mem, x)
                        /\ Execute(r) = [x EXCEPT !.ok = @ /\ r.complete]
<1> DEFINE start == [mem |-> mem, ok |-> TRUE, data |-> <<>>]
           p == Shape!Plan[r]
           op == r.op
           f == CHOOSE g: Steps(g, op, p, start)
<1>1. p \in Seq(SingleAccess)
  BY PlanIs
<1>2. Execute(r) =
        IF Shape!Refused(r) THEN [start EXCEPT !.ok = FALSE]
        ELSE [f[Len(p)] EXCEPT !.ok = @ /\ r.complete]
  BY DEF Execute, RefusedAtOnce, Steps
<1> HIDE DEF p, op
<1>3. start \in State
  <2>1. <<>> \in Seq(Val)
    OBVIOUS
  <2> QED
    BY <2>1, StateMade
<1> DEFINE s == start
<1> HIDE DEF s
<1>4. Steps(f, op, p, start)
  <2> DEFINE G(g) == Steps(g, op, p, start)
  <2>1. \E g: G(g)
    BY <1>1, <1>3, StepsExist
  <2> HIDE DEF G
  <2>2. G(CHOOSE g: G(g))
    BY <2>1
  <2> QED
    BY <2>2 DEF G
<1> HIDE DEF f
<1>5. Did(op, p, Len(p), mem, f[Len(p)])
  BY <1>1, <1>4, StepsDo
<1> QED
  BY <1>2, <1>5 DEF p, op

LEMMA StoreIs ==
  /\ Store = StoreOf(mem) /\ Store' = StoreOf(mem')
  /\ \A r: Memory!Refused(r) = Shape!Refused(r)
  /\ \A cells, values: Memory!Written(cells, values) = Over(StoreOf(mem), cells, values)
  /\ Memory!NotARequest = Shape!NotARequest
<1>1. Store = StoreOf(mem) /\ Store' = StoreOf(mem')
  BY DEF Store, StoreOf, Cell, Device
<1>2. \A r: Memory!Refused(r) = Shape!Refused(r)
  BY DEF Memory!Refused, Shape!Refused
<1>3. \A cells, values: Memory!Written(cells, values) = Over(Store, cells, values)
  BY DEF Memory!Written, Over, Memory!Cell, Memory!Device, Cell, Device
<1>4. Memory!NotARequest = Shape!NotARequest
  BY DEF Memory!NotARequest, Shape!NotARequest
<1> QED
  BY <1>1, <1>2, <1>3, <1>4

LEMMA SamePlan ==
  ASSUME NEW r \in Request PROVE Memory!Plan[r] = Shape!Plan[r]
BY DEF Memory!Plan, Shape!Plan, Memory!FlattenSeq, Shape!FlattenSeq,
       Memory!Accesses, Shape!Accesses, Memory!Bits, Shape!Bits

\* An answered request, in the words of the memory.
Answered(r, ok, data) ==
  reply' = [asked |-> <<r>>, ok |-> ok, data |-> IF ok THEN data ELSE <<>>]

LEMMA Served ==
  ASSUME Parameters, mem \in Areas, NEW r \in Request,
         mem' = Execute(r).mem,
         Answered(r, Execute(r).ok, Execute(r).data)
  PROVE  mem' \in Areas /\ reply'.asked = <<r>> /\ Memory!Serve(r)
<1> DEFINE p == Memory!Plan[r]
           C(n) == Memory!Cells(p, n)
           V(n) == Memory!Values(p, n)
           E(k) == Memory!Exists(p[k])
           refused == Shape!Refused(r)
           ok == ~refused /\ r.complete /\ \A k \in DOMAIN p: E(k)
           got == IF ok /\ r.op = "read" THEN Fetched(StoreOf(mem), C(Len(p))) ELSE <<>>
<1>1. p \in Seq(SingleAccess) /\ p = Shape!Plan[r]
  BY SamePlan, PlanIs
<1>2. Len(p) \in Nat /\ DOMAIN p = 1..Len(p)
  BY <1>1
<1>3. r.complete \in BOOLEAN /\ r.op \in {"read", "write"}
  BY RequestIs
<1> SUFFICES /\ mem' \in Areas
             /\ reply' = [asked |-> <<r>>, ok |-> ok, data |-> got]
             /\ \/ r.op = "read" /\ StoreOf(mem') = StoreOf(mem)
                \/ /\ r.op # "read"
                   /\ \E n \in 0..Len(p):
                        /\ ok => n = Len(p)
                        /\ refused => n = 0
                        /\ \A k \in 1..n: E(k)
                        /\ StoreOf(mem') = Over(StoreOf(mem), C(n), V(n))
  BY StoreIs DEF Memory!Serve, Fetched
<1> HIDE DEF p, C, V, E
<1>4. CASE refused
  <2> DEFINE start == [mem |-> mem, ok |-> TRUE, data |-> <<>>]
  <2>1. Execute(r) = [start EXCEPT !.ok = FALSE]
    BY <1>4, ExecuteIs
  <2>2. /\ Execute(r).mem = mem /\ Execute(r).ok = FALSE
    BY <2>1
  <2> HIDE DEF refused
  <2>3. mem' = mem /\ reply' = [asked |-> <<r>>, ok |-> FALSE, data |-> <<>>]
    BY <2>2 DEF Answered
  <2>4. ok = FALSE /\ got = <<>>
    BY <1>4
  <2>5. Did(r.op, p, 0, mem, start)
    BY <1>1, DidNothing
  <2>6. start.mem = mem
    OBVIOUS
  <2> HIDE DEF start
  <2>7. ASSUME r.op # "read" PROVE StoreOf(mem) = Over(StoreOf(mem), C(0), V(0))
    <3>1. PICK j \in 0..0: StoreOf(start.mem) = Over(StoreOf(mem), C(j), V(j))
      BY <2>5, <2>7 DEF Did, C, V
    <3>2. j = 0
      OBVIOUS
    <3> QED
      BY <2>6, <3>1, <3>2
  <2>8. 0 \in 0..Len(p) /\ \A k \in 1..0: E(k)
    BY <1>2
  <2> HIDE DEF ok, got
  <2> QED
    BY <2>3, <2>4, <2>7, <2>8
<1>5. CASE ~refused
  <2>1. PICK x: /\ Did(r.op, p, Len(p), mem, x)
                /\ Execute(r) = [x EXCEPT !.ok = @ /\ r.complete]
    <3>1. \E x: /\ Did(r.op, Shape!Plan[r], Len(Shape!Plan[r]), mem, x)
                /\ Execute(r) = [x EXCEPT !.ok = @ /\ r.complete]
      BY <1>5, ExecuteIs
    <3> HIDE DEF refused
    <3> QED
      BY <1>1, <3>1
  <2> HIDE DEF refused
  <2>2. /\ x \in State
        /\ x.ok <=> \A k \in 1..Len(p): E(k)
        /\ r.op = "read" =>
             /\ StoreOf(x.mem) = StoreOf(mem)
             /\ x.ok => x.data = Fetched(StoreOf(mem), C(Len(p)))
    BY <2>1 DEF Did, E, C
  <2>3. r.op # "read" =>
          \E j \in 0..Len(p):
             /\ x.ok => j = Len(p)
             /\ \A k \in 1..j: E(k)
             /\ StoreOf(x.mem) = Over(StoreOf(mem), C(j), V(j))
    BY <2>1 DEF Did, E, C, V
  <2>4. x.mem \in Areas /\ x.ok \in BOOLEAN
    BY <2>2, StateIs
  <2>5. /\ Execute(r).mem = x.mem
        /\ Execute(r).ok = (x.ok /\ r.complete)
        /\ Execute(r).data = x.data
    <3>1. x = [mem |-> x.mem, ok |-> x.ok, data |-> x.data]
      BY <2>2 DEF State
    <3> QED
      BY <2>1, <3>1
  <2>6. ok = (x.ok /\ r.complete)
    BY <1>2, <1>3, <1>5, <2>2, <2>4
  <2>7. mem' = x.mem
    BY <2>5
  <2>8. reply' = [asked |-> <<r>>, ok |-> ok, data |-> IF ok THEN x.data ELSE <<>>]
    <3> HIDE DEF ok
    <3> QED
      BY <2>5, <2>6 DEF Answered
  <2>9. CASE r.op = "read"
    <3>1. (IF ok THEN x.data ELSE <<>>) = got
      <4>1. ASSUME ok PROVE x.data = Fetched(StoreOf(mem), C(Len(p)))
        BY <2>2, <2>6, <2>9, <4>1
      <4> HIDE DEF ok
      <4> QED
        BY <2>9, <4>1
    <3> HIDE DEF ok, got
    <3> QED
      BY <2>2, <2>4, <2>7, <2>8, <2>9, <3>1
  <2>10. CASE r.op # "read"
    <3>1. x.data = <<>> /\ got = <<>>
      BY <2>1, <2>10 DEF Did
    <3>2. reply' = [asked |-> <<r>>, ok |-> ok, data |-> got]
      <4> HIDE DEF ok, got
      <4> QED
        BY <2>8, <3>1
    <3>3. PICK j \in 0..Len(p):
            /\ x.ok => j = Len(p)
            /\ \A k \in 1..j: E(k)
            /\ StoreOf(x.mem) = Over(StoreOf(mem), C(j), V(j))
      BY <2>3, <2>10
    <3>4. (ok => j = Len(p)) /\ (refused => j = 0)
      <4> HIDE DEF ok
      <4> QED
        BY <1>5, <2>6, <3>3
    <3> HIDE DEF ok, got
    <3> QED
      BY <2>4, <2>7, <2>10, <3>2, <3>3, <3>4
  <2> QED
    BY <2>9, <2>10
<1> QED
  BY <1>4, <1>5

-----------------------------------------------------------------------------

\* The lists keep to their limits.
MemOK == sent \in [Conn -> Script] /\ mem \in Areas

LEMMA MemStart == ASSUME Parameters, ServerInit PROVE MemOK
<1> DEFINE zeros == [k \in 1 .. InitialSize |-> 0]
           X == Seq(Val)
<1>1. InitialSize \in Nat /\ Size \in Nat /\ InitialSize <= Size
  BY DEF Parameters
<1>2. zeros \in X /\ Len(zeros) = InitialSize
  <2>1. 0 \in Val
    BY DEF Val
  <2> QED
    BY <1>1, <2>1
<1>3. mem = [d \in Device |-> zeros] /\ sent \in [Conn -> Script]
  BY DEF ServerInit, Device
<1> HIDE DEF zeros, X
<1>4. mem \in [Device -> X] /\ \A d \in Device: Len(mem[d]) \in InitialSize .. Size
  BY <1>1, <1>2, <1>3
<1> QED
  BY <1>3, <1>4 DEF MemOK, Areas, X

LEMMA StoreStart ==
  ASSUME Parameters, ServerInit PROVE Memory!Init
<1>1. InitialSize \in Nat /\ Size \in Nat
  BY DEF Parameters
<1>2. reply = Memory!NotARequest
  BY StoreIs DEF ServerInit
<1>3. mem = [d \in Device |-> [k \in 1 .. InitialSize |-> 0]]
  BY DEF ServerInit, Device
<1>4. ASSUME NEW x \in Cell PROVE StoreOf(mem)[x] = 0
  <2>1. x[1] \in Device /\ x[2] \in Nat
    BY <1>1 DEF Cell
  <2> DEFINE list == mem[x[1]]
  <2>2. list = [k \in 1 .. InitialSize |-> 0]
    BY <1>3, <2>1
  <2>3. StoreOf(mem)[x] = IF x[2] < Len(list) THEN list[x[2] + 1] ELSE 0
    BY DEF StoreOf
  <2> HIDE DEF list
  <2>4. Len(list) = InitialSize /\ \A k \in 1 .. InitialSize: list[k] = 0
    BY <1>1, <2>2
  <2>5. CASE x[2] < Len(list)
    <3>1. x[2] + 1 \in 1 .. InitialSize
      BY <1>1, <2>1, <2>4, <2>5
    <3> QED
      BY <2>3, <2>4, <2>5, <3>1
  <2>6. CASE ~(x[2] < Len(list))
    BY <2>3, <2>6
  <2> QED
    BY <2>5, <2>6
<1>5. StoreOf(mem) = [x \in Cell |-> 0]
  <2>1. StoreOf(mem) = [x \in Cell |-> StoreOf(mem)[x]]
    BY DEF StoreOf
  <2> QED
    BY <1>4, <2>1
<1> QED
  BY <1>2, <1>5, StoreIs DEF Memory!Init, Memory!Cell, Memory!Device,
     Cell, Device

LEMMA StoreStill ==
  ASSUME MemOK, sent' = sent, mem' = mem, reply' = reply
  PROVE  MemOK' /\ UNCHANGED <<Store, reply>>
BY StoreIs DEF MemOK, Areas, Val, Shape!Bits

LEMMA HandleServes ==
  ASSUME Parameters, MemOK, NEW c \in Conn, HandleFrame(c)
  PROVE  MemOK' /\ Memory!Next
<1> DEFINE body == SubSeq(Buffer(c), HeaderLength + 1,
                          Needed(Buffer(c)))
           asked == {k \in DOMAIN sent[c] : body = Body(k)}
           r == sent[c][CHOOSE k \in asked : TRUE].request
<1>1. /\ sent' = sent
      /\ IF asked = {}
         THEN reply' = Shape!NotARequest /\ mem' = mem
         ELSE /\ mem' = Execute(r).mem
              /\ Answered(r, Execute(r).ok, Execute(r).data)
  BY DEF HandleFrame, Answered
<1>2. sent[c] \in Script /\ mem \in Areas
  BY DEF MemOK
<1>3. DOMAIN sent[c] = 1..Len(sent[c])
      /\ \A k \in 1..Len(sent[c]): sent[c][k].request \in Request
  BY <1>2, SendableIs
<1> HIDE DEF body
<1>4. CASE asked = {}
  <2>1. reply' = Shape!NotARequest /\ mem' = mem
    BY <1>1, <1>4
  <2>2. Memory!Reject
    BY <2>1, StoreIs DEF Memory!Reject
  <2>3. MemOK'
    BY <1>1, <2>1 DEF MemOK, Areas, Val, Shape!Bits
  <2> QED
    BY <2>2, <2>3 DEF Memory!Next
<1>5. CASE asked # {}
  <2>1. r \in Request
    <3>1. (CHOOSE k \in asked : TRUE) \in asked
      BY <1>5
    <3> QED
      BY <1>3, <3>1
  <2>2. /\ mem' = Execute(r).mem
        /\ Answered(r, Execute(r).ok, Execute(r).data)
    BY <1>1, <1>5
  <2> HIDE DEF r
  <2>3. mem' \in Areas /\ reply'.asked = <<r>> /\ Memory!Serve(r)
    BY <1>2, <2>1, <2>2, Served
  <2>4. MemOK'
    BY <1>1, <2>3 DEF MemOK, Areas, Val, Shape!Bits
  <2> QED
    BY <2>1, <2>3, <2>4 DEF Memory!Next
<1> QED
  BY <1>4, <1>5

LEMMA ServerStep ==
  ASSUME Parameters, MemOK, [ServerNext]_serverVars
  PROVE  MemOK' /\ [Memory!Next]_<<Store, reply>>
<1>1. CASE UNCHANGED serverVars
  BY <1>1, StoreStill DEF serverVars, connVars
<1>2. ASSUME NEW c \in Conn, Accept(c) \/ HangUp(c)
      PROVE  MemOK' /\ [Memory!Next]_<<Store, reply>>
  BY <1>2, StoreStill DEF Accept, HangUp
<1>3. ASSUME NEW c \in Conn, Loop(c)
      PROVE  MemOK' /\ [Memory!Next]_<<Store, reply>>
  <2>1. CASE HandleFrame(c)
    BY <2>1, HandleServes
  <2>2. CASE TakeChunk(c) \/ DropByte(c) \/ EndOfBuffer(c)
              \/ Drained(c)
    BY <2>2, StoreStill DEF TakeChunk, DropByte, EndOfBuffer, Drained
  <2> QED
    BY <1>3, <2>1, <2>2 DEF Loop
<1> QED
  BY <1>1, <1>2, <1>3 DEF ServerNext

\* Whatever the requests, the sizes of the areas and of a word: the lists that
\* grow behind _ensure_d_range and _ensure_m_range answer as the fixed memory
\* of PlcMemory does, and a request that fails leaves no more than the first
\* part of its accesses.
THEOREM ListsImplementMemory == ServerSpec => ImplementsMemory
<1> Parameters
  BY Mc3eAssumption
<1>1. ServerInit => MemOK /\ Memory!Init
  BY MemStart, StoreStart
<1>2. MemOK /\ [ServerNext]_serverVars
        => MemOK' /\ [Memory!Next]_<<Store, reply>>
  BY ServerStep
<1> QED
  BY <1>1, <1>2, PTL DEF ServerSpec, ImplementsMemory, Memory!Spec

\* The tasks of the connections.
Tasks ==
  /\ open \subseteq Conn /\ consumer \in open \cup {NoConn}
  /\ draining \in [Conn -> {"no", "accepted"}] /\ communicated \in BOOLEAN

LEMMA TasksStart == ASSUME ServerInit PROVE Tasks
BY DEF Tasks, ServerInit

LEMMA HandleKeepsTasks ==
  ASSUME Tasks, NEW c \in Conn, HandleFrame(c) PROVE Tasks'
<1>1. /\ consumer = c /\ consumer' = c /\ open' = open /\ communicated' = communicated
      /\ draining' = [draining EXCEPT ![c] = IF reply'.ok THEN "accepted" ELSE @]
  BY DEF HandleFrame, AfterFrame
<1> DEFINE mark == IF reply'.ok THEN "accepted" ELSE draining[c]
<1>2. mark \in {"no", "accepted"}
  BY DEF Tasks
<1>3. draining' = [draining EXCEPT ![c] = mark]
  BY <1>1
<1> HIDE DEF mark
<1>4. draining' \in [Conn -> {"no", "accepted"}]
  BY <1>2, <1>3 DEF Tasks
<1> QED
  BY <1>1, <1>4 DEF Tasks

LEMMA TasksStep ==
  ASSUME Parameters, Tasks, [ServerNext]_serverVars PROVE Tasks'
<1>1. CASE UNCHANGED serverVars
  BY <1>1 DEF serverVars, connVars, Tasks
<1>2. ASSUME NEW c \in Conn, Accept(c) PROVE Tasks'
  BY <1>2 DEF Accept, Tasks
<1>3. ASSUME NEW c \in Conn, HangUp(c) PROVE Tasks'
  <2>1. communicated' \in BOOLEAN
    BY <1>3 DEF HangUp, CommunicatedAfter
  <2> QED
    BY <1>3, <2>1 DEF HangUp, Tasks
<1>4. ASSUME NEW c \in Conn, TakeChunk(c) PROVE Tasks'
  BY <1>4 DEF TakeChunk, Tasks
<1>5. ASSUME NEW c \in Conn, DropByte(c) \/ EndOfBuffer(c) PROVE Tasks'
  BY <1>5 DEF DropByte, EndOfBuffer, Tasks
<1>6. ASSUME NEW c \in Conn, Drained(c) PROVE Tasks'
  BY <1>6 DEF Drained, Tasks
<1>7. ASSUME NEW c \in Conn, Loop(c) PROVE Tasks'
  BY <1>4, <1>5, <1>6, <1>7, HandleKeepsTasks DEF Loop
<1> QED
  BY <1>1, <1>2, <1>3, <1>7 DEF ServerNext

\* No task reads bytes that have not come or removes bytes it has not read, the
\* loop runs for a connection that is open, and no area outgrows its limit.
THEOREM ServerTypeCorrect == ServerSpec => []ServerTypeOK
<1> Parameters
  BY Mc3eAssumption
<1> DEFINE Inv == FrameInv /\ MemOK /\ Tasks
<1>1. ServerInit => Inv
  BY FrameStart, MemStart, TasksStart
<1>2. Inv /\ [ServerNext]_serverVars => Inv'
  BY FrameStep, ServerStep, TasksStep
<1>3. Inv => ServerTypeOK
  <2> SUFFICES ASSUME Inv PROVE ServerTypeOK
    OBVIOUS
  <2>1. ASSUME NEW c \in Conn
        PROVE  /\ 0 <= used[c] /\ used[c] <= received[c]
               /\ received[c] <= Len(Stream[sent[c]])
    BY DEF FrameInv
  <2>2. sent \in [Conn -> Script] /\ \A d \in {"D", "M"} : Len(mem[d]) \in InitialSize .. Size
    BY DEF MemOK, Areas, Device
  <2> QED
    BY <2>1, <2>2 DEF Tasks, ServerTypeOK
<1> QED
  BY <1>1, <1>2, <1>3, PTL DEF ServerSpec
=============================================================================
