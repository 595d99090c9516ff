----------------------------- MODULE RunSession -----------------------------
(***************************************************************************)
(* One run of a sequence between the page (runSequence, stopSequence and   *)
(* handleEvent of app.js) and the service (the /ws endpoint and            *)
(* _execute_sequence of main.py).  Every run opens a WebSocket of its own; *)
(* run r and its socket have the same number.                              *)
(*                                                                         *)
(* The page's listeners are not tied to the socket they were added to: a   *)
(* message or a close of ANY socket acts on the run the page shows, and    *)
(* what the page sends goes to the newest socket.  What the sequence does  *)
(* between "connecting" and its verdict is SequenceEngine's; here it works *)
(* for as long as it likes.  The progress events only draw the page and    *)
(* are left out of the wire.                                               *)
(*                                                                         *)
(* A definition introduced by "Slip:" is the one that follows it with one  *)
(* mistake in it, for the negative checks; no action uses it.              *)
(***************************************************************************)
EXTENDS Naturals, Sequences, FiniteSets, SequencesExt

CONSTANTS MaxRuns,    \* runs the user starts (bound)
          MaxQueue    \* messages from the page waiting at the service (bound)

ASSUME SessionAssumption == MaxRuns \in Nat \ {0} /\ MaxQueue \in Nat \ {0}

VARIABLES running,    \* state.running of the page
          current,    \* the run the page shows; state.socket is its socket
          shown,      \* the verdict finishRun recorded for each run
          sock,       \* readyState of each socket, as the page sees it
          up,         \* whether the connection under the socket stands
          toServer,   \* messages on their way to the service
          toPage,     \* verdicts and "disconnected" on their way to the page
          handler,    \* where the endpoint's coroutine is
          stop,       \* its stop_event
          task,       \* where the coroutine of _execute_sequence is
          outcome,    \* the verdict that coroutine came to
          transport,  \* "tcp" closes its client after a run, "shared" keeps it
          lost,       \* the connections that broke by themselves
          patient     \* whether the user waits for the previous socket

page == <<running, current, shown, transport>>
net  == <<sock, up, toServer, toPage, lost>>
service == <<handler, stop, task, outcome>>
vars == <<running, current, shown, sock, up, toServer, toPage, handler, stop,
          task, outcome, transport, lost, patient>>

Run == 1 .. MaxRuns
Verdict == {"completed", "stopped", "failed"}
Active(r) == task[r] \in {"opening", "working", "failing"}

TypeOK ==
  /\ running \in BOOLEAN
  /\ current \in 0 .. MaxRuns
  /\ shown \in [Run -> Verdict \cup {"none", "cut"}]
  /\ sock \in [Run -> {"none", "connecting", "open", "closing", "closed"}]
  /\ up \in [Run -> BOOLEAN]
  /\ \A r \in Run : /\ toServer[r] \in Seq({"execute", "stop"})
                    /\ Len(toServer[r]) <= MaxQueue
                    /\ toPage[r] \in Seq(Verdict \cup {"disconnected"})
  /\ handler \in [Run -> {"none", "idle", "running", "gone"}]
  /\ stop \in [Run -> BOOLEAN]
  /\ task \in [Run -> {"none", "opening", "working", "failing", "closing",
                       "done"}]
  /\ outcome \in [Run -> Verdict \cup {"none", "broken"}]
  /\ transport \in [Run -> {"tcp", "shared"}]
  /\ lost \subseteq Run
  /\ patient \in BOOLEAN

Init ==
  /\ running = FALSE /\ current = 0
  /\ shown = [r \in Run |-> "none"]
  /\ sock = [r \in Run |-> "none"]
  /\ up = [r \in Run |-> FALSE]
  /\ toServer = [r \in Run |-> <<>>] /\ toPage = [r \in Run |-> <<>>]
  /\ handler = [r \in Run |-> "none"]
  /\ stop = [r \in Run |-> FALSE]
  /\ task = [r \in Run |-> "none"]
  /\ outcome = [r \in Run |-> "none"]
  /\ transport \in [Run -> {"tcp", "shared"}]
  /\ lost = {}
  /\ patient \in BOOLEAN

-----------------------------------------------------------------------------
(* The page.                                                               *)

\* A patient user starts the next run when the socket of the last has closed;
\* a shared client leaves it open, and then the run's verdict is enough.
Settled(r) == \/ sock[r] = "closed"
              \/ transport[r] = "shared" /\ shown[r] # "cut"

StartRun ==
  /\ ~running
  /\ current < MaxRuns
  /\ patient => \A r \in 1 .. current : Settled(r)
  /\ running' = TRUE
  /\ current' = current + 1
  /\ sock' = [sock EXCEPT ![current'] = "connecting"]
  /\ up' = [up EXCEPT ![current'] = TRUE]
  /\ UNCHANGED <<shown, toServer, toPage, service, transport, lost, patient>>

\* send() of a socket: state.socket, whatever socket the listener belongs to.
SendOnCurrent(m) ==
  /\ Len(toServer[current]) < MaxQueue
  /\ toServer' = IF sock'[current] = "open" /\ up[current]
                 THEN [toServer EXCEPT ![current] = Append(@, m)]
                 ELSE toServer

OnOpen(r) ==
  /\ sock[r] = "connecting" /\ up[r]
  /\ sock' = [sock EXCEPT ![r] = "open"]
  /\ SendOnCurrent("execute")
  /\ handler' = [handler EXCEPT ![r] = "idle"]
  /\ UNCHANGED <<page, up, toPage, lost, stop, task, outcome, patient>>

PressStop ==
  /\ running
  /\ sock[current] = "open"
  /\ UNCHANGED sock
  /\ SendOnCurrent("stop")
  /\ UNCHANGED <<page, up, toPage, lost, service, patient>>

\* finishRun and setRunning(false): the first verdict of the shown run counts.
Finish(v) ==
  /\ running' = FALSE
  /\ shown' = IF shown[current] = "none"
              THEN [shown EXCEPT ![current] = v] ELSE shown

\* A message listener.  A verdict ends the run shown; "disconnected" closes
\* the newest socket, which then delivers nothing more.
OnVerdict(r) ==
  /\ sock[r] = "open" /\ toPage[r] # <<>> /\ Head(toPage[r]) \in Verdict
  /\ Finish(Head(toPage[r]))
  /\ toPage' = [toPage EXCEPT ![r] = Tail(@)]
  /\ UNCHANGED <<current, transport, sock, up, toServer, lost, service, patient>>

OnDisconnected(r) ==
  /\ sock[r] = "open" /\ toPage[r] # <<>> /\ Head(toPage[r]) = "disconnected"
  /\ IF sock[current] = "open"
     THEN /\ sock' = [sock EXCEPT ![current] = "closing"]
          /\ toPage' = [toPage EXCEPT ![r] = Tail(@), ![current] = <<>>]
     ELSE /\ UNCHANGED sock
          /\ toPage' = [toPage EXCEPT ![r] = Tail(@)]
  /\ UNCHANGED <<page, up, toServer, lost, service, patient>>

\* The close listener (after the error listener when it never opened): it asks
\* only whether the page shows a run.
OnClose(r) ==
  /\ sock[r] \in {"connecting", "open", "closing"}
  /\ ~up[r]
  /\ toPage[r] = <<>>
  /\ sock' = [sock EXCEPT ![r] = "closed"]
  /\ IF running THEN Finish("cut") ELSE UNCHANGED <<running, shown>>
  /\ UNCHANGED <<current, transport, up, toServer, toPage, lost, service,
                 patient>>

-----------------------------------------------------------------------------
(* The endpoint.                                                           *)

\* What is sent to a page that is closing its socket arrives nowhere.
Send(r, m) == toPage' = IF up[r] /\ sock[r] = "open" THEN [toPage EXCEPT ![r] = Append(@, m)]
                        ELSE toPage

Execute(r) ==
  /\ handler[r] = "idle" /\ Head(toServer[r]) = "execute"
  /\ handler' = [handler EXCEPT ![r] = "running"]
  /\ stop' = [stop EXCEPT ![r] = FALSE]
  /\ task' = [task EXCEPT ![r] = "opening"]
  /\ outcome' = [outcome EXCEPT ![r] = "none"]
  /\ UNCHANGED toPage

\* SequenceRequest does not validate: the verdict at once, and no run.
Refuse(r) ==
  /\ handler[r] = "idle" /\ Head(toServer[r]) = "execute"
  /\ outcome' = [outcome EXCEPT ![r] = "failed"]
  /\ Send(r, "failed")
  /\ UNCHANGED <<handler, stop, task>>

\* Answered with an "error" message, which the page takes no notice of.
UnknownOperation(r) ==
  /\ handler[r] = "idle" /\ Head(toServer[r]) = "stop"
  /\ UNCHANGED <<service, toPage>>

\* Slip: what arrives during a run is dropped, the stop with it.
WhileRunningDeaf(r) == handler[r] = "running" /\ UNCHANGED <<service, toPage>>

WhileRunning(r) ==
  /\ handler[r] = "running"
  /\ stop' = IF Head(toServer[r]) = "stop" THEN [stop EXCEPT ![r] = TRUE]
             ELSE stop
  /\ UNCHANGED <<handler, task, outcome, toPage>>

Receive(r) ==
  /\ toServer[r] # <<>>
  /\ toServer' = [toServer EXCEPT ![r] = Tail(@)]
  /\ Execute(r) \/ Refuse(r) \/ UnknownOperation(r) \/ WhileRunning(r)
  /\ UNCHANGED <<page, sock, up, lost, patient>>

HandlerReturns(r) ==
  /\ handler[r] = "running" /\ task[r] = "done"
  /\ handler' = [handler EXCEPT ![r] = "idle"]
  /\ UNCHANGED <<page, net, stop, task, outcome, patient>>

\* Slip: the run is not told that its page is gone.
DisconnectedQuietly(r) ==
  /\ handler[r] \in {"idle", "running"}
  /\ toServer[r] = <<>>
  /\ ~up[r] \/ sock[r] = "closing"
  /\ handler' = [handler EXCEPT ![r] = "gone"]
  /\ up' = [up EXCEPT ![r] = FALSE]
  /\ UNCHANGED <<page, sock, toServer, toPage, lost, stop, task, outcome,
                 patient>>

\* WebSocketDisconnect, by the page's close or by a loss: the event is set and
\* the endpoint returns without waiting for the run.
Disconnected(r) ==
  /\ handler[r] \in {"idle", "running"}
  /\ toServer[r] = <<>>
  /\ ~up[r] \/ sock[r] = "closing"
  /\ handler' = [handler EXCEPT ![r] = "gone"]
  /\ stop' = [stop EXCEPT ![r] = TRUE]
  /\ up' = [up EXCEPT ![r] = FALSE]
  /\ UNCHANGED <<page, sock, toServer, toPage, lost, task, outcome, patient>>

-----------------------------------------------------------------------------
(* _execute_sequence.                                                      *)

\* After the verdict only a TCP client is closed and reported.
AfterVerdict(r) == IF transport[r] = "tcp" THEN "closing" ELSE "done"

Conclude(r, v) ==
  /\ Send(r, v)
  /\ outcome' = [outcome EXCEPT ![r] = v]
  /\ task' = [task EXCEPT ![r] = AfterVerdict(r)]
  /\ UNCHANGED <<page, sock, up, toServer, lost, handler, stop, patient>>

ClientReady(r) ==
  /\ task[r] = "opening"
  /\ task' = [task EXCEPT ![r] = "working"]
  /\ UNCHANGED <<page, net, handler, stop, outcome, patient>>

\* Slip: the handler of the stop runs on into "completed".
StoppedAndCompleted(r) ==
  /\ task[r] = "working" /\ stop[r]
  /\ toPage' = IF up[r] /\ sock[r] = "open"
               THEN [toPage EXCEPT ![r] = @ \o <<"stopped", "completed">>]
               ELSE toPage
  /\ outcome' = [outcome EXCEPT ![r] = "completed"]
  /\ task' = [task EXCEPT ![r] = AfterVerdict(r)]
  /\ UNCHANGED <<page, sock, up, toServer, lost, handler, stop, patient>>

\* Slip: a step that fails is reported and the next one begun.
StepFailsOn(r) ==
  /\ task[r] = "working" /\ outcome[r] = "none"
  /\ Send(r, "failed")
  /\ outcome' = [outcome EXCEPT ![r] = "failed"]
  /\ UNCHANGED <<page, sock, up, toServer, lost, handler, stop, task, patient>>

\* A stop is looked at before a step, never after the last one, and the step
\* under way may still raise: a stopped run may complete or fail all the same.
NoClient(r) == task[r] = "opening" /\ Conclude(r, "failed")
Complete(r) == task[r] = "working" /\ Conclude(r, "completed")
Stopped(r) == task[r] = "working" /\ stop[r] /\ Conclude(r, "stopped")

\* A step raises.  The TCP client is closed first, and the verdict, sent
\* outside its "async with", follows.
CloseFirst(r) ==
  /\ task[r] = "working" /\ transport[r] = "tcp"
  /\ task' = [task EXCEPT ![r] = "failing"]
  /\ UNCHANGED <<page, net, handler, stop, outcome, patient>>

StepFails(r) ==
  \/ CloseFirst(r)
  \/ task[r] = "working" /\ transport[r] = "shared" /\ Conclude(r, "failed")

ReportFailure(r) == task[r] = "failing" /\ Conclude(r, "failed")

\* The next event of a run whose page is gone cannot be sent, nor can the
\* verdict about that.
SendFails(r) ==
  /\ Active(r) /\ ~up[r]
  /\ outcome' = [outcome EXCEPT ![r] = "broken"]
  /\ task' = [task EXCEPT ![r] = "done"]
  /\ UNCHANGED <<page, net, handler, stop, patient>>

ReportClosed(r) ==
  /\ task[r] = "closing"
  /\ Send(r, "disconnected")
  /\ task' = [task EXCEPT ![r] = "done"]
  /\ UNCHANGED <<page, sock, up, toServer, lost, handler, stop, outcome,
                 patient>>

\* A connection breaks: what is on its way either way is gone.
Lose(r) ==
  /\ up[r] /\ lost = {}
  /\ up' = [up EXCEPT ![r] = FALSE]
  /\ lost' = lost \cup {r}
  /\ toServer' = [toServer EXCEPT ![r] = <<>>]
  /\ toPage' = [toPage EXCEPT ![r] = <<>>]
  /\ UNCHANGED <<page, sock, service, patient>>

PageSteps(r) == OnOpen(r) \/ OnVerdict(r) \/ OnDisconnected(r) \/ OnClose(r)
RunEnds(r) == \/ ClientReady(r) \/ NoClient(r) \/ Stopped(r)
              \/ ReportFailure(r) \/ ReportClosed(r)
EndpointSteps(r) == Receive(r) \/ HandlerReturns(r) \/ Disconnected(r)

Next ==
  \/ StartRun \/ PressStop
  \/ \E r \in Run : \/ PageSteps(r) \/ EndpointSteps(r) \/ RunEnds(r)
                    \/ Complete(r) \/ StepFails(r) \/ SendFails(r) \/ Lose(r)

\* The page's and the service's event loops run; a run need not end by itself.
Fairness == \A r \in Run : /\ WF_vars(PageSteps(r))
                           /\ WF_vars(EndpointSteps(r))
                           /\ WF_vars(RunEnds(r))

Spec == Init /\ [][Next]_vars /\ Fairness

-----------------------------------------------------------------------------
\* To a patient user the verdict of a run is the one its own sequence came to:
\* no message of an earlier run ends the run shown.  And the page says that the
\* connection broke only when one did: the close of the previous run's socket is
\* not taken for it.
VerdictIsOwn ==
  patient => \A r \in Run : /\ shown[r] \in Verdict => outcome[r] = shown[r]
                            /\ shown[r] = "cut" => lost # {}

\* As long as no connection breaks, two sequences never drive devices at once:
\* a run that was given up on the page is over at the service when a patient
\* user starts the next.
OneRunAtATime ==
  patient /\ lost = {} => Cardinality({r \in Run : Active(r)}) <= 1

\* A stop on its way ends the run on the page, however long the sequence still
\* has to go: the message is read during the run and its verdict comes back.
StopEndsTheRun ==
  \A r \in Run : (current = r /\ "stop" \in ToSet(toServer[r]))
                   ~> (current # r \/ ~running)

\* A sequence whose page is gone does not go on: its endpoint sets the stop
\* event as it returns.
OrphanStops == \A r \in Run : handler[r] = "gone" ~> ~Active(r)
=============================================================================
