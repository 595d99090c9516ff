-------------------------- MODULE RunSession_proofs --------------------------
(***************************************************************************)
(* A patient user sees each run's own verdict, and never has two sequences *)
(* at work while no connection breaks, for any number of runs.             *)
(*                                                                         *)
(* The page's listeners act on the run shown, whatever socket they belong  *)
(* to.  So the proof is about the runs that are not shown any more: their  *)
(* sockets are closed, or their one verdict was delivered and nothing else *)
(* that a listener acts on will come (EarlierRest).  That rests on what    *)
(* each run has sent and been sent (Own).                                  *)
(***************************************************************************)
EXTENDS RunSession, FiniteSetTheorems, TLAPS

Typed ==
  /\ running \in BOOLEAN
  /\ current \in 0 .. MaxRuns
  /\ shown \in [Run -> Verdict \cup {"none", "cut"}]
  /\ sock \in [Run -> {"none", "connecting", "open", "closing", "closed"}]
  /\ up \in [Run -> BOOLEAN]
  /\ toServer \in [Run -> Seq({"execute", "stop"})]
  /\ \A r \in Run : Len(toServer[r]) <= MaxQueue
  /\ toPage \in [Run -> Seq(Verdict \cup {"disconnected"})]
  /\ handler \in [Run -> {"none", "idle", "running", "gone"}]
  /\ stop \in [Run -> BOOLEAN]
  /\ task \in [Run -> {"none", "opening", "working", "failing", "closing", "done"}]
  /\ outcome \in [Run -> Verdict \cup {"none", "broken"}]
  /\ transport \in [Run -> {"tcp", "shared"}]
  /\ lost \subseteq Run
  /\ patient \in BOOLEAN

\* Nothing happens on a socket before it opens, nor to a run not started.
Untouched(r) ==
  /\ task[r] = "none" /\ outcome[r] = "none"
  /\ toServer[r] = <<>> /\ toPage[r] = <<>>
Opened(r) ==
  /\ r > current => sock[r] = "none" /\ shown[r] = "none"
  /\ sock[r] \in {"none", "connecting"} => handler[r] = "none"
  /\ sock[r] = "open" => handler[r] # "none"
  /\ handler[r] = "none" => Untouched(r)

\* The page shows a run until it has a verdict on it.
OneShown ==
  /\ running => current >= 1 /\ shown[current] = "none"
  /\ \A r \in 1 .. current : shown[r] = "none" => r = current /\ running

Basic == Typed /\ (\A r \in Run : Opened(r)) /\ OneShown

-----------------------------------------------------------------------------
LEMMA TailOf ==
  ASSUME NEW S, NEW s \in Seq(S), s # <<>>
  PROVE  /\ Tail(s) \in Seq(S) /\ Len(Tail(s)) = Len(s) - 1 /\ Head(s) = s[1]
         /\ Head(s) \in S /\ Len(s) \in Nat \ {0}
         /\ \A n \in 1 .. Len(Tail(s)) : n + 1 \in 1 .. Len(s) /\ Tail(s)[n] = s[n + 1]
  OBVIOUS

LEMMA AppendOf ==
  ASSUME NEW S, NEW s \in Seq(S), NEW e \in S
  PROVE  /\ Append(s, e) \in Seq(S) /\ Len(Append(s, e)) = Len(s) + 1
         /\ Len(s) \in Nat /\ Append(s, e) # <<>>
         /\ \A n \in 1 .. Len(Append(s, e)) :
              \/ n \in 1 .. Len(s) /\ Append(s, e)[n] = s[n]
              \/ n = Len(s) + 1 /\ Append(s, e)[n] = e
  OBVIOUS

LEMMA BasicInit == Init => Basic
<1> SUFFICES ASSUME Init PROVE Basic
  OBVIOUS
<1>1. /\ toServer \in [Run -> Seq({"execute", "stop"})]
      /\ toPage \in [Run -> Seq(Verdict \cup {"disconnected"})]
      /\ \A r \in Run : Len(toServer[r]) <= MaxQueue
  BY SessionAssumption DEF Init
<1>2. Typed
  <2>1. up \in [Run -> BOOLEAN] /\ stop \in [Run -> BOOLEAN] /\ running \in BOOLEAN
    BY DEF Init
  <2>2. /\ current \in 0 .. MaxRuns /\ lost \subseteq Run
        /\ transport \in [Run -> {"tcp", "shared"}] /\ patient \in BOOLEAN
    BY SessionAssumption DEF Init
  <2>3. /\ shown \in [Run -> Verdict \cup {"none", "cut"}]
        /\ outcome \in [Run -> Verdict \cup {"none", "broken"}]
    BY DEF Init
  <2>4. /\ sock \in [Run -> {"none", "connecting", "open", "closing", "closed"}]
        /\ handler \in [Run -> {"none", "idle", "running", "gone"}]
        /\ task \in [Run -> {"none", "opening", "working", "failing", "closing", "done"}]
    BY DEF Init
  <2> QED
    BY <1>1, <2>1, <2>2, <2>3, <2>4 DEF Typed
<1>3. \A r \in Run : Opened(r)
  BY DEF Init, Opened, Untouched
<1>4. OneShown
  BY DEF Init, OneShown
<1> QED
  BY <1>2, <1>3, <1>4 DEF Basic

\* What a step on run r leaves alone.
LEMMA OthersOpened ==
  ASSUME NEW j, Opened(j), current' = current,
         sock'[j] = sock[j], handler'[j] = handler[j], task'[j] = task[j],
         outcome'[j] = outcome[j], toServer'[j] = toServer[j], toPage'[j] = toPage[j],
         j > current => shown'[j] = shown[j]
  PROVE  Opened(j)'
  BY DEF Opened, Untouched

LEMMA SendTyped ==
  ASSUME Typed, NEW r \in Run, NEW m \in Verdict \cup {"disconnected"}, Send(r, m)
  PROVE  /\ toPage' \in [Run -> Seq(Verdict \cup {"disconnected"})]
         /\ \A j \in Run : j # r => toPage'[j] = toPage[j]
         /\ toPage'[r] = IF up[r] /\ sock[r] = "open" THEN Append(toPage[r], m)
                         ELSE toPage[r]
  BY AppendOf DEF Typed, Send

LEMMA SendOnCurrentTyped ==
  ASSUME Typed, current \in Run, NEW m \in {"execute", "stop"}, SendOnCurrent(m)
  PROVE  /\ toServer' \in [Run -> Seq({"execute", "stop"})]
         /\ \A j \in Run : j # current => toServer'[j] = toServer[j]
         /\ toServer'[current] = IF sock'[current] = "open" /\ up[current]
                                 THEN Append(toServer[current], m)
                                 ELSE toServer[current]
         /\ \A j \in Run : Len(toServer'[j]) <= MaxQueue
<1>1. /\ toServer[current] \in Seq({"execute", "stop"})
      /\ Len(toServer[current]) < MaxQueue /\ MaxQueue \in Nat
      /\ toServer \in [Run -> Seq({"execute", "stop"})]
      /\ \A j \in Run : Len(toServer[j]) <= MaxQueue
  BY SessionAssumption DEF Typed, SendOnCurrent
<1>2. /\ Append(toServer[current], m) \in Seq({"execute", "stop"})
      /\ Len(Append(toServer[current], m)) <= MaxQueue
  BY <1>1, AppendOf
<1> QED
  BY <1>1, <1>2 DEF SendOnCurrent

LEMMA FinishShown ==
  ASSUME Typed, OneShown, NEW v \in Verdict \cup {"cut"}, Finish(v),
         current \in Run, current' = current
  PROVE  /\ running' = FALSE /\ OneShown'
         /\ shown' \in [Run -> Verdict \cup {"none", "cut"}]
         /\ \A j \in Run : j # current => shown'[j] = shown[j]
         /\ shown'[current] = IF shown[current] = "none" THEN v ELSE shown[current]
  BY DEF Typed, OneShown, Finish, Verdict, Run

-----------------------------------------------------------------------------
(* The page's steps keep Basic.                                            *)

LEMMA BasicStart == ASSUME Basic, StartRun PROVE Basic'
<1>1. /\ Typed /\ ~running /\ current + 1 \in Run /\ current' = current + 1
      /\ running' = TRUE /\ shown' = shown
      /\ sock' = [sock EXCEPT ![current + 1] = "connecting"]
      /\ up' = [up EXCEPT ![current + 1] = TRUE]
      /\ UNCHANGED <<toServer, toPage, service, transport, lost, patient>>
  BY SessionAssumption DEF Basic, Typed, StartRun, Run
<1>2. Typed'
  BY <1>1, SessionAssumption DEF Typed, service, Run
<1>3. ASSUME NEW r \in Run PROVE Opened(r)'
  BY <1>1, <1>3 DEF Basic, Typed, Opened, Untouched, service, Run
<1>4. OneShown'
  <2>1. shown[current + 1] = "none"
    BY <1>1 DEF Basic, Opened, Typed
  <2>2. \A r \in 1 .. current : shown[r] # "none"
    BY <1>1 DEF Basic, OneShown
  <2> QED
    BY <1>1, <2>1, <2>2 DEF OneShown, Typed
<1> QED
  BY <1>2, <1>3, <1>4 DEF Basic

LEMMA BasicOpen == ASSUME Basic, NEW r \in Run, OnOpen(r) PROVE Basic'
<1>1. /\ Typed /\ OneShown /\ sock[r] = "connecting" /\ SendOnCurrent("execute")
      /\ sock' = [sock EXCEPT ![r] = "open"]
      /\ handler' = [handler EXCEPT ![r] = "idle"]
      /\ UNCHANGED <<running, current, shown, transport, up, toPage, lost, stop,
                     task, outcome, patient>>
  BY DEF Basic, OnOpen, page
<1>2. r <= current /\ current \in Run
  BY <1>1, SessionAssumption DEF Basic, Opened, Typed, Run
<1>3. Typed'
  BY <1>1, <1>2, SendOnCurrentTyped DEF Typed
<1>4. ASSUME NEW j \in Run PROVE Opened(j)'
  <2>1. Opened(j) /\ (sock'[current] = "open" => handler'[current] # "none")
    BY <1>1, <1>2 DEF Basic, Opened, Typed
  <2>2. handler'[j] = "none" => toServer'[j] = toServer[j]
    BY <1>1, <1>2, <2>1, SendOnCurrentTyped
  <2> QED
    BY <1>1, <1>2, <2>1, <2>2 DEF Opened, Untouched, Typed, Run
<1>5. OneShown'
  BY <1>1 DEF OneShown
<1> QED
  BY <1>3, <1>4, <1>5 DEF Basic

LEMMA BasicPress == ASSUME Basic, PressStop PROVE Basic'
<1>1. /\ Typed /\ OneShown /\ running /\ sock[current] = "open" /\ sock' = sock
      /\ SendOnCurrent("stop") /\ current \in Run
      /\ UNCHANGED <<running, current, shown, transport, up, toPage, lost, handler,
                     stop, task, outcome, patient>>
  BY SessionAssumption DEF Basic, OneShown, Typed, PressStop, page, service, Run
<1>2. Typed'
  BY <1>1, SendOnCurrentTyped DEF Typed
<1>3. ASSUME NEW j \in Run PROVE Opened(j)'
  BY <1>1, SendOnCurrentTyped DEF Basic, Opened, Untouched
<1>4. OneShown'
  BY <1>1 DEF OneShown
<1> QED
  BY <1>2, <1>3, <1>4 DEF Basic

LEMMA BasicVerdict == ASSUME Basic, NEW r \in Run, OnVerdict(r) PROVE Basic'
<1>1. /\ Typed /\ OneShown /\ sock[r] = "open" /\ toPage[r] # <<>>
      /\ Finish(Head(toPage[r])) /\ Head(toPage[r]) \in Verdict
      /\ toPage' = [toPage EXCEPT ![r] = Tail(@)]
      /\ UNCHANGED <<current, transport, sock, up, toServer, lost, handler, stop,
                     task, outcome, patient>>
  BY DEF Basic, OnVerdict, service
<1>2. current \in Run
  BY <1>1, SessionAssumption DEF Basic, Opened, Typed, Run
<1>3. Typed'
  <2>1. toPage' \in [Run -> Seq(Verdict \cup {"disconnected"})]
    BY <1>1, TailOf DEF Typed
  <2> QED
    BY <1>1, <1>2, <2>1, FinishShown DEF Typed
<1>4. ASSUME NEW j \in Run PROVE Opened(j)'
  <2>1. Opened(j) /\ Opened(r)
    BY DEF Basic
  <2>2. j > current => j # current
    BY <1>2 DEF Run
  <2>3. j > current => shown'[j] = shown[j]
    BY <1>1, <1>2, <2>2, FinishShown
  <2>4. toPage'[j] = toPage[j] \/ handler[j] # "none"
    BY <1>1, <2>1 DEF Opened, Typed
  <2> QED
    BY <1>1, <2>1, <2>3, <2>4 DEF Opened, Untouched
<1>5. OneShown'
  BY <1>1, <1>2, FinishShown
<1> QED
  BY <1>3, <1>4, <1>5 DEF Basic

LEMMA BasicDisconnected == ASSUME Basic, NEW r \in Run, OnDisconnected(r) PROVE Basic'
<1>1. /\ Typed /\ OneShown /\ sock[r] = "open" /\ toPage[r] # <<>>
      /\ UNCHANGED <<running, current, shown, transport, up, toServer, lost, handler,
                     stop, task, outcome, patient>>
  BY DEF Basic, OnDisconnected, page, service
<1>2. current \in Run
  BY <1>1, SessionAssumption DEF Basic, Opened, Typed, Run
<1>3. Tail(toPage[r]) \in Seq(Verdict \cup {"disconnected"})
  BY <1>1, TailOf DEF Typed
<1>4. /\ toPage' \in [Run -> Seq(Verdict \cup {"disconnected"})]
      /\ \A j \in Run : toPage[j] = <<>> => toPage'[j] = <<>>
      /\ \/ sock' = sock
         \/ sock[current] = "open" /\ sock' = [sock EXCEPT ![current] = "closing"]
  <2>1. toPage \in [Run -> Seq(Verdict \cup {"disconnected"})]
        /\ <<>> \in Seq(Verdict \cup {"disconnected"})
    BY <1>1 DEF Typed
  <2>2. CASE sock[current] = "open"
    BY <1>1, <1>2, <1>3, <2>1, <2>2 DEF OnDisconnected
  <2>3. CASE sock[current] # "open"
    BY <1>1, <1>2, <1>3, <2>1, <2>3 DEF OnDisconnected
  <2> QED
    BY <2>2, <2>3
<1>5. Typed'
  BY <1>1, <1>2, <1>4 DEF Typed
<1>6. ASSUME NEW j \in Run PROVE Opened(j)'
  <2>1. Opened(j) /\ Opened(current)
    BY <1>2 DEF Basic
  <2>2. sock'[j] = sock[j] \/ (j = current /\ sock'[j] = "closing")
    BY <1>1, <1>2, <1>4 DEF Typed
  <2> QED
    BY <1>1, <1>2, <1>4, <2>1, <2>2 DEF Opened, Untouched, Typed, Run
<1>7. OneShown'
  BY <1>1 DEF OneShown
<1> QED
  BY <1>5, <1>6, <1>7 DEF Basic

LEMMA BasicClose == ASSUME Basic, NEW r \in Run, OnClose(r) PROVE Basic'
<1>1. /\ Typed /\ OneShown /\ sock[r] \in {"connecting", "open", "closing"}
      /\ sock' = [sock EXCEPT ![r] = "closed"]
      /\ UNCHANGED <<current, transport, up, toServer, toPage, lost, handler, stop,
                     task, outcome, patient>>
  BY DEF Basic, OnClose, service
<1>2. current \in Run /\ r <= current
  <2>1. Opened(r) /\ current \in 0 .. MaxRuns
    BY DEF Basic, Typed
  <2>2. ~(r > current)
    BY <1>1, <2>1 DEF Opened
  <2> QED
    BY <2>1, <2>2, SessionAssumption DEF Run
<1>3. /\ running' \in BOOLEAN /\ OneShown'
      /\ shown' \in [Run -> Verdict \cup {"none", "cut"}]
      /\ \A j \in Run : j # current => shown'[j] = shown[j]
  <2>1. CASE running /\ Finish("cut")
    BY <1>1, <1>2, <2>1, FinishShown
  <2>2. CASE UNCHANGED <<running, shown>>
    BY <1>1, <2>2 DEF Typed, OneShown
  <2> QED
    BY <2>1, <2>2 DEF OnClose
<1>4. Typed'
  BY <1>1, <1>3 DEF Typed
<1>5. ASSUME NEW j \in Run PROVE Opened(j)'
  BY <1>1, <1>2, <1>3 DEF Basic, Opened, Untouched, Typed, Run
<1> QED
  BY <1>3, <1>4, <1>5 DEF Basic

-----------------------------------------------------------------------------
(* The service's steps keep Basic: the page sees the messages only.        *)

LEMMA BasicService ==
  ASSUME Basic, NEW r \in Run, UNCHANGED <<page, sock, patient>>,
         up' \in [Run -> BOOLEAN], lost' \subseteq Run,
         toServer' \in [Run -> Seq({"execute", "stop"})],
         \A j \in Run : Len(toServer'[j]) <= MaxQueue,
         toPage' \in [Run -> Seq(Verdict \cup {"disconnected"})],
         handler' \in [Run -> {"none", "idle", "running", "gone"}],
         stop' \in [Run -> BOOLEAN],
         task' \in [Run -> {"none", "opening", "working", "failing", "closing", "done"}],
         outcome' \in [Run -> Verdict \cup {"none", "broken"}],
         \A j \in Run : j # r =>
           /\ handler'[j] = handler[j] /\ task'[j] = task[j] /\ outcome'[j] = outcome[j]
           /\ toServer'[j] = toServer[j] /\ toPage'[j] = toPage[j],
         \/ handler[r] # "none" /\ handler'[r] # "none"
         \/ handler'[r] = handler[r] /\ Untouched(r)'
  PROVE  Basic'
<1>1. Typed'
  BY DEF Basic, Typed, page
<1>2. ASSUME NEW j \in Run PROVE Opened(j)'
  <2>1. Opened(j) /\ UNCHANGED <<current, shown, sock>>
    BY DEF Basic, page
  <2>2. CASE j # r
    BY <2>1, <2>2, OthersOpened
  <2>3. CASE j = r
    BY <2>1, <2>3 DEF Opened
  <2> QED
    BY <2>2, <2>3
<1>3. OneShown'
  BY DEF Basic, OneShown, page
<1> QED
  BY <1>1, <1>2, <1>3 DEF Basic

LEMMA BasicReceive == ASSUME Basic, NEW r \in Run, Receive(r) PROVE Basic'
<1>1. /\ Typed /\ toServer[r] # <<>>
      /\ toServer' = [toServer EXCEPT ![r] = Tail(@)]
      /\ handler[r] \in {"idle", "running"}
      /\ UNCHANGED <<page, sock, up, lost, patient>>
  BY DEF Basic, Receive, Execute, Refuse, UnknownOperation, WhileRunning
<1>2. /\ toServer' \in [Run -> Seq({"execute", "stop"})]
      /\ \A j \in Run : Len(toServer'[j]) <= MaxQueue
  <2>1. /\ toServer[r] \in Seq({"execute", "stop"})
        /\ Len(toServer[r]) <= MaxQueue /\ MaxQueue \in Nat
    BY <1>1, SessionAssumption DEF Typed
  <2>2. /\ Tail(toServer[r]) \in Seq({"execute", "stop"})
        /\ Len(Tail(toServer[r])) <= MaxQueue
    BY <1>1, <2>1, TailOf
  <2> QED
    BY <1>1, <2>2 DEF Typed
<1>3. /\ toPage' \in [Run -> Seq(Verdict \cup {"disconnected"})]
      /\ \A j \in Run : j # r => toPage'[j] = toPage[j]
  <2>1. CASE Send(r, "failed")
    BY <1>1, <2>1, SendTyped DEF Verdict
  <2>2. CASE UNCHANGED toPage
    BY <1>1, <2>2 DEF Typed
  <2> QED
    BY <2>1, <2>2 DEF Receive, Execute, Refuse, UnknownOperation, WhileRunning
<1>4. /\ handler' \in [Run -> {"none", "idle", "running", "gone"}]
      /\ stop' \in [Run -> BOOLEAN]
      /\ task' \in [Run -> {"none", "opening", "working", "failing", "closing", "done"}]
      /\ outcome' \in [Run -> Verdict \cup {"none", "broken"}]
      /\ handler'[r] # "none"
      /\ \A j \in Run : j # r => /\ handler'[j] = handler[j] /\ task'[j] = task[j]
                                /\ outcome'[j] = outcome[j]
  <2> USE <1>1 DEF Typed
  <2>1. CASE Execute(r)
    BY <2>1 DEF Execute
  <2>2. CASE Refuse(r)
    BY <2>2 DEF Refuse, Verdict
  <2>3. CASE UnknownOperation(r)
    BY <2>3 DEF UnknownOperation, service
  <2>4. CASE WhileRunning(r)
    BY <2>4 DEF WhileRunning
  <2> QED
    BY <2>1, <2>2, <2>3, <2>4 DEF Receive
<1>5. /\ UNCHANGED <<page, sock, patient>>
      /\ up' \in [Run -> BOOLEAN] /\ lost' \subseteq Run
      /\ \A j \in Run : j # r => toServer'[j] = toServer[j]
      /\ handler[r] # "none"
  BY <1>1 DEF Typed
<1> QED
  BY <1>2, <1>3, <1>4, <1>5, BasicService

LEMMA BasicConclude ==
  ASSUME Basic, NEW r \in Run, NEW v \in Verdict, Conclude(r, v), Active(r)
  PROVE  Basic'
<1>1. /\ Typed /\ handler[r] # "none" /\ Send(r, v)
      /\ outcome' = [outcome EXCEPT ![r] = v]
      /\ task' = [task EXCEPT ![r] = AfterVerdict(r)]
      /\ UNCHANGED <<page, sock, up, toServer, lost, handler, stop, patient>>
  BY DEF Basic, Opened, Untouched, Active, Conclude
<1>2. AfterVerdict(r) \in {"closing", "done"}
  BY DEF AfterVerdict
<1>3. v \in Verdict \cup {"disconnected"}
  OBVIOUS
<1>4. /\ toPage' \in [Run -> Seq(Verdict \cup {"disconnected"})]
      /\ \A j \in Run : j # r => toPage'[j] = toPage[j]
  BY <1>1, <1>3, SendTyped
<1>5. /\ UNCHANGED <<page, sock, patient>>
      /\ up' \in [Run -> BOOLEAN] /\ lost' \subseteq Run /\ stop' \in [Run -> BOOLEAN]
      /\ toServer' \in [Run -> Seq({"execute", "stop"})]
      /\ \A j \in Run : Len(toServer'[j]) <= MaxQueue /\ toServer'[j] = toServer[j]
      /\ handler' \in [Run -> {"none", "idle", "running", "gone"}] /\ handler' = handler
      /\ task' \in [Run -> {"none", "opening", "working", "failing", "closing", "done"}]
      /\ outcome' \in [Run -> Verdict \cup {"none", "broken"}]
      /\ \A j \in Run : j # r => task'[j] = task[j] /\ outcome'[j] = outcome[j]
  BY <1>1, <1>2 DEF Typed
<1>6. \A j \in Run : Len(toServer'[j]) <= MaxQueue
  BY <1>5
<1>7. \A j \in Run : j # r =>
        /\ handler'[j] = handler[j] /\ task'[j] = task[j] /\ outcome'[j] = outcome[j]
        /\ toServer'[j] = toServer[j] /\ toPage'[j] = toPage[j]
  BY <1>4, <1>5
<1>8. handler[r] # "none" /\ handler'[r] # "none"
  BY <1>1, <1>5
<1> QED
  BY <1>4, <1>5, <1>6, <1>7, <1>8, BasicService

LEMMA BasicLose == ASSUME Basic, NEW r \in Run, Lose(r) PROVE Basic'
<1>1. <<>> \in Seq({"execute", "stop"}) /\ <<>> \in Seq(Verdict \cup {"disconnected"})
      /\ Len(<<>>) <= MaxQueue
  BY SessionAssumption
<1>2. Typed /\ Opened(r)
  BY DEF Basic
<1>3. /\ up' \in [Run -> BOOLEAN] /\ lost' \subseteq Run
      /\ toServer' \in [Run -> Seq({"execute", "stop"})]
      /\ toPage' \in [Run -> Seq(Verdict \cup {"disconnected"})]
      /\ \A j \in Run : Len(toServer'[j]) <= MaxQueue
      /\ \A j \in Run : j # r => toServer'[j] = toServer[j] /\ toPage'[j] = toPage[j]
      /\ toServer'[r] = <<>> /\ toPage'[r] = <<>>
      /\ UNCHANGED <<page, sock, patient, handler, stop, task, outcome>>
  BY <1>1, <1>2 DEF Lose, Typed, service
<1>4. handler[r] # "none" \/ Untouched(r)'
  BY <1>2, <1>3 DEF Opened, Untouched
<1> QED
  BY <1>2, <1>3, <1>4, BasicService DEF Typed

LEMMA BasicTask ==
  ASSUME Basic, NEW r \in Run,
         \/ HandlerReturns(r) \/ Disconnected(r) \/ ClientReady(r) \/ SendFails(r)
         \/ CloseFirst(r) \/ ReportClosed(r)
  PROVE  Basic'
<1>1. Typed /\ Opened(r)
  BY DEF Basic
<1>2. CASE HandlerReturns(r)
  BY <1>1, <1>2, BasicService DEF HandlerReturns, Typed, net
<1>3. CASE Disconnected(r)
  BY <1>1, <1>3, BasicService DEF Disconnected, Typed
<1>4. CASE ClientReady(r)
  BY <1>1, <1>4, BasicService DEF ClientReady, Typed, net, Opened, Untouched
<1>5. CASE SendFails(r)
  BY <1>1, <1>5, BasicService DEF SendFails, Active, Typed, net, Opened, Untouched
<1>6. CASE ReportClosed(r)
  <2>1. /\ Send(r, "disconnected") /\ handler[r] # "none"
        /\ task' = [task EXCEPT ![r] = "done"]
        /\ UNCHANGED <<page, sock, up, toServer, lost, handler, stop, outcome, patient>>
    BY <1>1, <1>6 DEF ReportClosed, Opened, Untouched
  <2>2. /\ toPage' \in [Run -> Seq(Verdict \cup {"disconnected"})]
        /\ \A j \in Run : j # r => toPage'[j] = toPage[j]
    BY <1>1, <2>1, SendTyped
  <2>3. /\ task' \in [Run -> {"none", "opening", "working", "failing", "closing", "done"}]
        /\ \A j \in Run : j # r => task'[j] = task[j]
    BY <1>1, <2>1 DEF Typed
  <2> QED
    BY <1>1, <2>1, <2>2, <2>3, BasicService DEF Typed
<1>7. CASE CloseFirst(r)
  BY <1>1, <1>7, BasicService DEF CloseFirst, Typed, net, Opened, Untouched
<1> QED
  BY <1>2, <1>3, <1>4, <1>5, <1>6, <1>7

LEMMA BasicStep == Basic /\ [Next]_vars => Basic'
<1> SUFFICES ASSUME Basic, [Next]_vars PROVE Basic'
  OBVIOUS
<1>1. CASE UNCHANGED vars
  BY <1>1 DEF vars, Basic, Typed, Opened, Untouched, OneShown
<1>2. ASSUME NEW r \in Run,
             \/ NoClient(r) \/ StepFails(r) \/ Complete(r) \/ Stopped(r)
             \/ ReportFailure(r)
      PROVE  Basic'
  BY <1>2, BasicConclude, BasicTask
  DEF NoClient, StepFails, Complete, Stopped, ReportFailure, Active, Verdict
<1>3. ASSUME NEW r \in Run, PageSteps(r) PROVE Basic'
  BY <1>3, BasicOpen, BasicVerdict, BasicDisconnected, BasicClose DEF PageSteps
<1>4. ASSUME NEW r \in Run, EndpointSteps(r) PROVE Basic'
  BY <1>4, BasicReceive, BasicTask DEF EndpointSteps
<1>5. ASSUME NEW r \in Run, RunEnds(r) PROVE Basic'
  BY <1>2, <1>5, BasicTask DEF RunEnds
<1> QED
  BY <1>1, <1>2, <1>3, <1>4, <1>5, BasicStart, BasicPress, BasicLose, BasicTask DEF Next

LEMMA BasicInvariant == Spec => []Basic
  BY BasicInit, BasicStep, PTL DEF Spec

\* The types of all variables, for any number of runs and of waiting messages.
THEOREM TypeCorrect == Spec => []TypeOK
<1>1. Basic => TypeOK
  BY DEF Basic, Typed, TypeOK
<1> QED
  BY <1>1, BasicInvariant, PTL

-----------------------------------------------------------------------------
(* What a run has sent and been sent, to a patient user.                   *)

NoVerdict(r) == \A n \in 1 .. Len(toPage[r]) : toPage[r][n] \notin Verdict
NoExecute(r) == \A n \in 1 .. Len(toServer[r]) : toServer[r][n] # "execute"

\* No verdict of run r is on its way, and none will be.
Quiet(r) == /\ sock[r] \notin {"none", "connecting"}
            /\ NoExecute(r) /\ ~Active(r) /\ NoVerdict(r)

\* One execute is sent, and before anything else.
ExecuteFirst(r) ==
  \A n \in 1 .. Len(toServer[r]) :
    toServer[r][n] = "execute" =>
      n = 1 /\ task[r] = "none" /\ outcome[r] = "none" /\ toPage[r] = <<>>
\* Nothing is sent before the verdict, and it is the outcome.
VerdictFirst(r) ==
  /\ Active(r) => toPage[r] = <<>> /\ outcome[r] = "none"
  /\ \A n \in 1 .. Len(toPage[r]) :
       toPage[r][n] \in Verdict => n = 1 /\ toPage[r][n] = outcome[r]
\* A verdict shown is the run's, and its last.
ShownIsLast(r) == shown[r] \in Verdict => shown[r] = outcome[r] /\ Quiet(r)
\* The service closes TCP connections only.
ClosedIsTcp(r) ==
  /\ task[r] = "closing" \/ sock[r] = "closing" => transport[r] = "tcp"
  /\ \A n \in 1 .. Len(toPage[r]) : toPage[r][n] = "disconnected" => transport[r] = "tcp"
\* As long as no connection broke, a socket closes after its verdict was shown.
Unbroken(r) ==
  lost = {} =>
    /\ ~up[r] => sock[r] \in {"none", "closing", "closed"}
    /\ sock[r] \in {"closing", "closed"} => shown[r] \in Verdict
    /\ shown[r] # "cut"
    /\ sock[r] = "open" /\ task[r] \in {"closing", "done"} =>
         shown[r] \in Verdict \/ (toPage[r] # <<>> /\ toPage[r][1] \in Verdict)
    /\ sock[r] = "open" /\ (\E n \in 1 .. Len(toPage[r]) : toPage[r][n] = "disconnected")
         => task[r] = "done"

Own(r) == /\ ExecuteFirst(r) /\ VerdictFirst(r) /\ ShownIsLast(r) /\ ClosedIsTcp(r)
          /\ Unbroken(r)

\* An earlier run is over: its socket closed, or left open with nothing to come.
Rests(r) == \/ sock[r] = "closed"
            \/ transport[r] = "shared" /\ shown[r] \in Verdict /\ sock[r] # "closing"
EarlierRest == \A r \in 1 .. current - 1 : Rests(r)

Patient == patient => (\A r \in Run : Own(r)) /\ EarlierRest

LEMMA OwnFrame ==
  ASSUME NEW j, Own(j), transport' = transport, lost' = {} => lost = {},
         /\ sock'[j] = sock[j] /\ up'[j] = up[j] /\ shown'[j] = shown[j]
         /\ toServer'[j] = toServer[j] /\ toPage'[j] = toPage[j]
         /\ task'[j] = task[j] /\ outcome'[j] = outcome[j]
  PROVE  Own(j)'
  BY DEF Own, ExecuteFirst, VerdictFirst, ShownIsLast, ClosedIsTcp, Unbroken,
         Quiet, NoVerdict, NoExecute, Active

\* Nothing an earlier run's listeners act on is to come.
LEMMA EarlierSilent ==
  ASSUME Basic, \A r \in Run : Own(r), EarlierRest, NEW r \in Run, r # current,
         sock[r] \in {"connecting", "open", "closing"}
  PROVE  /\ sock[r] = "open" /\ NoVerdict(r)
         /\ \A n \in 1 .. Len(toPage[r]) : toPage[r][n] # "disconnected"
         /\ up[r] \/ lost # {}
<1>1. r \in 1 .. current - 1
  BY SessionAssumption DEF Basic, Opened, Typed, Run
<1>2. transport[r] = "shared" /\ shown[r] \in Verdict /\ sock[r] # "closing"
  BY <1>1 DEF EarlierRest, Rests
<1> QED
  BY <1>2 DEF Own, ShownIsLast, Quiet, ClosedIsTcp, Unbroken, Basic, Typed

LEMMA PatientInit == Init => Patient
<1> SUFFICES ASSUME Init PROVE Patient
  OBVIOUS
<1>1. ASSUME NEW r \in Run PROVE Own(r)
  BY DEF Init, Own, ExecuteFirst, VerdictFirst, ShownIsLast, ClosedIsTcp, Unbroken,
         Active, Verdict
<1>2. EarlierRest
  BY DEF Init, EarlierRest
<1> QED
  BY <1>1, <1>2 DEF Patient

-----------------------------------------------------------------------------
(* The page's steps.                                                       *)

LEMMA PatientStart == ASSUME Basic, Patient, StartRun PROVE Patient'
<1> SUFFICES ASSUME patient' PROVE (\A r \in Run : Own(r)') /\ EarlierRest'
  BY DEF Patient
<1>1. /\ Typed /\ ~running /\ current + 1 \in Run /\ current' = current + 1
      /\ shown' = shown /\ patient
      /\ sock' = [sock EXCEPT ![current + 1] = "connecting"]
      /\ up' = [up EXCEPT ![current + 1] = TRUE]
      /\ UNCHANGED <<toServer, toPage, task, outcome, transport, lost>>
      /\ \A r \in 1 .. current : Settled(r)
  BY SessionAssumption DEF Basic, Typed, StartRun, service, Run
<1>2. (\A r \in Run : Own(r)) /\ EarlierRest
  BY <1>1 DEF Patient
<1>3. ASSUME NEW r \in Run PROVE Own(r)'
  <2>1. CASE r # current + 1
    BY <1>1, <1>2, <2>1, OwnFrame DEF Typed
  <2>2. CASE r = current + 1
    <3>1. Untouched(r) /\ shown[r] = "none" /\ sock[r] = "none"
      BY <1>1, <2>2 DEF Basic, Opened, Typed
    <3> QED
      BY <1>1, <2>2, <3>1
      DEF Own, ExecuteFirst, VerdictFirst, ShownIsLast, ClosedIsTcp, Unbroken,
          Active, Verdict, Untouched, Typed
  <2> QED
    BY <2>1, <2>2
<1>4. ASSUME NEW r \in 1 .. current PROVE Rests(r)'
  <2>1. r \in Run /\ r # current + 1
    BY <1>1, SessionAssumption DEF Typed, Run
  <2>2. shown[r] # "none"
    BY <1>1, <1>4 DEF Basic, OneShown
  <2>3. Rests(r)
    BY <1>1, <1>2, <1>4, <2>1, <2>2 DEF Settled, Rests, Own, ClosedIsTcp, Typed, Verdict
  <2> QED
    BY <1>1, <2>1, <2>3 DEF Rests, Typed
<1> QED
  BY <1>1, <1>3, <1>4 DEF EarlierRest, Typed

LEMMA PatientOpen == ASSUME Basic, Patient, NEW r \in Run, OnOpen(r) PROVE Patient'
<1> SUFFICES ASSUME patient' PROVE (\A j \in Run : Own(j)') /\ EarlierRest'
  BY DEF Patient
<1>1. /\ Typed /\ sock[r] = "connecting" /\ up[r] /\ patient
      /\ SendOnCurrent("execute")
      /\ sock' = [sock EXCEPT ![r] = "open"]
      /\ UNCHANGED <<current, shown, transport, up, toPage, lost, task, outcome>>
  BY DEF Basic, OnOpen, page
<1>2. (\A j \in Run : Own(j)) /\ EarlierRest
  BY <1>1 DEF Patient
<1>3. r = current
  BY <1>1, <1>2, EarlierSilent
<1>4. Untouched(r) /\ shown[r] \notin Verdict
  BY <1>1, <1>2 DEF Basic, Opened, Own, ShownIsLast, Quiet
<1>5. /\ \A j \in Run : j # r => toServer'[j] = toServer[j]
      /\ toServer'[r] = Append(<<>>, "execute")
  BY <1>1, <1>3, <1>4, SendOnCurrentTyped DEF Typed, Untouched
<1>6. ASSUME NEW j \in Run PROVE Own(j)'
  <2>1. CASE j # r
    BY <1>1, <1>2, <1>5, <2>1, OwnFrame DEF Typed
  <2>2. CASE j = r
    BY <1>1, <1>2, <1>4, <1>5, <2>2
    DEF Own, ExecuteFirst, VerdictFirst, ShownIsLast, ClosedIsTcp, Unbroken,
        Active, Untouched, Typed
  <2> QED
    BY <2>1, <2>2
<1>7. EarlierRest'
  BY <1>1, <1>2, <1>3 DEF EarlierRest, Rests, Typed
<1> QED
  BY <1>6, <1>7

LEMMA PatientPress == ASSUME Basic, Patient, PressStop PROVE Patient'
<1> SUFFICES ASSUME patient' PROVE (\A j \in Run : Own(j)') /\ EarlierRest'
  BY DEF Patient
<1>1. /\ Typed /\ sock[current] = "open" /\ current \in Run /\ patient
      /\ SendOnCurrent("stop")
      /\ UNCHANGED <<current, shown, sock, transport, up, toPage, lost, task, outcome>>
  BY SessionAssumption DEF Basic, OneShown, Typed, PressStop, page, service, Run
<1>2. (\A j \in Run : Own(j)) /\ EarlierRest
  BY <1>1 DEF Patient
<1>3. /\ \A j \in Run : j # current => toServer'[j] = toServer[j]
      /\ toServer'[current] \in {toServer[current], Append(toServer[current], "stop")}
      /\ toServer[current] \in Seq({"execute", "stop"})
  BY <1>1, SendOnCurrentTyped DEF Typed
<1>4. \A n \in 1 .. Len(toServer'[current]) :
        toServer'[current][n] = "execute" =>
          n \in 1 .. Len(toServer[current]) /\ toServer[current][n] = "execute"
  BY <1>3, AppendOf
<1>5. ASSUME NEW j \in Run PROVE Own(j)'
  <2>1. CASE j # current
    BY <1>1, <1>2, <1>3, <2>1, OwnFrame
  <2>2. CASE j = current
    BY <1>1, <1>2, <1>4, <2>2
    DEF Own, ExecuteFirst, VerdictFirst, ShownIsLast, ClosedIsTcp, Unbroken,
        Active, Quiet, NoExecute, NoVerdict
  <2> QED
    BY <2>1, <2>2
<1>6. EarlierRest'
  BY <1>1, <1>2 DEF EarlierRest, Rests
<1> QED
  BY <1>5, <1>6

\* What is left of the messages after the first was taken.
LEMMA TailPage ==
  ASSUME Typed, NEW r \in Run, toPage[r] # <<>>, toPage'[r] = Tail(toPage[r])
  PROVE  /\ Head(toPage[r]) = toPage[r][1] /\ 1 \in 1 .. Len(toPage[r])
         /\ \A n \in 1 .. Len(toPage'[r]) :
              n + 1 \in 1 .. Len(toPage[r]) /\ n + 1 # 1
              /\ toPage'[r][n] = toPage[r][n + 1]
<1>1. toPage[r] \in Seq(Verdict \cup {"disconnected"})
  BY DEF Typed
<1> QED
  BY <1>1, TailOf

LEMMA PatientVerdict == ASSUME Basic, Patient, NEW r \in Run, OnVerdict(r) PROVE Patient'
<1> SUFFICES ASSUME patient' PROVE (\A j \in Run : Own(j)') /\ EarlierRest'
  BY DEF Patient
<1>1. /\ Typed /\ OneShown /\ patient /\ sock[r] = "open" /\ toPage[r] # <<>>
      /\ Finish(Head(toPage[r])) /\ Head(toPage[r]) \in Verdict
      /\ toPage' = [toPage EXCEPT ![r] = Tail(@)]
      /\ UNCHANGED <<current, transport, sock, up, toServer, lost, task, outcome>>
  BY DEF Basic, OnVerdict, service
<1>2. (\A j \in Run : Own(j)) /\ EarlierRest
  BY <1>1 DEF Patient
<1>3. /\ Head(toPage[r]) = toPage[r][1] /\ 1 \in 1 .. Len(toPage[r])
      /\ \A n \in 1 .. Len(toPage'[r]) :
            n + 1 \in 1 .. Len(toPage[r]) /\ n + 1 # 1
            /\ toPage'[r][n] = toPage[r][n + 1]
  BY <1>1, TailPage DEF Typed
<1>4. r = current
  BY <1>1, <1>2, <1>3, EarlierSilent DEF NoVerdict
<1>5. /\ \A j \in Run : j # r => shown'[j] = shown[j] /\ toPage'[j] = toPage[j]
      /\ shown'[r] = IF shown[r] = "none" THEN toPage[r][1] ELSE shown[r]
  BY <1>1, <1>3, <1>4, FinishShown DEF Typed
<1>6. ASSUME NEW j \in Run PROVE Own(j)'
  <2>1. CASE j # r
    BY <1>1, <1>2, <1>5, <2>1, OwnFrame
  <2>2. CASE j = r
    <3>1. NoExecute(r) /\ ~Active(r) /\ toPage[r][1] = outcome[r]
      BY <1>1, <1>2, <1>3 DEF Own, ExecuteFirst, VerdictFirst, NoExecute
    <3>2. NoVerdict(r)'
      BY <1>2, <1>3 DEF Own, VerdictFirst, NoVerdict
    <3>3. Quiet(r)'
      BY <1>1, <3>1, <3>2 DEF Quiet, NoExecute, Active
    <3>4. ExecuteFirst(r)' /\ VerdictFirst(r)'
      BY <1>1, <3>1, <3>2 DEF ExecuteFirst, VerdictFirst, NoExecute, NoVerdict, Active
    <3>5. ShownIsLast(r)'
      BY <1>1, <1>2, <1>5, <3>1, <3>3 DEF Own, ShownIsLast
    <3>6. ClosedIsTcp(r)'
      BY <1>1, <1>2, <1>3 DEF Own, ClosedIsTcp
    <3>7. Unbroken(r)'
      <4>1. lost = {} => shown'[r] \in Verdict
        BY <1>1, <1>2, <1>3, <1>5 DEF Own, Unbroken, Typed
      <4>2. lost = {} /\ (\E n \in 1 .. Len(toPage'[r]) : toPage'[r][n] = "disconnected")
              => task[r] = "done"
        BY <1>1, <1>2, <1>3 DEF Own, Unbroken
      <4> QED
        BY <1>1, <1>2, <4>1, <4>2 DEF Own, Unbroken, Verdict
    <3> QED
      BY <2>2, <3>4, <3>5, <3>6, <3>7 DEF Own
  <2> QED
    BY <2>1, <2>2
<1>7. EarlierRest'
  BY <1>1, <1>2, <1>4, <1>5, SessionAssumption DEF EarlierRest, Rests, Typed, Run
<1> QED
  BY <1>6, <1>7

LEMMA PatientDisconnected ==
  ASSUME Basic, Patient, NEW r \in Run, OnDisconnected(r) PROVE Patient'
<1> SUFFICES ASSUME patient' PROVE (\A j \in Run : Own(j)') /\ EarlierRest'
  BY DEF Patient
<1>1. /\ Typed /\ patient /\ sock[r] = "open" /\ toPage[r] # <<>>
      /\ Head(toPage[r]) = "disconnected"
      /\ UNCHANGED <<current, shown, transport, up, toServer, lost, task, outcome>>
  BY DEF Basic, OnDisconnected, page, service
<1>2. (\A j \in Run : Own(j)) /\ EarlierRest
  BY <1>1 DEF Patient
<1>3. Head(toPage[r]) = toPage[r][1] /\ 1 \in 1 .. Len(toPage[r])
  BY <1>1, TailOf DEF Typed
<1>4. r = current
  BY <1>1, <1>2, <1>3, EarlierSilent
<1>5. /\ sock' = [sock EXCEPT ![r] = "closing"] /\ sock'[r] = "closing"
      /\ \A j \in Run : j # r => toPage'[j] = toPage[j]
      /\ toPage'[r] = <<>>
  BY <1>1, <1>4 DEF OnDisconnected, Typed
<1>6. ASSUME NEW j \in Run PROVE Own(j)'
  <2>1. CASE j # r
    BY <1>1, <1>2, <1>5, <2>1, OwnFrame DEF Typed
  <2>2. CASE j = r
    <3>1. transport[r] = "tcp"
      BY <1>1, <1>2, <1>3 DEF Own, ClosedIsTcp
    <3>2. lost = {} => shown[r] \in Verdict
      BY <1>1, <1>2, <1>3 DEF Own, Unbroken, Verdict
    <3> QED
      BY <1>1, <1>2, <1>5, <2>2, <3>1, <3>2
      DEF Own, ExecuteFirst, VerdictFirst, ShownIsLast, ClosedIsTcp, Unbroken,
        Quiet, NoVerdict, NoExecute, Active
  <2> QED
    BY <2>1, <2>2
<1>7. EarlierRest'
  BY <1>1, <1>2, <1>4, <1>5, SessionAssumption DEF EarlierRest, Rests, Typed, Run
<1> QED
  BY <1>6, <1>7

LEMMA PatientClose == ASSUME Basic, Patient, NEW r \in Run, OnClose(r) PROVE Patient'
<1> SUFFICES ASSUME patient' PROVE (\A j \in Run : Own(j)') /\ EarlierRest'
  BY DEF Patient
<1>1. /\ Typed /\ OneShown /\ patient
      /\ sock[r] \in {"connecting", "open", "closing"} /\ ~up[r] /\ toPage[r] = <<>>
      /\ sock' = [sock EXCEPT ![r] = "closed"]
      /\ UNCHANGED <<current, transport, up, toServer, toPage, lost, task, outcome>>
  BY DEF Basic, OnClose, service
<1>2. (\A j \in Run : Own(j)) /\ EarlierRest
  BY <1>1 DEF Patient
<1>3. current \in Run
  <2>1. Opened(r) /\ sock[r] # "none"
    BY <1>1 DEF Basic
  <2> QED
    BY <1>1, <2>1, SessionAssumption DEF Opened, Typed, Run
<1>4. lost = {} => sock[r] = "closing" /\ shown[r] \in Verdict /\ r = current
  BY <1>1, <1>2, EarlierSilent DEF Own, Unbroken
<1>5. shown' = shown \/ (lost # {} /\ shown[current] = "none"
                         /\ shown' = [shown EXCEPT ![current] = "cut"])
  <2>1. running => lost # {} /\ shown[current] = "none"
    BY <1>1, <1>4 DEF OneShown, Verdict
  <2> QED
    BY <2>1 DEF OnClose, Finish
<1>6. ASSUME NEW j \in Run PROVE Own(j)'
  <2>1. /\ j # r => sock'[j] = sock[j]
        /\ j = r => sock'[j] = "closed"
        /\ shown'[j] = shown[j] \/ (lost # {} /\ shown[j] = "none" /\ shown'[j] = "cut")
    BY <1>1, <1>3, <1>5 DEF Typed
  <2>2. Own(j) /\ (lost = {} /\ j = r => shown[j] \in Verdict)
    BY <1>2, <1>4
  <2>3. ExecuteFirst(j)' /\ VerdictFirst(j)'
    BY <1>1, <2>2 DEF Own, ExecuteFirst, VerdictFirst, Active
  <2>4. ShownIsLast(j)'
    BY <1>1, <2>1, <2>2
    DEF Own, ShownIsLast, Quiet, NoVerdict, NoExecute, Active, Verdict
  <2>5. ClosedIsTcp(j)'
    BY <1>1, <2>1, <2>2 DEF Own, ClosedIsTcp
  <2>6. Unbroken(j)'
    BY <1>1, <2>1, <2>2 DEF Own, Unbroken
  <2> QED
    BY <2>3, <2>4, <2>5, <2>6 DEF Own
<1>7. ASSUME NEW j \in 1 .. current - 1 PROVE Rests(j)'
  <2>1. j \in Run /\ j # current /\ Rests(j)
    BY <1>2, <1>3, SessionAssumption DEF EarlierRest, Run
  <2> QED
    BY <1>1, <1>3, <1>5, <2>1 DEF Rests, Typed
<1> QED
  BY <1>1, <1>6, <1>7 DEF EarlierRest

-----------------------------------------------------------------------------
(* The service's steps.  They touch one run, and neither what is shown nor *)
(* the sockets as the page sees them.                                      *)

LEMMA PatientService ==
  ASSUME Basic, Patient, NEW r \in Run, UNCHANGED <<page, sock, patient>>,
         lost' = {} => lost = {},
         \A j \in Run : j # r =>
           /\ up'[j] = up[j] /\ task'[j] = task[j] /\ outcome'[j] = outcome[j]
           /\ toServer'[j] = toServer[j] /\ toPage'[j] = toPage[j],
         Own(r) => Own(r)'
  PROVE  Patient'
<1> SUFFICES ASSUME patient' PROVE (\A j \in Run : Own(j)') /\ EarlierRest'
  BY DEF Patient
<1>1. (\A j \in Run : Own(j)) /\ EarlierRest /\ UNCHANGED <<current, shown, transport, sock>>
  BY DEF Patient, page
<1>2. ASSUME NEW j \in Run, j # r PROVE Own(j)'
  BY <1>1, <1>2, OwnFrame
<1>3. EarlierRest'
  BY <1>1 DEF EarlierRest, Rests
<1> QED
  BY <1>1, <1>2, <1>3

\* What is sent comes last.
LEMMA SentPage ==
  ASSUME Typed, NEW r \in Run, NEW m \in Verdict \cup {"disconnected"}, Send(r, m)
  PROVE  /\ \A n \in 1 .. Len(toPage'[r]) :
              \/ n \in 1 .. Len(toPage[r]) /\ toPage'[r][n] = toPage[r][n]
              \/ n = Len(toPage[r]) + 1 /\ toPage'[r][n] = m
         /\ up[r] /\ sock[r] = "open" => toPage'[r] = Append(toPage[r], m)
         /\ ~(up[r] /\ sock[r] = "open") => toPage'[r] = toPage[r]
<1>1. toPage[r] \in Seq(Verdict \cup {"disconnected"})
  BY DEF Typed
<1>2. toPage'[r] = IF up[r] /\ sock[r] = "open" THEN Append(toPage[r], m)
                   ELSE toPage[r]
  BY SendTyped
<1>3. CASE up[r] /\ sock[r] = "open"
  BY <1>1, <1>2, <1>3, AppendOf
<1>4. CASE ~(up[r] /\ sock[r] = "open")
  BY <1>2, <1>4
<1> QED
  BY <1>3, <1>4

LEMMA PatientConclude ==
  ASSUME Basic, Patient, NEW r \in Run, NEW v \in Verdict, Conclude(r, v), Active(r)
  PROVE  Patient'
<1>1. /\ Typed /\ Send(r, v) /\ v \in Verdict \cup {"disconnected"}
      /\ outcome' = [outcome EXCEPT ![r] = v] /\ outcome'[r] = v
      /\ task' = [task EXCEPT ![r] = AfterVerdict(r)] /\ task'[r] = AfterVerdict(r)
      /\ UNCHANGED <<page, sock, up, toServer, lost, patient>>
      /\ UNCHANGED <<shown, transport>>
  BY DEF Basic, Conclude, Typed, page
<1>2. ASSUME Own(r) PROVE Own(r)'
  <2>1. toPage[r] = <<>> /\ NoExecute(r) /\ shown[r] \notin Verdict
    BY <1>2 DEF Own, ExecuteFirst, VerdictFirst, ShownIsLast, Quiet, NoExecute, Active
  <2>2. /\ \A n \in 1 .. Len(toPage'[r]) : n = 1 /\ toPage'[r][n] = v
        /\ up[r] /\ sock[r] = "open" => toPage'[r] = <<v>>
    BY <1>1, <2>1, SentPage
  <2>3. AfterVerdict(r) \in {"closing", "done"}
        /\ (AfterVerdict(r) = "closing" => transport[r] = "tcp")
    BY DEF AfterVerdict
  <2>4. ExecuteFirst(r)' /\ VerdictFirst(r)' /\ ShownIsLast(r)'
    BY <1>1, <2>1, <2>2, <2>3
    DEF ExecuteFirst, VerdictFirst, ShownIsLast, Active, NoExecute
  <2>5. ClosedIsTcp(r)'
    BY <1>1, <1>2, <2>2, <2>3 DEF Own, ClosedIsTcp, Verdict
  <2>6. Unbroken(r)'
    <3>1. toPage'[r] = <<v>> => toPage'[r] # <<>> /\ toPage'[r][1] \in Verdict
      OBVIOUS
    <3>2. \A n \in 1 .. Len(toPage'[r]) : toPage'[r][n] # "disconnected"
      BY <2>2 DEF Verdict
    <3> QED
      BY <1>1, <1>2, <2>2, <3>1, <3>2 DEF Own, Unbroken
  <2> QED
    BY <2>4, <2>5, <2>6 DEF Own
<1>3. \A j \in Run : j # r => task'[j] = task[j] /\ outcome'[j] = outcome[j]
                            /\ toPage'[j] = toPage[j]
  BY <1>1, SendTyped DEF Typed
<1> QED
  BY <1>1, <1>2, <1>3, PatientService

LEMMA PatientReceive == ASSUME Basic, Patient, NEW r \in Run, Receive(r) PROVE Patient'
<1>1. /\ Typed /\ toServer[r] # <<>>
      /\ toServer' = [toServer EXCEPT ![r] = Tail(@)]
      /\ UNCHANGED <<page, sock, up, lost, patient>>
      /\ UNCHANGED <<shown, transport>>
  BY DEF Basic, Receive, page
<1>2. /\ Head(toServer[r]) = toServer[r][1] /\ 1 \in 1 .. Len(toServer[r])
      /\ \A n \in 1 .. Len(toServer'[r]) :
            n + 1 \in 1 .. Len(toServer[r]) /\ n + 1 # 1
            /\ toServer'[r][n] = toServer[r][n + 1]
  BY <1>1, TailOf DEF Typed
<1>3. ASSUME Own(r) PROVE NoExecute(r)'
  BY <1>2, <1>3 DEF Own, ExecuteFirst, NoExecute
<1>4. CASE UNCHANGED <<toPage, task, outcome>>
  <2>1. ASSUME Own(r) PROVE Own(r)'
    BY <1>1, <1>3, <1>4, <2>1
    DEF Own, ExecuteFirst, VerdictFirst, ShownIsLast, ClosedIsTcp, Unbroken,
        Quiet, NoVerdict, NoExecute, Active
  <2> QED
    BY <1>1, <1>4, <2>1, PatientService DEF Typed
<1>5. CASE Execute(r)
  <2>1. /\ toServer[r][1] = "execute" /\ task' = [task EXCEPT ![r] = "opening"]
        /\ outcome' = [outcome EXCEPT ![r] = "none"] /\ toPage' = toPage
    BY <1>2, <1>5 DEF Execute
  <2>2. ASSUME Own(r) PROVE Own(r)'
    <3>1. toPage[r] = <<>> /\ shown[r] \notin Verdict
      BY <1>2, <2>1, <2>2 DEF Own, ExecuteFirst, ShownIsLast, Quiet, NoExecute
    <3>2. task'[r] = "opening" /\ outcome'[r] = "none"
      BY <1>1, <2>1 DEF Typed
    <3> QED
      BY <1>1, <1>3, <2>1, <2>2, <3>1, <3>2
      DEF Own, ExecuteFirst, VerdictFirst, ShownIsLast, ClosedIsTcp, Unbroken,
        Quiet, NoVerdict, NoExecute, Active
  <2> QED
    BY <1>1, <2>1, <2>2, PatientService DEF Typed
<1>6. CASE Refuse(r)
  <2>1. /\ toServer[r][1] = "execute" /\ Send(r, "failed") /\ task' = task
        /\ outcome' = [outcome EXCEPT ![r] = "failed"]
        /\ "failed" \in Verdict /\ "failed" \in Verdict \cup {"disconnected"}
    BY <1>2, <1>6 DEF Refuse, Verdict
  <2>2. ASSUME Own(r) PROVE Own(r)'
    <3>1. toPage[r] = <<>> /\ shown[r] \notin Verdict /\ task[r] = "none"
      BY <1>2, <2>1, <2>2 DEF Own, ExecuteFirst, ShownIsLast, Quiet, NoExecute
    <3>2. \A n \in 1 .. Len(toPage'[r]) : n = 1 /\ toPage'[r][n] = "failed"
      BY <1>1, <2>1, <3>1, SentPage
    <3>3. task'[r] = "none" /\ outcome'[r] = "failed"
      BY <1>1, <2>1, <3>1 DEF Typed
    <3> QED
      BY <1>1, <1>3, <2>1, <2>2, <3>1, <3>2, <3>3
      DEF Own, ExecuteFirst, VerdictFirst, ShownIsLast, ClosedIsTcp, Unbroken,
        Quiet, NoVerdict, NoExecute, Active
  <2>3. \A j \in Run : j # r => outcome'[j] = outcome[j] /\ toPage'[j] = toPage[j]
    BY <1>1, <2>1, SendTyped DEF Typed
  <2> QED
    BY <1>1, <2>1, <2>2, <2>3, PatientService DEF Typed
<1> QED
  BY <1>4, <1>5, <1>6 DEF Receive, UnknownOperation, WhileRunning, service

LEMMA PatientTask ==
  ASSUME Basic, Patient, NEW r \in Run,
         \/ HandlerReturns(r) \/ Disconnected(r) \/ ClientReady(r) \/ SendFails(r)
         \/ CloseFirst(r) \/ Lose(r)
  PROVE  Patient'
<1>1. Typed
  BY DEF Basic
<1>2. CASE HandlerReturns(r)
  BY <1>2, PatientService, OwnFrame DEF HandlerReturns, net, page
<1>3. CASE Disconnected(r)
  <2>1. /\ ~up[r] \/ sock[r] = "closing"
        /\ up' = [up EXCEPT ![r] = FALSE] /\ up'[r] = FALSE
        /\ UNCHANGED <<page, sock, toServer, toPage, lost, task, outcome, patient>>
        /\ UNCHANGED <<shown, transport>>
    BY <1>1, <1>3 DEF Disconnected, Typed, page
  <2>2. ASSUME Own(r) PROVE Own(r)'
    BY <2>1, <2>2
    DEF Own, ExecuteFirst, VerdictFirst, ShownIsLast, ClosedIsTcp, Unbroken,
        Quiet, NoVerdict, NoExecute, Active
  <2> QED
    BY <1>1, <2>1, <2>2, PatientService DEF Typed
<1>4. CASE ClientReady(r)
  <2>1. /\ task[r] = "opening" /\ task' = [task EXCEPT ![r] = "working"]
        /\ task'[r] = "working"
        /\ UNCHANGED <<page, sock, up, toServer, toPage, lost, outcome, patient>>
        /\ UNCHANGED <<shown, transport>>
    BY <1>1, <1>4 DEF ClientReady, Typed, page, net
  <2>2. ASSUME Own(r) PROVE Own(r)'
    BY <2>1, <2>2
    DEF Own, ExecuteFirst, VerdictFirst, ShownIsLast, ClosedIsTcp, Unbroken,
        Quiet, NoVerdict, NoExecute, Active
  <2> QED
    BY <1>1, <2>1, <2>2, PatientService DEF Typed
<1>5. CASE SendFails(r)
  <2>1. /\ Active(r) /\ ~up[r]
        /\ task' = [task EXCEPT ![r] = "done"] /\ task'[r] = "done"
        /\ outcome' = [outcome EXCEPT ![r] = "broken"] /\ outcome'[r] = "broken"
        /\ UNCHANGED <<page, sock, up, toServer, toPage, lost, patient>>
        /\ UNCHANGED <<shown, transport>>
    BY <1>1, <1>5 DEF SendFails, Typed, page, net
  <2>2. ASSUME Own(r) PROVE Own(r)'
    <3>1. toPage[r] = <<>> /\ NoExecute(r) /\ shown[r] \notin Verdict
      BY <2>1, <2>2
      DEF Own, ExecuteFirst, VerdictFirst, ShownIsLast, Quiet, NoExecute, Active
    <3> QED
      BY <2>1, <2>2, <3>1
      DEF Own, ExecuteFirst, VerdictFirst, ShownIsLast, ClosedIsTcp, Unbroken,
        Quiet, NoVerdict, NoExecute, Active
  <2> QED
    BY <1>1, <2>1, <2>2, PatientService DEF Typed
<1>6. CASE Lose(r)
  <2>1. /\ lost' # {} /\ toServer'[r] = <<>> /\ toPage'[r] = <<>>
        /\ UNCHANGED <<page, sock, task, outcome, patient>>
        /\ UNCHANGED <<shown, transport>>
        /\ \A j \in Run : j # r => /\ up'[j] = up[j] /\ toServer'[j] = toServer[j]
                                  /\ toPage'[j] = toPage[j]
    BY <1>1, <1>6 DEF Lose, Typed, page, service
  <2>2. ASSUME Own(r) PROVE Own(r)'
    BY <2>1, <2>2
    DEF Own, ExecuteFirst, VerdictFirst, ShownIsLast, ClosedIsTcp, Unbroken,
        Quiet, NoVerdict, NoExecute, Active
  <2> QED
    BY <1>1, <2>1, <2>2, PatientService
<1>7. CASE CloseFirst(r)
  <2>1. /\ task[r] = "working" /\ task' = [task EXCEPT ![r] = "failing"]
        /\ task'[r] = "failing"
        /\ UNCHANGED <<page, sock, up, toServer, toPage, lost, outcome, patient>>
        /\ UNCHANGED <<shown, transport>>
    BY <1>1, <1>7 DEF CloseFirst, Typed, page, net
  <2>2. ASSUME Own(r) PROVE Own(r)'
    BY <2>1, <2>2
    DEF Own, ExecuteFirst, VerdictFirst, ShownIsLast, ClosedIsTcp, Unbroken,
        Quiet, NoVerdict, NoExecute, Active
  <2> QED
    BY <1>1, <2>1, <2>2, PatientService DEF Typed
<1> QED
  BY <1>2, <1>3, <1>4, <1>5, <1>6, <1>7

LEMMA PatientReport == ASSUME Basic, Patient, NEW r \in Run, ReportClosed(r) PROVE Patient'
<1>1. /\ Typed /\ task[r] = "closing" /\ Send(r, "disconnected")
      /\ task' = [task EXCEPT ![r] = "done"] /\ task'[r] = "done"
      /\ UNCHANGED <<page, sock, up, toServer, lost, outcome, patient>>
      /\ UNCHANGED <<shown, transport>>
  BY DEF Basic, ReportClosed, Typed, page
<1>2. /\ \A n \in 1 .. Len(toPage'[r]) :
            \/ n \in 1 .. Len(toPage[r]) /\ toPage'[r][n] = toPage[r][n]
            \/ n = Len(toPage[r]) + 1 /\ toPage'[r][n] = "disconnected"
      /\ toPage[r] # <<>> => toPage'[r] # <<>> /\ toPage'[r][1] = toPage[r][1]
  <2>1. toPage[r] \in Seq(Verdict \cup {"disconnected"})
    BY <1>1 DEF Typed
  <2> QED
    BY <1>1, <2>1, SentPage, AppendOf
<1>3. ASSUME Own(r) PROVE Own(r)'
  <2>1. ExecuteFirst(r)'
    BY <1>1, <1>3 DEF Own, ExecuteFirst
  <2>2. VerdictFirst(r)' /\ ClosedIsTcp(r)'
    BY <1>1, <1>2, <1>3 DEF Own, VerdictFirst, ClosedIsTcp, Active, Verdict
  <2>3. ShownIsLast(r)'
    BY <1>1, <1>2, <1>3
    DEF Own, ShownIsLast, Quiet, NoVerdict, NoExecute, Active, Verdict
  <2>4. Unbroken(r)'
    BY <1>1, <1>2, <1>3 DEF Own, Unbroken
  <2> QED
    BY <2>1, <2>2, <2>3, <2>4 DEF Own
<1>4. \A j \in Run : j # r => task'[j] = task[j] /\ toPage'[j] = toPage[j]
  BY <1>1, SendTyped DEF Typed
<1> QED
  BY <1>1, <1>3, <1>4, PatientService

LEMMA PatientStep == Basic /\ Patient /\ [Next]_vars => Patient'
<1> SUFFICES ASSUME Basic, Patient, [Next]_vars PROVE Patient'
  OBVIOUS
<1>1. CASE UNCHANGED vars
  BY <1>1 DEF vars, Patient, EarlierRest, Rests, Own, ExecuteFirst, VerdictFirst, ShownIsLast, ClosedIsTcp, Unbroken,
        Quiet, NoVerdict, NoExecute, Active
<1>2. ASSUME NEW r \in Run,
             \/ NoClient(r) \/ StepFails(r) \/ Complete(r) \/ Stopped(r)
             \/ ReportFailure(r)
      PROVE  Patient'
  BY <1>2, PatientConclude, PatientTask
  DEF NoClient, StepFails, Complete, Stopped, ReportFailure, Active, Verdict
<1>3. ASSUME NEW r \in Run, PageSteps(r) PROVE Patient'
  BY <1>3, PatientOpen, PatientVerdict, PatientDisconnected, PatientClose DEF PageSteps
<1>4. ASSUME NEW r \in Run, EndpointSteps(r) PROVE Patient'
  BY <1>4, PatientReceive, PatientTask DEF EndpointSteps
<1>5. ASSUME NEW r \in Run, RunEnds(r) PROVE Patient'
  BY <1>2, <1>5, PatientTask, PatientReport DEF RunEnds
<1> QED
  BY <1>1, <1>2, <1>3, <1>4, <1>5, PatientStart, PatientPress, PatientTask DEF Next

LEMMA PatientInvariant == Spec => []Patient
  BY PatientInit, PatientStep, BasicInvariant, PTL DEF Spec

-----------------------------------------------------------------------------
\* A patient user sees each run's own verdict, and "cut" only after a
\* connection broke (app.js, finishRun and the close listener).
THEOREM VerdictBelongs == Spec => []VerdictIsOwn
<1>1. Patient => VerdictIsOwn
  BY DEF Patient, VerdictIsOwn, Own, ShownIsLast, Unbroken
<1> QED
  BY <1>1, PatientInvariant, PTL

\* As long as no connection breaks, a patient user has one sequence at work: a
\* run that is not shown any more has come to its verdict.
THEOREM OneAtATime == Spec => []OneRunAtATime
<1>1. ASSUME Basic, Patient, patient, lost = {}, NEW r \in Run, Active(r)
      PROVE  r = current
  <2>1. r <= current
    <3>1. Opened(r) /\ current \in 0 .. MaxRuns
      BY <1>1 DEF Basic, Typed
    <3>2. ~(r > current)
      BY <1>1, <3>1 DEF Opened, Untouched, Active
    <3> QED
      BY <3>1, <3>2, SessionAssumption DEF Run
  <2>2. CASE r \in 1 .. current - 1
    BY <1>1, <2>2 DEF Patient, EarlierRest, Rests, Own, Unbroken, ShownIsLast, Quiet
  <2> QED
    BY <1>1, <2>1, <2>2, SessionAssumption DEF Basic, Typed, Run
<1>2. ASSUME Basic, Patient, patient, lost = {}
      PROVE  Cardinality({r \in Run : Active(r)}) <= 1
  <2>1. {r \in Run : Active(r)} \in SUBSET {current}
    BY <1>1, <1>2
  <2>2. IsFiniteSet({current}) /\ Cardinality({current}) = 1
    BY FS_Singleton
  <2> QED
    BY <2>1, <2>2, FS_Subset
<1>3. Basic /\ Patient => OneRunAtATime
  BY <1>2 DEF OneRunAtATime
<1> QED
  BY <1>3, BasicInvariant, PatientInvariant, PTL
=============================================================================
