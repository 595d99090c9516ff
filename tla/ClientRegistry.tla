--------------------------- MODULE ClientRegistry ---------------------------
(***************************************************************************)
(* The one PLCLINK and the one Field Network client the service keeps      *)
(* (_plclink_client and _field_network_client of main.py), the requests    *)
(* that reuse, replace and close them, SoftPlcServer.start and stop, and   *)
(* the opening and closing of the EtherNet/IP connection.                  *)
(*                                                                         *)
(* Requests are coroutines: between two awaits a request is alone, at an   *)
(* await another one runs.  Nothing locks the registry.  The two kinds of  *)
(* client share no state, so a behaviour follows one of them.              *)
(*                                                                         *)
(* A definition introduced by "Slip:" is the one that follows it with one  *)
(* mistake in it, for the negative checks; no action uses it.              *)
(***************************************************************************)
EXTENDS Integers, Sequences, FiniteSets, SequencesExt

CONSTANTS Caller,      \* requests in progress at once
          Key,         \* what makes two settings different: the listening
                       \* port of PLCLINK, _fn_settings_key of Field Network
          MaxClients,  \* clients made in a behaviour (bound)
          OutputSize, InputSize,   \* sizes of the assemblies
          HeaderBytes              \* fn_o_to_t_header_bytes

ASSUME RegistryAssumption ==
  /\ IsFiniteSet(Caller)
  /\ MaxClients \in Nat
  /\ {OutputSize, InputSize, HeaderBytes} \subseteq Nat

VARIABLES kind,        \* "plclink" or "fn"
          registered,  \* the client the global variable names, 0 for None
          made,        \* clients made so far
          key,         \* the settings of each client
          state,       \* its server, or its connection
          conn,        \* the device's connection to a soft PLC
          late,        \* servers with a connection accepted during their stop
          taken,       \* ports another program listens on
          device,      \* the connection sizes the device accepts
          attempt,     \* the size candidate an opening is at
          req,         \* where each request is
          users, interval, held,   \* the shortened thread switch interval
          overlapped   \* whether two requests ever were in progress at once

servers == <<key, state, conn, late, made>>
stamp   == <<users, interval, held>>
outside == <<kind, device>>
vars == <<kind, registered, made, key, state, conn, late, taken, device,
          attempt, req, users, interval, held, overlapped>>

Id == 1 .. MaxClients
Busy == {"closing", "opening"}
Listening(i) == state[i] \in {"up", "closing"}
At(place) == [at |-> place, want |-> 0, old |-> 0, new |-> 0]

\* A pair that is to be tried already is not tried again.
AlsoTried(pairs, pair) ==
  IF Contains(pairs, pair) THEN pairs ELSE Append(pairs, pair)

\* The sizes _forward_open tries, in order, each once; the device's sizes
\* count the sequence number (2 bytes) and the Run/Idle header or do not.
SizeCandidates ==
  LET o == OutputSize + HeaderBytes
      t == InputSize
      counted == AlsoTried(<< <<o + 2, t + 2>> >>, <<o + 2, t>>)
      either  == AlsoTried(AlsoTried(counted, <<o, t>>), <<o, t + 2>>)
  IN  AlsoTried(either, <<OutputSize, t>>)

NoSizes == <<0, 0>>

TypeOK ==
  /\ kind \in {"plclink", "fn"}
  /\ registered \in 0 .. made /\ made \in 0 .. MaxClients
  /\ key \in [Id -> Key \cup {0}]
  /\ state \in [Id -> {"none", "opening", "up", "broken", "closing",
                       "gathering", "off"}]
  /\ conn \in [Id -> {"none", "open", "closing"}]
  /\ late \subseteq Id /\ taken \subseteq Key
  /\ device \in ToSet(SizeCandidates) \cup {NoSizes}
  /\ attempt \in [Id -> 0 .. Len(SizeCandidates)]
  /\ req \in [Caller -> [at: {"rest", "closing", "opening", "failed"},
                         want: Key \cup {0}, old: 0 .. MaxClients,
                         new: 0 .. MaxClients]]
  /\ held \subseteq Id /\ users \in 0 .. MaxClients
  /\ interval \in {"default", "short"}
  /\ overlapped \in BOOLEAN

Init ==
  /\ kind \in {"plclink", "fn"}
  /\ device \in IF kind = "fn" THEN ToSet(SizeCandidates) \cup {NoSizes}
                ELSE {NoSizes}
  /\ registered = 0 /\ made = 0
  /\ key = [i \in Id |-> 0]
  /\ state = [i \in Id |-> "none"]
  /\ conn = [i \in Id |-> "none"]
  /\ late = {} /\ taken = {}
  /\ attempt = [i \in Id |-> 0]
  /\ req = [c \in Caller |-> At("rest")]
  /\ users = 0 /\ interval = "default" /\ held = {}
  /\ overlapped = FALSE

-----------------------------------------------------------------------------
(* What a request does to its own place.                                   *)

Arrives(c) ==
  /\ req[c].at \notin Busy
  /\ overlapped' = (overlapped \/ \E d \in Caller : req[d].at \in Busy)

\* The bound: every request that may still make a client has room for it.
Room == made + Cardinality({c \in Caller : req[c].at = "closing"
                                           /\ req[c].want # 0}) < MaxClients

WaitsFor(c, place, want, old, new) ==
  req' = [req EXCEPT ![c] = [at |-> place, want |-> want, old |-> old,
                             new |-> new]]
Ends(c, place) == req' = [req EXCEPT ![c] = At(place)]

\* Slip: the connections are left for their tasks to end.
DetachOpen(i) ==
  /\ registered' = 0
  /\ state' = [state EXCEPT ![i] = "closing"]
  /\ UNCHANGED conn

\* The client is taken off the registry first, closed after.
Detach(i) ==
  /\ registered' = 0
  /\ state' = [state EXCEPT ![i] = "closing"]
  /\ conn' = [conn EXCEPT ![i] = IF @ = "open" THEN "closing" ELSE @]

-----------------------------------------------------------------------------
(* SoftPlcServer.start, and the switch interval it holds.                  *)

Acquire(i) ==
  /\ interval' = IF users = 0 THEN "short" ELSE interval
  /\ users' = users + 1
  /\ held' = held \cup {i}

\* Slip: whoever stops first gives the interval back.
ReleaseAtOnce(i) ==
  IF i \in held
  THEN /\ held' = held \ {i}
       /\ users' = users - 1
       /\ interval' = "default"
  ELSE UNCHANGED stamp

Release(i) ==
  IF i \in held
  THEN /\ held' = held \ {i}
       /\ users' = users - 1
       /\ interval' = IF users = 1 THEN "default" ELSE interval
  ELSE UNCHANGED stamp

PortFree(k) == k \notin taken /\ \A i \in Id : Listening(i) => key[i] # k

\* create_client and start without an await between them; a start that fails
\* gives the interval back.
Start(k) ==
  /\ PortFree(k)
  /\ made' = made + 1
  /\ key' = [key EXCEPT ![made'] = k]
  /\ state' = [state EXCEPT ![made'] = "up"]
  /\ registered' = made'
  /\ Acquire(made')
  /\ UNCHANGED <<conn, late>>

NotStarted == UNCHANGED <<servers, registered, stamp>>

-----------------------------------------------------------------------------
(* _ensure_plclink_started and _close_plclink_client.                      *)

Running == registered # 0 /\ state[registered] = "up"

ReusePlc(c, k) ==
  /\ Running /\ key[registered] = k
  /\ Ends(c, "rest")
  /\ UNCHANGED <<servers, registered, stamp>>

ReplacePlc(c, k) ==
  /\ Running /\ key[registered] # k
  /\ Detach(registered)
  /\ WaitsFor(c, "closing", k, registered, 0)
  /\ UNCHANGED <<key, late, made, stamp>>

FirstPlc(c, k) ==
  /\ ~Running
  /\ \/ Start(k) /\ Ends(c, "rest")
     \/ ~PortFree(k) /\ NotStarted /\ Ends(c, "failed")

EnsurePlc(c, k) ==
  /\ kind = "plclink"
  /\ Arrives(c) /\ Room
  /\ ReusePlc(c, k) \/ ReplacePlc(c, k) \/ FirstPlc(c, k)
  /\ UNCHANGED <<outside, taken, attempt>>

\* Slip: no rollback.
ResumePlcOrNone(c) ==
  LET r == req[c] IN
  /\ kind = "plclink" /\ r.at = "closing" /\ r.want # 0
  /\ state[r.old] = "off"
  /\ \/ Start(r.want) /\ Ends(c, "rest")
     \/ ~PortFree(r.want) /\ NotStarted /\ Ends(c, "failed")
  /\ UNCHANGED <<outside, taken, attempt, overlapped>>

\* After the old server's stop: the new port, or the old one again, or none.
ResumePlc(c) ==
  LET r == req[c] IN
  /\ kind = "plclink" /\ r.at = "closing" /\ r.want # 0
  /\ state[r.old] = "off"
  /\ \/ Start(r.want) /\ Ends(c, "rest")
     \/ /\ ~PortFree(r.want)
        /\ Start(key[r.old]) \/ (~PortFree(key[r.old]) /\ NotStarted)
        /\ Ends(c, "failed")
  /\ UNCHANGED <<outside, taken, attempt, overlapped>>

-----------------------------------------------------------------------------
(* SoftPlcServer: the device connects and leaves; stop() in three parts.   *)

\* Until the listener is closed the accept thread can still take a connection;
\* stop() has already closed those it knew.
DeviceConnects(i) ==
  /\ kind = "plclink"
  /\ \/ state[i] = "up" /\ conn[i] = "none"
        /\ conn' = [conn EXCEPT ![i] = "open"] /\ UNCHANGED late
     \/ state[i] = "closing"
        /\ late' = late \cup {i} /\ UNCHANGED conn
  /\ UNCHANGED <<outside, registered, made, key, state, taken, attempt, req,
                 stamp, overlapped>>

DeviceLeaves(i) ==
  /\ \/ conn[i] = "open" /\ conn' = [conn EXCEPT ![i] = "none"]
        /\ UNCHANGED late
     \/ i \in late /\ late' = late \ {i} /\ UNCHANGED conn
  /\ UNCHANGED <<outside, registered, made, key, state, taken, attempt, req,
                 stamp, overlapped>>

WriterClosed(i) ==
  /\ conn[i] = "closing"
  /\ conn' = [conn EXCEPT ![i] = "none"]
  /\ UNCHANGED <<outside, registered, made, key, state, late, taken, attempt,
                 req, stamp, overlapped>>

StopListener(i) ==
  /\ kind = "plclink"
  /\ state[i] = "closing" /\ conn[i] = "none"
  /\ state' = [state EXCEPT ![i] = "gathering"]
  /\ UNCHANGED <<outside, registered, made, key, conn, late, taken, attempt,
                 req, stamp, overlapped>>

\* gather() waits for every connection's task, the late ones included.
StopReturned(i) ==
  /\ state[i] = "gathering" /\ i \notin late
  /\ state' = [state EXCEPT ![i] = "off"]
  /\ Release(i)
  /\ UNCHANGED <<outside, registered, made, key, conn, late, taken, attempt,
                 req, overlapped>>

\* Another program takes a port that is free.
OthersListen(k) ==
  /\ kind = "plclink"
  /\ PortFree(k) /\ taken' = taken \cup {k}
  /\ UNCHANGED <<outside, registered, servers, attempt, req, stamp, overlapped>>

-----------------------------------------------------------------------------
(* _ensure_field_network_connected and the scanner's connect and close.    *)

Open(c, k) ==
  /\ made' = made + 1
  /\ key' = [key EXCEPT ![made'] = k]
  /\ state' = [state EXCEPT ![made'] = "opening"]
  /\ attempt' = [attempt EXCEPT ![made'] = 1]
  /\ WaitsFor(c, "opening", k, 0, made')
  /\ UNCHANGED <<registered, conn, late>>

ReuseFn(c, k) ==
  /\ Running /\ key[registered] = k
  /\ Ends(c, "rest")
  /\ UNCHANGED <<servers, registered, attempt>>

\* Slip: the new connection is opened beside the old one.
ReplaceFnUnclosed(c, k) ==
  Running /\ key[registered] # k /\ Open(c, k)

ReplaceFn(c, k) ==
  /\ Running /\ key[registered] # k
  /\ Detach(registered)
  /\ WaitsFor(c, "closing", k, registered, 0)
  /\ UNCHANGED <<key, late, made, attempt>>

EnsureFn(c, k) ==
  /\ kind = "fn"
  /\ Arrives(c) /\ Room
  /\ ReuseFn(c, k) \/ ReplaceFn(c, k) \/ (~Running /\ Open(c, k))
  /\ UNCHANGED <<outside, taken, stamp>>

ResumeFn(c) ==
  /\ kind = "fn" /\ req[c].at = "closing" /\ req[c].want # 0
  /\ state[req[c].old] = "off"
  /\ Open(c, req[c].want)
  /\ UNCHANGED <<outside, taken, stamp, overlapped>>

\* One Forward Open: accepted, refused for a size (the next candidate), or
\* refused for anything else, which ends the attempts.
Connected(c) ==
  LET i == req[c].new IN
  /\ req[c].at = "opening" /\ state[i] = "opening"
  /\ SizeCandidates[attempt[i]] = device
  /\ state' = [state EXCEPT ![i] = "up"]
  /\ registered' = i
  /\ Ends(c, "rest")
  /\ UNCHANGED <<outside, made, key, conn, late, taken, attempt, stamp,
                 overlapped>>

\* Slip: only a refused output size leads to the next candidate.
NextCandidateForOutput(i) ==
  /\ attempt[i] < Len(SizeCandidates)
  /\ SizeCandidates[attempt[i]][1] # device[1]

\* Refused with 0x0127 (O->T) or 0x0128 (T->O).
NextCandidate(i) == attempt[i] < Len(SizeCandidates)

WrongSize(c) ==
  LET i == req[c].new IN
  /\ req[c].at = "opening" /\ state[i] = "opening"
  /\ SizeCandidates[attempt[i]] # device
  /\ IF NextCandidate(i)
     THEN /\ attempt' = [attempt EXCEPT ![i] = @ + 1]
          /\ UNCHANGED state
     ELSE /\ attempt' = [attempt EXCEPT ![i] = 0]
          /\ state' = [state EXCEPT ![i] = "closing"]
  /\ UNCHANGED <<outside, registered, made, key, conn, late, taken, req, stamp,
                 overlapped>>

NoDevice(c) ==
  LET i == req[c].new IN
  /\ req[c].at = "opening" /\ state[i] = "opening"
  /\ state' = [state EXCEPT ![i] = "closing"]
  /\ UNCHANGED <<outside, registered, made, key, conn, late, taken, attempt,
                 req, stamp, overlapped>>

\* connect() closes what it opened before it raises.
OpenFailed(c) ==
  /\ req[c].at = "opening" /\ state[req[c].new] = "off"
  /\ Ends(c, "failed")
  /\ UNCHANGED <<outside, registered, servers, taken, attempt, stamp,
                 overlapped>>

\* Forward Close, the session and both sockets.
ScannerClosed(i) ==
  /\ kind = "fn" /\ state[i] = "closing"
  /\ state' = [state EXCEPT ![i] = "off"]
  /\ UNCHANGED <<outside, registered, made, key, conn, late, taken, attempt,
                 req, stamp, overlapped>>

\* A socket error ends the cyclic exchange; nothing is closed for that.
ConnectionLost(i) ==
  /\ kind = "fn" /\ state[i] = "up"
  /\ state' = [state EXCEPT ![i] = "broken"]
  /\ UNCHANGED <<outside, registered, made, key, conn, late, taken, attempt,
                 req, stamp, overlapped>>

-----------------------------------------------------------------------------
\* The disconnect request of Field Network, and the end of the service.
CloseClient(c) ==
  /\ Arrives(c)
  /\ IF registered = 0
     THEN Ends(c, "rest") /\ UNCHANGED <<servers, registered>>
     ELSE /\ Detach(registered)
          /\ WaitsFor(c, "closing", 0, registered, 0)
          /\ UNCHANGED <<key, late, made>>
  /\ UNCHANGED <<outside, taken, attempt, stamp>>

Closed(c) ==
  /\ req[c].at = "closing" /\ req[c].want = 0
  /\ state[req[c].old] = "off"
  /\ Ends(c, "rest")
  /\ UNCHANGED <<outside, registered, servers, taken, attempt, stamp,
                 overlapped>>

CallerSteps(c) ==
  \/ ResumePlc(c) \/ ResumeFn(c) \/ Closed(c)
  \/ Connected(c) \/ WrongSize(c) \/ OpenFailed(c)

ServerSteps(i) ==
  WriterClosed(i) \/ StopListener(i) \/ StopReturned(i) \/ ScannerClosed(i)

Next ==
  \/ \E c \in Caller : \/ CallerSteps(c) \/ CloseClient(c) \/ NoDevice(c)
                       \/ \E k \in Key : EnsurePlc(c, k) \/ EnsureFn(c, k)
  \/ \E i \in Id : \/ ServerSteps(i) \/ ConnectionLost(i)
                   \/ DeviceConnects(i) \/ DeviceLeaves(i)
  \/ \E k \in Key : OthersListen(k)

\* The event loop and the network's answers; not what devices and users do.
Fairness == /\ \A c \in Caller : WF_vars(CallerSteps(c))
            /\ \A i \in Id : WF_vars(ServerSteps(i))

Spec == Init /\ [][Next]_vars /\ Fairness

-----------------------------------------------------------------------------
\* When requests came one after the other and none is in progress, every server
\* that runs and every connection that stands is the one the registry names: no
\* replaced client is left running.  (A connection that broke is left behind.)
NoneLeftRunning ==
  ~overlapped /\ (\A c \in Caller : req[c].at \notin Busy)
    => \A i \in Id : \/ state[i] \in {"none", "off", "broken"}
                     \/ i = registered

\* The switch interval is short exactly while some server holds it, whatever the
\* order in which servers start, fail to start and stop.
IntervalRestored == interval = "short" <=> held # {}

\* A change of port that fails leaves a soft PLC listening on the old port,
\* unless another program took that port meanwhile.
FailedStartKeepsOld ==
  [][\A c \in Caller :
       kind = "plclink" /\ req[c].at = "closing" /\ req'[c].at = "failed"
         => \/ registered' # 0 /\ key'[registered'] = key[req[c].old]
                               /\ state'[registered'] = "up"
            \/ ~PortFree(key[req[c].old])]_vars

\* A device whose sizes are among the candidates is never given up for its
\* sizes, whichever of the two sizes it refused first.
SizesAreFound ==
  \A i \in Id : attempt[i] = 0 /\ state[i] \in {"closing", "off"} /\ kind = "fn"
                  => device = NoSizes

\* Every stop and every opening returns to its request, unless a connection the
\* accept thread took during the stop is kept by the device.
RequestsReturn ==
  <>[](late = {}) => \A c \in Caller : req[c].at \in Busy ~> req[c].at \notin Busy
=============================================================================
