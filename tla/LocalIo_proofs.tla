---------------------------- MODULE LocalIo_proofs ----------------------------
(***************************************************************************)
(* Proofs about LocalIo and AssemblyLayout, for any settings a user may    *)
(* enter and any size of the memory.                                       *)
(*                                                                         *)
(* The properties rest on two facts about the settings in force: that they *)
(* passed validation (InForce), and that completing what was entered       *)
(* changes nothing but the signals and the BUSY port (TakenKeeps).  The    *)
(* proposal from an EDS file is a computation, whose largest command area  *)
(* that fits is found among finitely many.                                 *)
(***************************************************************************)
EXTENDS LocalIo, WellFoundedInduction, FiniteSetTheorems, TLAPS

\* The areas of the output assembly, and those of the input assembly, follow
\* each other without a gap and without an overlap, whatever numbers of ports
\* and words build_layout accepts.
THEOREM LayoutTiles ==
    ASSUME NEW l, Buildable(l),
           {l.command_words, l.response_words, l.result_words} \subseteq Nat
    PROVE  /\ \A w \in 0 .. (Layout(l).output_words - 1) :
                 \E a \in {"reserved", "esi", "command"} :
                    /\ w \in OutputAreas(l)[a]
                    /\ \A b \in {"reserved", "esi", "command"} \ {a} :
                          w \notin OutputAreas(l)[b]
           /\ \A w \in 0 .. (Layout(l).input_words - 1) :
                 \E a \in {"status", "eso", "result", "response"} :
                    /\ w \in InputAreas(l)[a]
                    /\ \A b \in {"status", "eso", "result", "response"} \ {a} :
                          w \notin InputAreas(l)[b]
<1>1. l.esi_ports \div 16 \in Nat /\ l.eso_ports \div 16 \in Nat
  BY DEF Buildable, IoPorts
<1>2. ASSUME NEW w \in 0 .. (Layout(l).output_words - 1)
      PROVE  \E a \in {"reserved", "esi", "command"} :
                /\ w \in OutputAreas(l)[a]
                /\ \A b \in {"reserved", "esi", "command"} \ {a} :
                      w \notin OutputAreas(l)[b]
  <2> DEFINE n == l.esi_ports \div 16
  <2>1. /\ OutputAreas(l)["reserved"] = 0 .. 1
        /\ OutputAreas(l)["esi"] = 2 .. (2 + n - 1)
        /\ OutputAreas(l)["command"] = (2 + n) .. (2 + n + l.command_words - 1)
        /\ w \in 0 .. (2 + n + l.command_words - 1)
    BY <1>1 DEF OutputAreas, Words, Layout, ReservedWords, StatusWords
  <2>2. n \in Nat /\ l.command_words \in Nat
    BY <1>1
  <2> HIDE DEF n
  <2>3. CASE w < 2
    BY <2>1, <2>2, <2>3
  <2>4. CASE w >= 2 /\ w < 2 + n
    BY <2>1, <2>2, <2>4
  <2>5. CASE w >= 2 + n
    BY <2>1, <2>2, <2>5
  <2> QED
    BY <2>1, <2>2, <2>3, <2>4, <2>5
<1>3. ASSUME NEW w \in 0 .. (Layout(l).input_words - 1)
      PROVE  \E a \in {"status", "eso", "result", "response"} :
                /\ w \in InputAreas(l)[a]
                /\ \A b \in {"status", "eso", "result", "response"} \ {a} :
                      w \notin InputAreas(l)[b]
  <2> DEFINE n == l.eso_ports \div 16
             r == 2 + n + l.result_words
  <2>1. /\ InputAreas(l)["status"] = 0 .. 1
        /\ InputAreas(l)["eso"] = 2 .. (2 + n - 1)
        /\ InputAreas(l)["result"] = (2 + n) .. (2 + n + l.result_words - 1)
        /\ InputAreas(l)["response"] = r .. (r + l.response_words - 1)
        /\ w \in 0 .. (r + l.response_words - 1)
    BY <1>1 DEF InputAreas, Words, Layout, ReservedWords, StatusWords
  <2>2. /\ n \in Nat /\ l.result_words \in Nat /\ l.response_words \in Nat
        /\ r = 2 + n + l.result_words
    BY <1>1
  <2>3. n >= 0 /\ r >= 2 + n /\ w \in Nat /\ n \in Int /\ r \in Int
    BY <2>1, <2>2
  <2> HIDE DEF n, r
  <2> DEFINE In(a) == w \in InputAreas(l)[a]
  <2>4. In("status") <=> w < 2
    BY <2>1, <2>3
  <2>5. In("eso") <=> w >= 2 /\ w < 2 + n
    BY <2>1, <2>3
  <2>6. In("result") <=> w >= 2 + n /\ w < r
    BY <2>1, <2>2, <2>3
  <2>7. In("response") <=> w >= r
    BY <2>1, <2>2, <2>3
  <2> HIDE DEF In
  <2>8. CASE w < 2
    <3>1. In("status") /\ ~In("eso") /\ ~In("result") /\ ~In("response")
      BY <2>3, <2>4, <2>5, <2>6, <2>7, <2>8
    <3> QED
      BY <3>1 DEF In
  <2>9. CASE w >= 2 /\ w < 2 + n
    <3>1. In("eso") /\ ~In("status") /\ ~In("result") /\ ~In("response")
      BY <2>3, <2>4, <2>5, <2>6, <2>7, <2>9
    <3> QED
      BY <3>1 DEF In
  <2>10. CASE w >= 2 + n /\ w < r
    <3>1. In("result") /\ ~In("status") /\ ~In("eso") /\ ~In("response")
      BY <2>3, <2>4, <2>5, <2>6, <2>7, <2>10
    <3> QED
      BY <3>1 DEF In
  <2>11. CASE w >= r
    <3>1. In("response") /\ ~In("status") /\ ~In("eso") /\ ~In("result")
      BY <2>3, <2>4, <2>5, <2>6, <2>7, <2>11
    <3> QED
      BY <3>1 DEF In
  <2> QED
    BY <2>3, <2>8, <2>9, <2>10, <2>11
<1> QED
  BY <1>2, <1>3

-----------------------------------------------------------------------------
\* Completing the settings leaves every address and size as it was entered.
LEMMA TakenKeepsPlc ==
  ASSUME NEW c \in PlcSettings
  PROVE  LET s == Taken(c) IN
         /\ s.transport = "plclink"
         /\ \A f \in {"pli", "plo", "pli_count", "plo_count", "command",
                      "command_words", "response", "response_words", "result",
                      "result_words", "result_on", "notify", "notify_on"} :
               s[f] = c[f]
         /\ s.busy_port = IF BusySignals(s) = {} THEN c.busy_port
                          ELSE BusySignal(s).at
         /\ s.signals \in Seq(StatusSignal)
<1> DEFINE m == Migrated(c)
<1>1. DefaultSignals(c) = <<Signal("busy", "busy", "plo", c.busy_port)>>
  BY DEF DefaultSignals, PlcSettings
<1>2. DefaultSignals(c) \in Seq(StatusSignal)
  <2>1. Signal("busy", "busy", "plo", c.busy_port) \in StatusSignal
    <3>1. c.busy_port \in Nat \ {0}
      BY DEF PlcSettings
    <3>2. [id |-> "busy", role |-> "busy", source |-> "plo", at |-> c.busy_port]
            \in [id : SignalId, role : SignalRole, source : {"plo"}, at : Nat \ {0}]
      BY <3>1, LocalIoAssumption DEF SignalRole
    <3> QED
      BY <3>2 DEF Signal, StatusSignal
  <2> QED
    BY <1>1, <2>1
<1>3. m \in PlcSettings
  BY <1>2 DEF Migrated, PlcSettings
<1>4. \A f \in DOMAIN c \ {"signals"} : m[f] = c[f]
  BY DEF Migrated
<1>5. DOMAIN c = DOMAIN m /\ m.transport = "plclink"
  BY <1>3 DEF PlcSettings
<1>6. CASE BusySignals(m) = {}
  <2>1. Taken(c) = m
    BY <1>6 DEF Taken, WithBusyPort
  <2> QED
    BY <1>3, <1>4, <1>6, <2>1 DEF PlcSettings
<1>7. CASE BusySignals(m) # {}
  <2>1. Taken(c) = [m EXCEPT !.busy_port = BusySignal(m).at]
    BY <1>5, <1>7 DEF Taken, WithBusyPort
  <2>2. /\ DOMAIN m = DOMAIN Taken(c) /\ "busy_port" \in DOMAIN m
        /\ \A f \in DOMAIN m \ {"busy_port"} : Taken(c)[f] = m[f]
        /\ Taken(c).busy_port = BusySignal(m).at
    BY <1>3, <2>1 DEF PlcSettings
  <2>3. Taken(c).signals = m.signals
    BY <1>3, <2>2 DEF PlcSettings
  <2>4. BusySignals(Taken(c)) = BusySignals(m)
    BY <2>3 DEF BusySignals, Signals
  <2>5. BusySignal(Taken(c)) = BusySignal(m)
    BY <2>4 DEF BusySignal
  <2> QED
    BY <1>3, <1>4, <1>5, <1>7, <2>2, <2>3, <2>4, <2>5 DEF PlcSettings
<1> QED
  BY <1>6, <1>7

LEMMA TakenKeepsFn ==
  ASSUME NEW c \in FnSettings
  PROVE  /\ Taken(c).transport = "field_network"
         /\ \A f \in {"esi_ports", "eso_ports", "command_words",
                      "response_words", "result_words"} : Taken(c)[f] = c[f]
<1> DEFINE m == Migrated(c)
<1>1. \A f \in DOMAIN c \ {"signals"} : m[f] = c[f]
  BY DEF Migrated
<1>2. m.transport = "field_network"
  BY <1>1 DEF FnSettings
<1>3. Taken(c) = m
  BY <1>2 DEF Taken, WithBusyPort
<1> QED
  BY <1>1, <1>2, <1>3 DEF FnSettings

\* What the proofs use of the settings in force.
PlcShape(s) ==
    /\ s.transport = "plclink"
    /\ {s.pli, s.plo, s.command, s.response, s.result, s.notify} \subseteq Nat
    /\ {s.command_words, s.response_words, s.result_words} \subseteq Nat
    /\ {s.pli_count, s.plo_count} \subseteq Nat \ {0}
    /\ {s.result_on, s.notify_on} \subseteq BOOLEAN
    /\ BusySignals(s) # {} => s.busy_port = BusySignal(s).at
    /\ s.signals \in Seq(StatusSignal)

FnShape(s) ==
    /\ s.transport = "field_network"
    /\ {s.esi_ports, s.eso_ports, s.command_words, s.response_words,
        s.result_words} \subseteq Nat

LEMMA TakeableShape ==
  ASSUME NEW s \in Takeable PROVE PlcShape(s) \/ FnShape(s)
<1>1. PICK c \in Candidate : s = Taken(c)
  BY DEF Takeable
<1>2. CASE c \in PlcSettings
  <2>1. /\ s.transport = "plclink" /\ s.signals \in Seq(StatusSignal)
        /\ \A f \in {"pli", "plo", "pli_count", "plo_count", "command",
                     "command_words", "response", "response_words", "result",
                     "result_words", "result_on", "notify", "notify_on"} :
              s[f] = c[f]
        /\ BusySignals(s) # {} => s.busy_port = BusySignal(s).at
    BY <1>1, <1>2, TakenKeepsPlc
  <2>2. /\ {c.pli, c.plo, c.command, c.response, c.result, c.notify} \subseteq Nat
        /\ {c.command_words, c.response_words, c.result_words} \subseteq Nat
        /\ {c.pli_count, c.plo_count} \subseteq Nat \ {0}
        /\ {c.result_on, c.notify_on} \subseteq BOOLEAN
    BY <1>2 DEF PlcSettings
  <2>3. PlcShape(s)
    BY <2>1, <2>2 DEF PlcShape
  <2> QED
    BY <2>3
<1>3. CASE c \in FnSettings
  BY <1>1, <1>3, TakenKeepsFn DEF FnShape, FnSettings
<1> QED
  BY <1>2, <1>3, LocalIoAssumption

\* A port number within the range stands for a bit of the virtual inputs.
LEMMA PliPorts ==
  ASSUME NEW s, PlcShape(s), NEW p \in 1 .. MaxPort(s)
  PROVE  PortBit(s, p) \in Pli(s).start .. (Pli(s).end - 1)
<1> DEFINE first == s.pli
           count == s.pli_count
<1>1. MaxPort(s) = count /\ count \in Nat /\ first \in Nat
  BY DEF PlcShape, MaxPort
<1>2. PortBit(s, p) = first + p - 1
  BY DEF PlcShape, PortBit
<1>3. Pli(s).start = first /\ Pli(s).end = first + count
  BY DEF Pli, Area
<1> HIDE DEF first, count
<1> QED
  BY <1>1, <1>2, <1>3

LEMMA EsiPorts ==
  ASSUME NEW s, FnShape(s), Buildable(s), s.esi_ports > 0, NEW p \in 1 .. MaxPort(s)
  PROVE  /\ PortBit(s, p) \in 32 .. (TriggerBit(s) - 1)
         /\ TriggerBit(s) = 32 + s.esi_ports
<1>1. MaxPort(s) = s.esi_ports /\ s.esi_ports \in {32, 64, 96, 128}
  BY DEF FnShape, MaxPort, Buildable, IoPorts
<1>2. TriggerBit(s) = 32 + s.esi_ports
  BY <1>1 DEF TriggerBit, Layout, ReservedWords
<1>3. PortBit(s, p) = 32 + (p - 1)
  BY <1>1 DEF PortBit, EsiBit, Layout, ReservedWords, FnShape
<1> QED
  BY <1>1, <1>2, <1>3

-----------------------------------------------------------------------------
\* The settings in force were entered and accepted.
InForce == settings \in Takeable /\ Valid(settings)

LEMMA InForceInvariant == Spec => []InForce
<1>1. Init => InForce
  BY DEF Init, Savable, InForce
<1>2. InForce /\ [Next]_vars => InForce'
  <2> SUFFICES ASSUME InForce, [Next]_vars PROVE InForce'
    OBVIOUS
  <2>1. CASE \E s \in Savable : SaveSettings(s)
    BY <2>1 DEF SaveSettings, Savable, InForce
  <2>2. CASE UNCHANGED settings
    BY <2>2 DEF InForce
  <2> QED
    BY <2>1, <2>2 DEF Next, vars, ApplyLocalIo, BusyChanges, SendCommand,
       DropTrigger
<1> QED
  BY <1>1, <1>2, PTL DEF Spec

LEMMA AreaType ==
  ASSUME NEW first \in Nat, NEW size \in Nat
  PROVE  Area(first, size) \in [start : Nat, end : Nat]
  BY DEF Area

\* Of two areas that do not overlap no word is shared.
LEMMA NoneShared ==
  ASSUME NEW a \in [start : Nat, end : Nat], NEW b \in [start : Nat, end : Nat],
         ~Overlap(a, b), NEW w \in a.start .. (a.end - 1)
  PROVE  ~(b.start <= w /\ w < b.end)
  BY DEF Overlap

\* Accepted settings keep the areas of the device memory apart, for any
\* addresses and sizes: what ProtocolSettings.validate_plclink_layout compares
\* are the pairs of areas in use.
THEOREM AreasKeptApart == Spec => []AreasApart
<1>1. InForce => AreasApart
  <2> SUFFICES ASSUME InForce, settings.transport = "plclink",
                      NEW m \in WordAreas(settings),
                      NEW n \in WordAreas(settings), m # n,
                      NEW w \in WordArea(settings, m).start
                                .. (WordArea(settings, m).end - 1)
               PROVE  ~(/\ WordArea(settings, n).start <= w
                        /\ w < WordArea(settings, n).end)
    BY DEF AreasApart, WordAreas
  <2>1. PlcShape(settings) /\ PlcValid(settings)
    BY TakeableShape DEF InForce, Valid, FnShape
  <2>2. ~Overlap(WordArea(settings, m), WordArea(settings, n))
    BY <2>1 DEF PlcValid
  <2>3. ASSUME NEW x \in WordAreas(settings)
        PROVE  WordArea(settings, x) \in [start : Nat, end : Nat]
    BY <2>1, AreaType, LocalIoAssumption DEF PlcShape, WordAreas, WordArea
  <2> QED
    BY <2>2, <2>3, NoneShared
<1> QED
  BY <1>1, InForceInvariant, PTL

\* apply_local_io on PLI ports leaves the virtual outputs as they are, as the
\* two areas of bits were kept apart and the ports are checked first.
THEOREM OutputsKept == Spec => PliKeepsOutputs
<1>1. ASSUME InForce, [Next]_vars, last' # NoCommand,
             settings.transport = "plclink",
             NEW b \in Plo(settings).start .. (Plo(settings).end - 1)
      PROVE  b \in bits <=> b \in bits'
  <2>1. CASE UNCHANGED vars
    BY <2>1 DEF vars
  <2>2. CASE ~UNCHANGED vars
    <3>1. PICK on \in BOOLEAN, ports \in PortLists : ApplyLocalIo(on, ports)
      BY <1>1, <2>2 DEF Next, BusyChanges, SendCommand, DropTrigger, SaveSettings
    <3>2. PlcShape(settings) /\ PlcValid(settings)
      BY <1>1, TakeableShape DEF InForce, Valid, FnShape
    <3>3. ~Overlap(Pli(settings), Plo(settings))
      BY <3>2 DEF PlcValid
    <3>4. /\ Pli(settings) \in [start : Nat, end : Nat]
          /\ Plo(settings) \in [start : Nat, end : Nat]
      BY <3>2, AreaType DEF PlcShape, Pli, Plo
    <3>5. \A p \in 1 .. MaxPort(settings) : PortBit(settings, p) # b
      <4> SUFFICES ASSUME NEW p \in 1 .. MaxPort(settings),
                          PortBit(settings, p) = b
                   PROVE  FALSE
        OBVIOUS
      <4>1. b \in Pli(settings).start .. (Pli(settings).end - 1)
        BY <3>2, PliPorts
      <4> QED
        BY <1>1, <3>3, <3>4, <4>1, NoneShared
    <3>6. bits' = Switched(on, ports)
      BY <3>1 DEF ApplyLocalIo
    <3> QED
      BY <3>5, <3>6 DEF Switched
  <2> QED
    BY <2>1, <2>2
<1>2. InForce /\ [Next]_vars =>
        [last' # NoCommand /\ settings.transport = "plclink" =>
            \A m \in Plo(settings).start .. (Plo(settings).end - 1) :
                m \in bits <=> m \in bits']_vars
  BY <1>1
<1> QED
  BY <1>2, InForceInvariant, PTL DEF Spec, PliKeepsOutputs

\* The trigger is on exactly while a command is sent: ESI ports end before
\* the command area begins.
THEOREM TriggerBelongs == Spec => []TriggerIsSent
<1>1. Init => TriggerIsSent
  BY DEF Init, TriggerIsSent
<1>2. InForce /\ TriggerIsSent /\ [Next]_vars => TriggerIsSent'
  <2> SUFFICES ASSUME InForce, TriggerIsSent, [Next]_vars,
                      settings'.transport = "field_network",
                      settings'.esi_ports > 0
               PROVE  TriggerBit(settings') \in bits' <=> sending'
    BY DEF TriggerIsSent
  <2>1. settings' = settings
    BY DEF Next, vars, ApplyLocalIo, BusyChanges, SendCommand, DropTrigger,
       SaveSettings, Valid
  <2>2. FnShape(settings) /\ Buildable(settings)
    BY <2>1, TakeableShape DEF InForce, Valid, FnValid, PlcShape
  <2>3. TriggerBit(settings) \in bits <=> sending
    BY <2>1 DEF TriggerIsSent
  <2>4. ASSUME NEW on \in BOOLEAN, NEW ports \in PortLists, ApplyLocalIo(on, ports)
        PROVE  TriggerBit(settings) \in bits' <=> sending'
    <3>1. \A p \in 1 .. MaxPort(settings) :
             PortBit(settings, p) # TriggerBit(settings)
      <4> SUFFICES ASSUME NEW p \in 1 .. MaxPort(settings)
                   PROVE  PortBit(settings, p) # TriggerBit(settings)
        OBVIOUS
      <4>1. /\ PortBit(settings, p) \in 32 .. (TriggerBit(settings) - 1)
            /\ TriggerBit(settings) = 32 + settings.esi_ports
        BY <2>1, <2>2, EsiPorts
      <4> QED
        BY <2>2, <4>1 DEF FnShape
    <3>2. bits' = Switched(on, ports) /\ sending' = sending
      BY <2>4 DEF ApplyLocalIo
    <3> QED
      BY <2>3, <3>1, <3>2 DEF Switched
  <2>5. CASE BusyChanges
    BY <2>1, <2>5 DEF BusyChanges
  <2>6. CASE SendCommand \/ DropTrigger
    BY <2>1, <2>6 DEF SendCommand, DropTrigger
  <2>7. CASE (\E s \in Savable : SaveSettings(s)) \/ UNCHANGED vars
    BY <2>1, <2>3, <2>7 DEF SaveSettings, vars
  <2> QED
    BY <2>1, <2>4, <2>5, <2>6, <2>7 DEF Next
<1> QED
  BY <1>1, <1>2, InForceInvariant, PTL DEF Spec

\* A PLI or ESI command that names one port out of range switches none.
THEOREM RefusedIsWhole == Spec => RefusedChangesNothing
<1>1. [Next]_vars =>
        [last' # NoCommand /\ last'.reply = "error" => bits' = bits]_vars
  <2> SUFFICES ASSUME [Next]_vars, ~UNCHANGED vars,
                      last' # NoCommand, last'.reply = "error"
               PROVE  bits' = bits
    OBVIOUS
  <2>1. PICK on \in BOOLEAN, ports \in PortLists : ApplyLocalIo(on, ports)
    BY DEF Next, BusyChanges, SendCommand, DropTrigger, SaveSettings
  <2>2. ~(ports \subseteq 1 .. MaxPort(settings))
    BY <2>1 DEF ApplyLocalIo
  <2> QED
    BY <2>1, <2>2 DEF ApplyLocalIo, Switched
<1> QED
  BY <1>1, PTL DEF Spec, RefusedChangesNothing

-----------------------------------------------------------------------------
(***************************************************************************)
(* The assignment proposed from the sizes of an EDS file.                  *)
(***************************************************************************)

LEMMA Least ==
  ASSUME NEW T, T \subseteq Nat, T # {}
  PROVE  \E n \in T : \A m \in T : n <= m
<1> DEFINE R == {ss \in Nat \X Nat : ss[1] < ss[2]}
<1>1. IsWellFoundedOn(R, Nat)
  BY NatLessThanWellFounded DEF OpToRel
<1> HIDE DEF R
<1>2. PICK n \in T : \A m \in T : <<m, n>> \notin R
  BY <1>1, WFMin
<1>3. ASSUME NEW m \in T PROVE n <= m
  <2>1. <<m, n>> \in Nat \X Nat /\ <<m, n>> \notin R
    BY <1>2
  <2> QED
    BY <2>1 DEF R
<1> QED
  BY <1>3

LEMMA Induction ==
  ASSUME NEW T, 0 \in T, \A n \in Nat : n \in T => n + 1 \in T
  PROVE  Nat \subseteq T
<1> SUFFICES ASSUME Nat \ T # {} PROVE FALSE
  OBVIOUS
<1>1. PICK n \in Nat \ T : \A m \in Nat \ T : n <= m
  BY Least
<1>2. n - 1 \in Nat /\ n - 1 \in T
  BY <1>1
<1> QED
  BY <1>1, <1>2

\* Of some candidates one is the best: it is sought among those that are the
\* best so far, field by field.
LEMMA BestIs ==
  ASSUME NEW n \in Nat, NEW S, S \subseteq [1 .. n -> Nat], S # {}
  PROVE  Best(S) \in S /\ \A t \in S : n > 0 => Best(S)[1] <= t[1]
<1> DEFINE Same(s, t, k) == \A j \in 1 .. k : s[j] = t[j]
           Before(s, t, k) == \E i \in 1 .. k : s[i] < t[i] /\ Same(s, t, i - 1)
           Leads(s, k) == \A t \in S : Same(s, t, k) \/ Before(s, t, k)
           T == {k \in Nat : k <= n => \E s \in S : Leads(s, k)}
<1>1. 0 \in T
  OBVIOUS
<1>2. ASSUME NEW k \in Nat, k \in T PROVE k + 1 \in T
  <2> SUFFICES ASSUME k + 1 <= n PROVE \E s \in S : Leads(s, k + 1)
    OBVIOUS
  <2>1. PICK s \in S : Leads(s, k)
    BY <1>2
  <2> DEFINE A == {t \in S : Same(s, t, k)}
  <2>2. PICK r \in A : \A t \in A : r[k + 1] <= t[k + 1]
    <3>1. {t[k + 1] : t \in A} \subseteq Nat /\ {t[k + 1] : t \in A} # {}
      OBVIOUS
    <3>2. PICK least \in {t[k + 1] : t \in A} :
            \A m \in {t[k + 1] : t \in A} : least <= m
      BY <3>1, Least
    <3> QED
      BY <3>2
  <2>3. ASSUME NEW t \in S PROVE Same(r, t, k + 1) \/ Before(r, t, k + 1)
    <3>1. CASE Same(s, t, k)
      <4>1. Same(r, t, k) /\ r[k + 1] <= t[k + 1]
        BY <2>2, <3>1
      <4>2. /\ r[k + 1] \in Nat /\ t[k + 1] \in Nat
            /\ \A j \in 1 .. (k + 1) : j \in 1 .. k \/ j = k + 1
        BY <2>3
      <4>3. CASE r[k + 1] = t[k + 1]
        BY <4>1, <4>2, <4>3
      <4>4. CASE r[k + 1] < t[k + 1]
        BY <4>1, <4>4
      <4> QED
        BY <4>1, <4>2, <4>3, <4>4
    <3>2. CASE Before(s, t, k)
      <4>1. PICK i \in 1 .. k : s[i] < t[i] /\ Same(s, t, i - 1)
        BY <3>2
      <4>2. r[i] = s[i] /\ Same(r, t, i - 1) /\ i \in 1 .. (k + 1)
        BY <4>1, <2>2
      <4> QED
        BY <4>1, <4>2
    <3> QED
      BY <2>1, <3>1, <3>2
  <2> QED
    BY <2>2, <2>3
<1> HIDE DEF T
<1>3. n \in T
  BY <1>1, <1>2, Induction
<1>4. PICK s \in S : Leads(s, n)
  BY <1>3 DEF T
<1>5. ASSUME NEW t \in S, t # s PROVE Precedes(s, t)
  <2>1. ~Same(s, t, n)
    BY <1>5
  <2>2. DOMAIN s = 1 .. n
    OBVIOUS
  <2> QED
    BY <1>4, <2>1, <2>2 DEF Precedes
<1> DEFINE best == Best(S)
<1>6. best \in S /\ \A t \in S \ {best} : Precedes(best, t)
  BY <1>5 DEF Best
<1> HIDE DEF best
<1>7. ASSUME NEW t \in S, n > 0 PROVE best[1] <= t[1]
  <2>1. CASE t = best
    BY <1>6, <1>7, <2>1
  <2>2. CASE t # best
    <3>1. PICK k \in DOMAIN best :
            best[k] < t[k] /\ \A j \in 1 .. (k - 1) : best[j] = t[j]
      BY <1>6, <2>2 DEF Precedes
    <3>2. DOMAIN best = 1 .. n /\ best[1] \in Nat /\ t[1] \in Nat
      BY <1>6, <1>7
    <3>3. k = 1 \/ 1 \in 1 .. (k - 1)
      BY <3>1, <3>2
    <3> QED
      BY <3>1, <3>2, <3>3
  <2> QED
    BY <2>1, <2>2
<1> QED
  BY <1>6, <1>7 DEF best

\* The words the ports of a side take.
PortWords(p) == p \div 16

LEMMA PortWordsAre ==
  /\ PortWords(0) = 0 /\ PortWords(32) = 2 /\ PortWords(64) = 4
  /\ PortWords(96) = 6 /\ PortWords(128) = 8
  BY DEF PortWords

\* The sizes for which there is an assignment at all.
Assignable(bytes) == Even(bytes) /\ Even(bytes \div 2) /\ bytes \div 2 >= 6

\* Every layout build_layout accepts has such sizes.
LEMMA LayoutSizes ==
  ASSUME NEW l, Buildable(l),
         {l.command_words, l.response_words, l.result_words} \subseteq Int,
         NEW in \in Nat, NEW out \in Nat, FitsSizes(l, in, out)
  PROVE  Assignable(in) /\ Assignable(out)
<1> DEFINE esi == PortWords(l.esi_ports)
           eso == PortWords(l.eso_ports)
<1>1. /\ esi \in {0, 2, 4, 6, 8} /\ eso \in {0, 2, 4, 6, 8}
      /\ 2 * (2 + eso + l.result_words + l.response_words) = in
      /\ 2 * (2 + esi + l.command_words) = out
  <2>1. esi \in {0, 2, 4, 6, 8} /\ eso \in {0, 2, 4, 6, 8}
    BY PortWordsAre DEF Buildable, IoPorts
  <2>2. /\ (2 + eso + l.result_words + l.response_words) * 2 = in
        /\ (2 + esi + l.command_words) * 2 = out
    BY DEF FitsSizes, Layout, StatusWords, ReservedWords, PortWords
  <2> QED
    BY <2>1, <2>2
<1> HIDE DEF esi, eso
<1> DEFINE c == l.command_words
           r == l.response_words
           d == l.result_words
<1>2. /\ {c, r, d} \subseteq Nat /\ c >= 4 /\ r >= 4
      /\ c % 2 = 0 /\ r % 2 = 0 /\ d % 2 = 0
  BY DEF Buildable, Even
<1>3. 2 * (2 + eso + d + r) = in /\ 2 * (2 + esi + c) = out
  BY <1>1
<1> HIDE DEF c, r, d
<1>4. in % 2 = 0 /\ in \div 2 = 2 + eso + d + r
  BY <1>1, <1>2, <1>3
<1>5. out % 2 = 0 /\ out \div 2 = 2 + esi + c
  BY <1>1, <1>2, <1>3
<1>6. (2 + eso + d + r) % 2 = 0 /\ 2 + eso + d + r >= 6
  BY <1>1, <1>2
<1>7. (2 + esi + c) % 2 = 0 /\ 2 + esi + c >= 6
  BY <1>1, <1>2
<1> QED
  BY <1>4, <1>5, <1>6, <1>7 DEF Assignable, Even

\* Candidates for the output assembly, and whether there is one.
LEMMA OutputCandidatesAre ==
  ASSUME NEW w \in Nat, w >= 6
  PROVE  /\ OutputCandidates(w) \subseteq [1 .. 3 -> Nat]
         /\ OutputCandidates(w) # {} <=> Even(w)
<1> DEFINE C == OutputCandidates(w)
           Ports == {q \in IoPorts : /\ CommandLeft(w, q) >= 4
                                     /\ Even(CommandLeft(w, q))}
<1>1. C = {<<Dist(CommandLeft(w, p), Preferred), p, CommandLeft(w, p)>> : p \in Ports}
  BY DEF OutputCandidates
<1>2. ASSUME NEW p \in IoPorts
      PROVE  /\ CommandLeft(w, p) = w - 2 - PortWords(p)
             /\ PortWords(p) \in {0, 2, 4, 6, 8} /\ p \in Nat
  BY PortWordsAre DEF CommandLeft, ReservedWords, PortWords, IoPorts
<1>3. ASSUME NEW p \in Ports
      PROVE  <<Dist(CommandLeft(w, p), Preferred), p, CommandLeft(w, p)>>
               \in [1 .. 3 -> Nat]
  <2>1. CommandLeft(w, p) \in Nat /\ p \in Nat
    BY <1>2
  <2>2. Dist(CommandLeft(w, p), Preferred) \in Nat
    BY <2>1 DEF Dist, Preferred
  <2> QED
    BY <2>1, <2>2
<1>4. ASSUME Even(w) PROVE 0 \in Ports
  <2>1. 0 \in IoPorts /\ CommandLeft(w, 0) = w - 2
    BY <1>2, PortWordsAre DEF IoPorts
  <2>2. Even(w - 2) /\ w - 2 >= 4
    BY <1>4 DEF Even
  <2> QED
    BY <2>1, <2>2
<1>5. ASSUME NEW p \in Ports PROVE Even(w)
  BY <1>2 DEF Even
<1> QED
  BY <1>1, <1>3, <1>4, <1>5

LEMMA DistIsNat == ASSUME NEW a \in Int, NEW b \in Int PROVE Dist(a, b) \in Nat
BY DEF Dist

LEMMA MinIsNat == ASSUME NEW a \in Nat, NEW b \in Nat PROVE Min2(a, b) \in Nat
BY DEF Min2

LEMMA InputCandidatesAre ==
  ASSUME NEW w \in Nat, w >= 6, NEW esi
  PROVE  /\ InputCandidates(w, esi) \subseteq [1 .. 4 -> Nat]
         /\ InputCandidates(w, esi) # {} <=> Even(w)
         /\ \A i \in InputCandidates(w, esi) :
              /\ i[2] \in IoPorts /\ i[4] \in {64, 32, 16, 8, 4}
              /\ i[3] \in Nat /\ Even(i[3])
              /\ i[3] + i[4] = w - 2 - PortWords(i[2])
<1> DEFINE Left(p) == w - StatusWords - p \div 16
           Responses(p) == {r \in {64, 32, 16, 8, 4} : r <= Left(p) /\ Even(Left(p) - r)}
           Score(p, r) == Dist(r, Preferred)
                          + Min2(Dist(Left(p) - r, 238), Dist(Left(p) - r, 240))
                          + (IF p = esi THEN 0 ELSE 10)
           C == InputCandidates(w, esi)
<1>1. C = UNION {{<<Score(p, r), p, Left(p) - r, r>> : r \in Responses(p)} : p \in IoPorts}
  BY DEF InputCandidates
<1>2. ASSUME NEW p \in IoPorts
      PROVE  /\ Left(p) = w - 2 - PortWords(p)
             /\ PortWords(p) \in {0, 2, 4, 6, 8} /\ p \in Nat
  BY PortWordsAre DEF StatusWords, PortWords, IoPorts
<1>3. ASSUME NEW p \in IoPorts, NEW r \in Responses(p)
      PROVE  /\ Score(p, r) \in Nat /\ p \in Nat /\ Left(p) - r \in Nat /\ r \in Nat
             /\ Even(Left(p) - r)
  <2>1. r \in Nat /\ r <= Left(p) /\ Left(p) \in Int /\ Even(Left(p) - r) /\ p \in Nat
    BY <1>2
  <2> DEFINE x == Left(p) - r
  <2>2. x \in Nat
    BY <2>1
  <2> HIDE DEF Left
  <2> HIDE DEF x
  <2>3. /\ r \in Int /\ x \in Int /\ Preferred \in Int
        /\ 238 \in Int /\ 240 \in Int
    BY <2>1, <2>2 DEF Preferred
  <2>4. Dist(r, Preferred) \in Nat
    BY <2>3, DistIsNat
  <2>5. Dist(x, 238) \in Nat
    BY <2>3, DistIsNat
  <2>6. Dist(x, 240) \in Nat
    BY <2>3, DistIsNat
  <2>7. Min2(Dist(x, 238), Dist(x, 240)) \in Nat
    BY <2>5, <2>6, MinIsNat
  <2>8. Dist(r, Preferred) + Min2(Dist(x, 238), Dist(x, 240))
          + (IF p = esi THEN 0 ELSE 10) \in Nat
    BY <2>4, <2>7
  <2> QED
    BY <2>1, <2>2, <2>8 DEF x
<1>4. \A i \in C : \E p \in IoPorts : \E r \in Responses(p) :
         i = <<Score(p, r), p, Left(p) - r, r>>
  BY <1>1
<1>5. ASSUME NEW p \in IoPorts, NEW r \in Responses(p)
      PROVE  <<Score(p, r), p, Left(p) - r, r>> \in C
  BY <1>1
<1> HIDE DEF C, Score
<1>6. ASSUME NEW i \in C
      PROVE  /\ i \in [1 .. 4 -> Nat]
             /\ i[2] \in IoPorts /\ i[4] \in {64, 32, 16, 8, 4}
             /\ i[3] \in Nat /\ Even(i[3])
             /\ i[3] + i[4] = w - 2 - PortWords(i[2])
             /\ Even(w)
  <2>1. PICK p \in IoPorts : \E r \in Responses(p) :
          i = <<Score(p, r), p, Left(p) - r, r>>
    BY <1>4
  <2>2. PICK r \in Responses(p) : i = <<Score(p, r), p, Left(p) - r, r>>
    BY <2>1
  <2>3. /\ i[1] = Score(p, r) /\ i[2] = p /\ i[3] = Left(p) - r /\ i[4] = r
        /\ i \in [1 .. 4 -> Nat]
    BY <2>2, <1>3
  <2>4. i[3] + i[4] = w - 2 - PortWords(p)
    BY <2>3, <1>2
  <2>5. Even(w)
    <3> DEFINE n == PortWords(p)
    <3>1. n \in {0, 2, 4, 6, 8} /\ (w - 2 - n - r) % 2 = 0
      BY <1>2, <1>3 DEF Even
    <3> HIDE DEF n
    <3>2. r \in Nat /\ r % 2 = 0 /\ n \in Nat /\ n % 2 = 0
      BY <3>1
    <3> QED
      BY <3>1, <3>2 DEF Even
  <2> QED
    BY <2>3, <2>4, <2>5, <1>3
<1>7. ASSUME Even(w) PROVE C # {}
  <2>1. 0 \in IoPorts /\ Left(0) = w - 2
    BY <1>2, PortWordsAre DEF IoPorts
  <2>2. 4 \in Responses(0)
    BY <2>1, <1>7 DEF Even
  <2> QED
    BY <2>1, <2>2, <1>5
<1> QED
  BY <1>6, <1>7 DEF C

\* There is a proposal for all sizes that any layout can have.
LEMMA SuggestibleIs ==
  ASSUME NEW in \in Nat, NEW out \in Nat
  PROVE  Suggestible(in, out) <=> Assignable(in) /\ Assignable(out)
<1> DEFINE wi == in \div 2
           wo == out \div 2
<1>1. wi \in Nat /\ wo \in Nat
  OBVIOUS
<1>2. wo >= 6 => (OutputCandidates(wo) # {} <=> Even(wo))
  BY <1>1, OutputCandidatesAre
<1>3. wi >= 6 => (InputCandidates(wi, Best(OutputCandidates(wo))[2]) # {} <=> Even(wi))
  BY <1>1, InputCandidatesAre
<1> QED
  BY <1>2, <1>3 DEF Suggestible, Assignable

\* What is proposed for the output assembly: the command area nearest to 64
\* words, which is larger than the largest only if all the ports are too few.
LEMMA SuggestedOutput ==
  ASSUME NEW w \in Nat, w >= 6, Even(w)
  PROVE  LET o == Best(OutputCandidates(w)) IN
         /\ o[2] \in IoPorts /\ o[3] \in Nat /\ o[3] >= 4 /\ Even(o[3])
         /\ o[3] = w - 2 - PortWords(o[2])
         /\ o[3] <= MaxCommand <=> w <= 10 + MaxCommand
<1> DEFINE C == OutputCandidates(w)
           Ports == {q \in IoPorts : /\ CommandLeft(w, q) >= 4
                                     /\ Even(CommandLeft(w, q))}
           Cand(p) == <<Dist(CommandLeft(w, p), Preferred), p, CommandLeft(w, p)>>
           o == Best(C)
<1>1. C = {Cand(p) : p \in Ports}
  BY DEF OutputCandidates
<1>2. o \in C /\ \A t \in C : o[1] <= t[1]
  <2>1. C \subseteq [1 .. 3 -> Nat] /\ C # {}
    BY OutputCandidatesAre
  <2> HIDE DEF C
  <2>2. 3 \in Nat /\ 3 > 0
    OBVIOUS
  <2>3. Best(C) \in C /\ \A t \in C : 3 > 0 => Best(C)[1] <= t[1]
    BY <2>1, <2>2, BestIs
  <2> QED
    BY <2>2, <2>3
<1> HIDE DEF o, C
<1>3. PICK p \in Ports : o = Cand(p)
  BY <1>1, <1>2
<1>4. \A q \in Ports : Cand(q) \in C
  BY <1>1
<1> DEFINE c == w - 2 - PortWords(p)
<1>5. /\ p \in IoPorts /\ c >= 4 /\ Even(c) /\ c \in Nat
      /\ o[1] = Dist(c, 64) /\ o[2] = p /\ o[3] = c
  <2>1. CommandLeft(w, p) = c /\ PortWords(p) \in Nat
    BY PortWordsAre DEF CommandLeft, ReservedWords, PortWords, IoPorts
  <2> HIDE DEF c
  <2>2. c \in Int
    BY <2>1 DEF c
  <2> QED
    BY <1>3, <2>1, <2>2 DEF Preferred
<1>6. ASSUME NEW q \in IoPorts, w - 2 - PortWords(q) >= 4
      PROVE  Dist(c, 64) <= Dist(w - 2 - PortWords(q), 64)
  <2> DEFINE d == w - 2 - PortWords(q)
  <2>1. CommandLeft(w, q) = d /\ PortWords(q) \in {0, 2, 4, 6, 8}
    BY PortWordsAre DEF CommandLeft, ReservedWords, PortWords, IoPorts
  <2>2. Even(d)
    BY <2>1 DEF Even
  <2>3. q \in Ports
    BY <1>6, <2>1, <2>2
  <2>4. Cand(q)[1] = Dist(d, 64)
    BY <2>1 DEF Preferred
  <2> QED
    BY <2>3, <2>4, <1>2, <1>4, <1>5
<1>7. MaxCommand \in Nat /\ MaxCommand >= 64
  BY LocalIoAssumption DEF Preferred
<1>8. c <= MaxCommand <=> w <= 10 + MaxCommand
  <2>1. /\ PortWords(p) \in {0, 2, 4, 6, 8}
        /\ PortWords(p) = 8 <=> p = 128
    BY <1>5, PortWordsAre DEF IoPorts
  <2>2. CASE w - 10 >= 64
    <3>1. Dist(c, 64) <= Dist(w - 10, 64)
      <4>1. 128 \in IoPorts /\ w - 2 - PortWords(128) = w - 10
        BY PortWordsAre DEF IoPorts
      <4> QED
        BY <4>1, <1>6, <2>2
    <3>2. Dist(c, 64) = c - 64 /\ Dist(w - 10, 64) = w - 10 - 64
      BY <2>1, <2>2 DEF Dist
    <3>3. c = w - 10
      BY <3>1, <3>2, <2>1
    <3> QED
      BY <3>3, <1>7
  <2>3. CASE w - 10 < 64
    <3>1. ASSUME c > 64 PROVE FALSE
      <4>1. c >= 66 /\ p # 128
        BY <3>1, <1>5, <2>1, <2>3 DEF Even
      <4>2. PICK q \in IoPorts : PortWords(q) = PortWords(p) + 2
        BY <1>5, <4>1, PortWordsAre DEF IoPorts
      <4>3. w - 2 - PortWords(q) = c - 2
        BY <4>2, <2>1
      <4>4. Dist(c, 64) = c - 64 /\ Dist(c - 2, 64) = c - 2 - 64
        BY <4>1, <1>5 DEF Dist
      <4>5. Dist(c, 64) <= Dist(c - 2, 64)
        <5>1. w - 2 - PortWords(q) >= 4
          BY <4>1, <4>3, <1>5
        <5>2. Dist(c, 64) <= Dist(w - 2 - PortWords(q), 64)
          BY <5>1, <1>6
        <5> QED
          BY <4>3, <5>2
      <4> QED
        BY <4>4, <4>5, <1>5
    <3>2. c <= 64 /\ w <= 10 + 64
      BY <3>1, <2>3, <1>5
    <3> QED
      BY <3>2, <1>5, <1>7
  <2> QED
    BY <2>2, <2>3
<1> QED
  BY <1>5, <1>8 DEF o, C

\* What is proposed for the input assembly.
LEMMA SuggestedInput ==
  ASSUME NEW w \in Nat, w >= 6, Even(w), NEW esi
  PROVE  LET i == Best(InputCandidates(w, esi)) IN
         /\ i[2] \in IoPorts /\ i[4] \in {64, 32, 16, 8, 4}
         /\ i[3] \in Nat /\ Even(i[3])
         /\ i[3] + i[4] = w - 2 - PortWords(i[2])
<1> DEFINE C == InputCandidates(w, esi)
<1>1. /\ C \subseteq [1 .. 4 -> Nat] /\ C # {}
      /\ \A i \in C : /\ i[2] \in IoPorts /\ i[4] \in {64, 32, 16, 8, 4}
                      /\ i[3] \in Nat /\ Even(i[3])
                      /\ i[3] + i[4] = w - 2 - PortWords(i[2])
  BY InputCandidatesAre
<1> HIDE DEF C
<1>2. Best(C) \in C
  BY <1>1, BestIs
<1> QED
  BY <1>1, <1>2 DEF C

\* The signals of the Field Network device as shipped.
Shipped == <<Signal("auto", "auto", "status", 0),
             Signal("busy", "busy", "status", 1),
             Signal("result_valid", "result_valid", "status", 2),
             Signal("error", "error", "status", 3)>>

LEMMA ShippedFit ==
  ASSUME NEW s, s.signals = Shipped, s.input_bytes \in Nat, s.input_bytes >= 12
  PROVE  FnSignalsValid(s)
<1>1. /\ Len(s.signals) = 4 /\ DOMAIN s.signals = 1 .. 4
      /\ Signals(s) = {Shipped[1], Shipped[2], Shipped[3], Shipped[4]}
  BY DEF Signals, Shipped
<1>2. \A k \in 1 .. 4 : Shipped[k].source = "status" /\ Shipped[k].at = k - 1
  BY DEF Shipped, Signal
<1>3. /\ Shipped[1].id = "auto" /\ Shipped[2].id = "busy"
      /\ Shipped[3].id = "result_valid" /\ Shipped[4].id = "error"
      /\ Shipped[1].role = "auto" /\ Shipped[2].role = "busy"
      /\ Shipped[3].role = "result_valid" /\ Shipped[4].role = "error"
  BY DEF Shipped, Signal
<1> HIDE DEF Shipped
<1>4. {g.id : g \in Signals(s)} = {"auto", "busy", "result_valid", "error"}
  BY <1>1, <1>3
<1>5. BusySignals(s) = {Shipped[2]}
  BY <1>1, <1>3 DEF BusySignals
<1>6. Cardinality({"auto", "busy", "result_valid", "error"}) = 4
  <2> DEFINE A == {"auto"}
             B == A \cup {"busy"}
             C == B \cup {"result_valid"}
             D == C \cup {"error"}
  <2>1. /\ "busy" \notin A /\ "result_valid" \notin B /\ "error" \notin C
        /\ D = {"auto", "busy", "result_valid", "error"}
    OBVIOUS
  <2>2. IsFiniteSet(A) /\ Cardinality(A) = 1
    BY FS_Singleton
  <2> HIDE DEF A
  <2>3. IsFiniteSet(B) /\ Cardinality(B) = 2
    BY <2>1, <2>2, FS_AddElement
  <2> HIDE DEF B
  <2>4. IsFiniteSet(C) /\ Cardinality(C) = 3
    BY <2>1, <2>3, FS_AddElement
  <2> HIDE DEF C
  <2>5. Cardinality(D) = 4
    BY <2>1, <2>4, FS_AddElement
  <2> QED
    BY <2>1, <2>5
<1>7. Cardinality(BusySignals(s)) = 1
  BY <1>5, FS_Singleton
<1>8. ASSUME NEW g \in Signals(s)
      PROVE  /\ g.source # "plo" /\ g.source # "eso"
             /\ g.source = "status" => g.at <= MaxStatusBit
             /\ SignalBit(s, g) \in 0 .. (s.input_bytes * 8 - 1)
  <2>1. g.source = "status" /\ g.at \in 0 .. 3
    BY <1>1, <1>2
  <2> QED
    BY <2>1 DEF SignalBit, MaxStatusBit
<1> QED
  BY <1>1, <1>4, <1>6, <1>7, <1>8 DEF FnSignalsValid, SignalsNamed

\* The Field Network settings in force have all of the fields.
LEMMA FnFields ==
  ASSUME NEW c \in FnSettings PROVE Taken(c) \in FnSettings
<1>1. c.transport = "field_network"
  BY DEF FnSettings
<1>2. DefaultSignals(c) = Shipped
  BY <1>1 DEF DefaultSignals, Shipped
<1>3. Shipped \in Seq(StatusSignal)
  <2>1. \A r \in {"auto", "busy", "result_valid", "error"}, n \in Nat :
          [id |-> r, role |-> r, source |-> "status", at |-> n] \in StatusSignal
    BY LocalIoAssumption DEF SignalRole, StatusSignal
  <2> QED
    BY <2>1 DEF Shipped, Signal
<1>4. Migrated(c) \in FnSettings
  BY <1>2, <1>3 DEF Migrated, FnSettings
<1>5. Taken(c) = Migrated(c)
  <2>1. Migrated(c).transport = "field_network"
    BY <1>4 DEF FnSettings
  <2> QED
    BY <2>1 DEF Taken, WithBusyPort
<1> QED
  BY <1>4, <1>5

\* What an import leaves in the fields, with the signals as shipped.
Import(s, in, out) == Migrated([Imported(s, in, out) EXCEPT !.signals = <<>>])

LEMMA ImportIs ==
  ASSUME NEW s \in FnSettings, NEW in \in Nat, NEW out \in Nat
  PROVE  LET n == Import(s, in, out)
             l == IF Suggestible(in, out) THEN Suggested(in, out)
                  ELSE Rough(s, in, out)
         IN  /\ n.transport = "field_network" /\ n.signals = Shipped
             /\ n.input_bytes = in /\ n.output_bytes = out
             /\ n.esi_ports = l.esi_ports /\ n.eso_ports = l.eso_ports
             /\ n.command_words = l.command_words
             /\ n.response_words = l.response_words
             /\ n.result_words = l.result_words
<1> DEFINE Fields == {"transport", "signals", "esi_ports", "eso_ports",
                      "command_words", "response_words", "result_words",
                      "input_bytes", "output_bytes"}
           Words5 == {"esi_ports", "eso_ports", "command_words",
                      "response_words", "result_words"}
           g == Suggested(in, out)
           l == IF Suggestible(in, out) THEN g ELSE Rough(s, in, out)
           b == IF Suggestible(in, out)
                THEN [f \in DOMAIN s |-> IF f \in DOMAIN g THEN g[f] ELSE s[f]]
                ELSE Rough(s, in, out)
           m == Imported(s, in, out)
           e == [m EXCEPT !.signals = <<>>]
<1>1. DOMAIN s = Fields /\ s.transport = "field_network"
  BY DEF FnSettings
<1>2. DOMAIN g = Words5
  BY DEF Suggested
<1>3. DOMAIN Rough(s, in, out) = Fields /\ Rough(s, in, out).transport = s.transport
  BY <1>1 DEF Rough
<1>4. m = [b EXCEPT !.input_bytes = in, !.output_bytes = out]
  BY DEF Imported
<1> HIDE DEF g, m
<1>5. /\ DOMAIN b = Fields /\ b.transport = "field_network"
      /\ \A f \in Words5 : b[f] = l[f]
  BY <1>1, <1>2, <1>3
<1> HIDE DEF b, l
<1>6. /\ DOMAIN m = Fields /\ m.transport = "field_network"
      /\ m.input_bytes = in /\ m.output_bytes = out
      /\ \A f \in Words5 : m[f] = l[f]
  BY <1>4, <1>5
<1>7. /\ DOMAIN e = Fields /\ e.signals = <<>>
      /\ \A f \in Fields \ {"signals"} : e[f] = m[f]
  BY <1>6
<1>8. Import(s, in, out) = Migrated(e)
  BY DEF Import, m
<1> HIDE DEF e
<1>9. Migrated(e) = [e EXCEPT !.signals = Shipped]
  <2>1. e.transport # "plclink"
    BY <1>6, <1>7
  <2>2. DefaultSignals(e) = Shipped
    BY <2>1 DEF DefaultSignals, Shipped
  <2> QED
    BY <1>7, <2>2 DEF Migrated
<1> DEFINE n == Import(s, in, out)
<1>10. n.signals = Shipped /\ \A f \in Fields \ {"signals"} : n[f] = m[f]
  BY <1>7, <1>8, <1>9
<1> HIDE DEF n
<1> QED
  BY <1>6, <1>10 DEF n, l, g

\* A proposal fits the sizes it was made from, and can be saved unless its
\* input assembly or its command area is too large.
LEMMA ProposalFits ==
  ASSUME NEW s \in FnSettings, NEW in \in Nat, NEW out \in Nat, Suggestible(in, out)
  PROVE  LET n == Import(s, in, out) IN
         FnValid(n) <=> /\ in <= MaxAssembly
                        /\ out <= 2 * (ReservedWords + 8 + MaxCommand)
<1> DEFINE n == Import(s, in, out)
           wi == in \div 2
           wo == out \div 2
           o == Best(OutputCandidates(wo))
           i == Best(InputCandidates(wi, o[2]))
           max == MaxCommand
<1>1. /\ wi \in Nat /\ wi >= 6 /\ Even(wi) /\ in = 2 * wi
      /\ wo \in Nat /\ wo >= 6 /\ Even(wo) /\ out = 2 * wo
  <2>1. Assignable(in) /\ Assignable(out)
    BY SuggestibleIs
  <2> QED
    BY <2>1 DEF Assignable, Even
<1>2. /\ n.transport = "field_network" /\ n.signals = Shipped
      /\ n.input_bytes = in /\ n.output_bytes = out
      /\ n.esi_ports = o[2] /\ n.command_words = o[3]
      /\ n.eso_ports = i[2] /\ n.result_words = i[3] /\ n.response_words = i[4]
  BY ImportIs DEF Suggested
<1> HIDE DEF n
<1>3. /\ o[2] \in IoPorts /\ o[3] \in Nat /\ o[3] >= 4 /\ Even(o[3])
      /\ o[3] = wo - 2 - PortWords(o[2])
      /\ o[3] <= max <=> wo <= 10 + max
  <2> HIDE DEF wo
  <2> QED
    BY <1>1, SuggestedOutput
<1>4. /\ i[2] \in IoPorts /\ i[4] \in {64, 32, 16, 8, 4}
      /\ i[3] \in Nat /\ Even(i[3])
      /\ i[3] + i[4] = wi - 2 - PortWords(i[2])
  <2> HIDE DEF wi, o
  <2> QED
    BY <1>1, SuggestedInput
<1> HIDE DEF wi, wo, o, i
<1>5. max \in Nat /\ max >= 64
  BY LocalIoAssumption DEF Preferred
<1>6. Buildable(n)
  <2>1. n.response_words >= 4 /\ Even(n.response_words)
    BY <1>2, <1>4 DEF Even
  <2> QED
    BY <1>2, <1>3, <1>4, <2>1 DEF Buildable
<1>7. FitsSizes(n, in, out)
  <2>1. /\ Layout(n).input_words = 2 + PortWords(i[2]) + i[3] + i[4]
        /\ Layout(n).output_words = 2 + PortWords(o[2]) + o[3]
    BY <1>2 DEF Layout, PortWords, StatusWords, ReservedWords
  <2>2. PortWords(i[2]) \in Nat /\ PortWords(o[2]) \in Nat
    BY <1>3, <1>4, PortWordsAre DEF IoPorts
  <2>3. Layout(n).input_words = wi /\ Layout(n).output_words = wo
    BY <2>1, <2>2, <1>1, <1>3, <1>4
  <2> QED
    BY <2>3, <1>1 DEF FitsSizes
<1>8. FnSignalsValid(n)
  BY <1>1, <1>2, ShippedFit
<1>9. n.response_words <= max
  BY <1>2, <1>4, <1>5
<1>10. FnValid(n) <=> /\ o[3] <= max
                      /\ in <= MaxAssembly /\ out <= MaxAssembly
  <2>1. in >= MinAssembly /\ out >= MinAssembly
    BY <1>1 DEF MinAssembly
  <2>2. {n.input_bytes, n.output_bytes} \subseteq MinAssembly .. MaxAssembly
          <=> in <= MaxAssembly /\ out <= MaxAssembly
    BY <1>2, <2>1 DEF MinAssembly, MaxAssembly
  <2> QED
    BY <1>2, <1>6, <1>7, <1>8, <1>9, <2>2 DEF FnValid
<1>11. out <= 2 * (ReservedWords + 8 + max) <=> wo <= 10 + max
  BY <1>1, <1>5 DEF ReservedWords
<1>12. out <= 2 * (ReservedWords + 8 + max) => out <= MaxAssembly
  BY <1>1, <1>5, LocalIoAssumption DEF ReservedWords, MaxAssembly
<1> QED
  BY <1>3, <1>10, <1>11, <1>12 DEF n

\* Where there is no proposal, no layout of any kind has these sizes.
LEMMA RoughNeverFits ==
  ASSUME NEW s \in FnSettings, NEW in \in Nat, NEW out \in Nat,
         FnValid(Import(s, in, out))
  PROVE  Suggestible(in, out)
<1> SUFFICES ASSUME ~Suggestible(in, out) PROVE FALSE
  OBVIOUS
<1> DEFINE n == Import(s, in, out)
           l == Rough(s, in, out)
<1>1. /\ n.input_bytes = in /\ n.output_bytes = out
      /\ n.command_words = l.command_words
      /\ n.response_words = l.response_words
      /\ n.result_words = l.result_words
  BY ImportIs
<1>2. {l.command_words, l.response_words, l.result_words} \subseteq Int
  <2> DEFINE remain == in \div 2 - 2
             half == IF remain > 64 THEN 64
                     ELSE IF remain \div 2 > 4 THEN remain \div 2 ELSE 4
             response == half - (half % 2)
             rest == remain - response
  <2>1. /\ s.command_words \in Int /\ s.response_words \in Int
        /\ s.result_words \in Int
        /\ DOMAIN s = {"transport", "signals", "esi_ports", "eso_ports",
                       "command_words", "response_words", "result_words",
                       "input_bytes", "output_bytes"}
    BY DEF FnSettings
  <2>2. out \div 2 - 2 \in Int /\ remain \in Int /\ half \in Int
    OBVIOUS
  <2> HIDE DEF remain, half
  <2>3. response \in Int
    BY <2>2
  <2> HIDE DEF response
  <2>4. rest - (rest % 2) \in Int
    BY <2>2, <2>3
  <2>5. /\ l.command_words \in {s.command_words, out \div 2 - 2}
        /\ l.response_words \in {s.response_words, response}
        /\ l.result_words \in {s.result_words, rest - (rest % 2)}
    BY <2>1 DEF Rough, remain, half, response
  <2> QED
    BY <2>1, <2>2, <2>3, <2>4, <2>5
<1>3. Buildable(n) /\ FitsSizes(n, in, out)
  BY <1>1 DEF FnValid
<1> HIDE DEF n, l
<1>4. Assignable(in) /\ Assignable(out)
  BY <1>1, <1>2, <1>3, LayoutSizes
<1> QED
  BY <1>4, SuggestibleIs

\* What an import proposes can be saved exactly when the assemblies allow a
\* proposal, the input assembly is no larger than the settings take and the
\* output assembly no larger than the largest command area and 128 ports; what
\* it falls back on otherwise never can
\* (suggest_layout_from_sizes, import_eds, validate_layout_against_sizes).
THEOREM ProposalsCanBeSaved == Spec => []SuggestionFits
<1>1. InForce => SuggestionFits
  <2> SUFFICES ASSUME InForce, settings.transport = "field_network",
                      NEW z \in Sizes
               PROVE  Valid(Import(settings, z[1], z[2]))
                        <=> /\ Suggestible(z[1], z[2])
                            /\ z[1] <= MaxAssembly
                            /\ z[2] <= 2 * (ReservedWords + 8 + MaxCommand)
    BY DEF SuggestionFits, Import
  <2>1. z[1] \in Nat /\ z[2] \in Nat
    BY LocalIoAssumption
  <2>2. settings \in FnSettings
    <3>1. PICK c \in Candidate : settings = Taken(c)
      BY DEF InForce, Takeable
    <3>2. c \notin PlcSettings
      BY <3>1, TakenKeepsPlc
    <3> QED
      BY <3>1, <3>2, FnFields, LocalIoAssumption
  <2> DEFINE n == Import(settings, z[1], z[2])
  <2>3. Valid(n) <=> FnValid(n)
    <3>1. n.transport = "field_network"
      BY <2>1, <2>2, ImportIs
    <3> QED
      BY <3>1 DEF Valid
  <2>4. CASE Suggestible(z[1], z[2])
    BY <2>1, <2>2, <2>3, <2>4, ProposalFits
  <2>5. CASE ~Suggestible(z[1], z[2])
    BY <2>1, <2>2, <2>3, <2>5, RoughNeverFits
  <2> QED
    BY <2>4, <2>5
<1> QED
  BY <1>1, InForceInvariant, PTL

===============================================================================
