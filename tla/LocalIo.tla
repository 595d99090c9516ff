------------------------------- MODULE LocalIo -------------------------------
(***************************************************************************)
(* The settings of the address areas and the virtual inputs a user or a    *)
(* sequence switches: ProtocolSettings.validate_plclink_layout             *)
(* (backend/models.py), suggested layouts (AssemblyLayout) and             *)
(* apply_local_io (backend/local_io.py).  PLI ports are M bits of the      *)
(* simulated PLC, ESI ports bits of the output assembly of the EtherNet/IP *)
(* connection; the same bits, or their neighbours, carry the command       *)
(* handshake, which goes on meanwhile.                                     *)
(*                                                                         *)
(* A definition introduced by "Slip:" is the one that follows it with one  *)
(* thing done wrong; no action uses it.                                    *)
(***************************************************************************)
EXTENDS AssemblyLayout, Sequences, FiniteSets

CONSTANTS
    Candidate,    \* the settings a user may try to save
    SignalId,     \* the ids of status signals
    Sizes,        \* the <<input, output>> byte sizes of the EDS files imported
    LastAddress,  \* 65535, the last address of D and M
    NotifyWords,  \* 8, the size of the notification area
    MaxCommand    \* 512, the largest command or response area

\* The fields' own limits on the assembly sizes, in bytes, and on the bit of a
\* status signal.
MinAssembly == 4
MaxAssembly == 1444
MaxStatusBit == 2047

\* What the fields of ProtocolSettings and of a status signal hold, one by one.
SignalRole == {"busy", "auto", "result_valid", "error", "none"}
StatusSignal ==
    [id : SignalId, role : SignalRole, source : {"status", "eso"}, at : Nat]
    \cup [id : SignalId, role : SignalRole, source : {"plo"}, at : Nat \ {0}]
PlcSettings ==
    [transport : {"plclink"}, signals : Seq(StatusSignal), pli : Nat, plo : Nat,
     pli_count : Nat \ {0}, plo_count : Nat \ {0}, busy_port : Nat \ {0},
     command : Nat, command_words : Nat, response : Nat, response_words : Nat,
     result : Nat, result_words : Nat, result_on : BOOLEAN,
     notify : Nat, notify_on : BOOLEAN]
FnSettings ==
    [transport : {"field_network"}, signals : Seq(StatusSignal),
     esi_ports : Nat, eso_ports : Nat, command_words : Nat,
     response_words : Nat, result_words : Nat, input_bytes : Nat,
     output_bytes : Nat]

ASSUME LocalIoAssumption ==
    /\ {LastAddress, NotifyWords, MaxCommand} \subseteq Nat \ {0}
    /\ SignalRole \ {"none"} \subseteq SignalId
    /\ Candidate \subseteq PlcSettings \cup FnSettings
    /\ Sizes \subseteq Nat \X Nat
    /\ Preferred <= MaxCommand
    /\ 2 * (ReservedWords + 8 + MaxCommand) <= MaxAssembly

VARIABLES
    settings,   \* the settings in force
    bits,       \* the bits that are on: M of the PLC, or the output assembly
    sending,    \* a command exchange is under way
    last        \* the last PLI or ESI command: code, ports, state, reply

vars == <<settings, bits, sending, last>>

-----------------------------------------------------------------------------
(***************************************************************************)
(* The settings.                                                           *)
(***************************************************************************)

\* Slip: areas that touch are taken to overlap only beyond the next word.
OverlapLate(a, b) == ~(a.end <= b.start + 1 \/ b.end <= a.start + 1)

\* _ranges_overlap; end is the first address after the area.
Overlap(a, b) == ~(a.end <= b.start \/ b.end <= a.start)

Area(start, size) == [start |-> start, end |-> start + size]
Pli(s) == Area(s.pli, s.pli_count)
Plo(s) == Area(s.plo, s.plo_count)
BusyAddress(s) == s.plo + s.busy_port - 1

\* Slip: the notification area is left out.
WordAreasPlain(s) ==
    {"command", "response"} \cup IF s.result_on THEN {"result"} ELSE {}

\* The D areas in use; the command and the response area are not checked
\* against the end of D, the memory grows.
WordAreas(s) ==
    {"command", "response"} \cup (IF s.result_on THEN {"result"} ELSE {})
                            \cup (IF s.notify_on THEN {"notify"} ELSE {})
WordArea(s, name) ==
    CASE name = "command" -> Area(s.command, s.command_words)
      [] name = "response" -> Area(s.response, s.response_words)
      [] name = "result" -> Area(s.result, s.result_words)
      [] name = "notify" -> Area(s.notify, NotifyWords)

\* A status signal: which device bit shows what; at is the port or, in the
\* status area of the connection, the bit.
Signal(id, role, source, at) == [id |-> id, role |-> role, source |-> source, at |-> at]

DefaultSignals(s) ==
    IF s.transport = "plclink" THEN <<Signal("busy", "busy", "plo", s.busy_port)>>
    ELSE <<Signal("auto", "auto", "status", 0),
           Signal("busy", "busy", "status", 1),
           Signal("result_valid", "result_valid", "status", 2),
           Signal("error", "error", "status", 3)>>

\* migrate_busy_settings: signals left out are those of the device as shipped.
Migrated(s) ==
    IF s.signals = <<>> THEN [s EXCEPT !.signals = DefaultSignals(s)] ELSE s

Signals(s) == {s.signals[k] : k \in DOMAIN s.signals}
BusySignals(s) == {g \in Signals(s) : g.role = "busy"}
BusySignal(s) == CHOOSE g \in BusySignals(s) : TRUE

SignalsNamed(s) ==
    /\ Cardinality({g.id : g \in Signals(s)}) = Len(s.signals)
    /\ Cardinality(BusySignals(s)) = 1

\* _validate_plclink_status_signals, which also takes the BUSY port from them.
PlcSignalsValid(s) ==
    SignalsNamed(s) /\ \A g \in Signals(s) : g.source = "plo" /\ g.at <= s.plo_count
WithBusyPort(s) ==
    IF s.transport = "plclink" /\ BusySignals(s) # {}
    THEN [s EXCEPT !.busy_port = BusySignal(s).at] ELSE s

\* _validate_fn_status_signals
FnSignalsValid(s) ==
    /\ SignalsNamed(s)
    /\ \A g \in Signals(s) : /\ g.source # "plo"
                             /\ g.source = "status" => g.at <= MaxStatusBit
                             /\ g.source = "eso" => g.at <= s.eso_ports
                             /\ SignalBit(s, g) \in 0 .. (s.input_bytes * 8 - 1)

PlcValid(s) ==
    /\ PlcSignalsValid(s)
    /\ BusyAddress(s) <= LastAddress
    /\ Plo(s).end - 1 <= LastAddress /\ Pli(s).end - 1 <= LastAddress
    /\ ~Overlap(Pli(s), Plo(s))
    /\ \A n \in WordAreas(s) \cap {"result", "notify"} :
          WordArea(s, n).end <= LastAddress + 1
    /\ \A m, n \in WordAreas(s) : m # n => ~Overlap(WordArea(s, m), WordArea(s, n))

\* The fields' own limits, then the layout, then its sizes.
FnValid(s) ==
    /\ s.command_words <= MaxCommand /\ s.response_words <= MaxCommand
    /\ {s.input_bytes, s.output_bytes} \subseteq MinAssembly .. MaxAssembly
    /\ Buildable(s)
    /\ FitsSizes(s, s.input_bytes, s.output_bytes)
    /\ FnSignalsValid(s)

Valid(s) == IF s.transport = "plclink" THEN PlcValid(s) ELSE FnValid(s)

\* The settings the program works with when s is what was entered.
Taken(s) == WithBusyPort(Migrated(s))
Takeable == {Taken(s) : s \in Candidate}
Savable == {s \in Takeable : Valid(s)}

\* What importing an EDS file proposes for the Field Network settings s.
Imported(s, in, out) ==
    LET g == Suggested(in, out)
        l == IF Suggestible(in, out)
             THEN [f \in DOMAIN s |-> IF f \in DOMAIN g THEN g[f] ELSE s[f]]
             ELSE Rough(s, in, out)
    IN  [l EXCEPT !.input_bytes = in, !.output_bytes = out]

-----------------------------------------------------------------------------
(***************************************************************************)
(* The commands.                                                           *)
(***************************************************************************)

\* At least one port, whatever the settings say.
MaxPort(s) ==
    LET n == IF s.transport = "plclink" THEN s.pli_count ELSE s.esi_ports
    IN  IF n > 1 THEN n ELSE 1

\* Slip: the port number is taken for the offset.
PortBitOffByOne(s, port) ==
    IF s.transport = "plclink" THEN s.pli + port ELSE EsiBit(s, port) + 1

PortBit(s, port) ==
    IF s.transport = "plclink" THEN s.pli + port - 1 ELSE EsiBit(s, port)

CommandBits(s) == (Layout(s).command_word * 16) .. (Layout(s).output_words * 16 - 1)
TriggerBit(s) == Layout(s).command_word * 16

\* Slip: the ports within the range are switched before the others are refused.
SwitchedPartly(on, ports) ==
    LET mine == {PortBit(settings, p) : p \in ports \cap 1 .. MaxPort(settings)}
    IN  IF on THEN bits \cup mine ELSE bits \ mine

\* The bits after the command; one port out of range refuses them all.
Switched(on, ports) ==
    LET mine == {PortBit(settings, p) : p \in ports}
    IN  IF ~(ports \subseteq 1 .. MaxPort(settings)) THEN bits
        ELSE IF on THEN bits \cup mine ELSE bits \ mine

ApplyLocalIo(on, ports) ==
    /\ bits' = Switched(on, ports)
    /\ last' = [ports |-> ports, on |-> on,
                reply |-> IF ports \subseteq 1 .. MaxPort(settings)
                          THEN "AK" ELSE "error"]
    /\ UNCHANGED <<settings, sending>>

NoCommand == [ports |-> {}, on |-> FALSE, reply |-> "none"]

\* The exchange of a command goes on beside: on the PLC the device switches
\* BUSY, on the connection the client writes the command area.
BusyChanges ==
    /\ settings.transport = "plclink"
    /\ bits' \in {bits \cup {BusyAddress(settings)}, bits \ {BusyAddress(settings)}}
    /\ last' = NoCommand
    /\ UNCHANGED <<settings, sending>>

SendCommand ==
    /\ settings.transport = "field_network"
    /\ ~sending
    /\ sending' = TRUE
    /\ bits' = (bits \ CommandBits(settings)) \cup {TriggerBit(settings)}
    /\ last' = NoCommand
    /\ UNCHANGED settings

DropTrigger ==
    /\ sending
    /\ sending' = FALSE
    /\ bits' = bits \ {TriggerBit(settings)}
    /\ last' = NoCommand
    /\ UNCHANGED settings

\* New PLC settings with the same port: the memory stays as it is.
SaveSettings(s) ==
    /\ s.transport = "plclink" /\ settings.transport = "plclink"
    /\ settings' = s
    /\ last' = NoCommand
    /\ UNCHANGED <<bits, sending>>

Init ==
    /\ settings \in Savable
    /\ bits = {} /\ sending = FALSE /\ last = NoCommand

PortLists == (SUBSET {1, 2, MaxPort(settings), MaxPort(settings) + 1}) \ {{}}

Next ==
    \/ \E on \in BOOLEAN, ports \in PortLists : ApplyLocalIo(on, ports)
    \/ BusyChanges
    \/ SendCommand
    \/ DropTrigger
    \/ \E s \in Savable : SaveSettings(s)

Spec == Init /\ [][Next]_vars

-----------------------------------------------------------------------------
(***************************************************************************)
(* Properties.                                                             *)
(***************************************************************************)

\* Every variable keeps its type.
TypeOK ==
    /\ settings \in Takeable
    /\ bits \subseteq 0 .. (IF settings.transport = "plclink" THEN LastAddress
                           ELSE Layout(settings).output_words * 16 - 1)
    /\ sending \in BOOLEAN
    /\ last.reply \in {"none", "AK", "error"}

\* A PLI command, whatever ports it names and whatever was saved before,
\* leaves every virtual output of the device alone, BUSY among them.
PliKeepsOutputs ==
    [][last' # NoCommand /\ settings.transport = "plclink" =>
          \A m \in Plo(settings).start .. (Plo(settings).end - 1) :
              m \in bits <=> m \in bits']_vars

\* Settings that were accepted never let two of the areas the device and the
\* client write share a word, the optional ones included.
AreasApart ==
    settings.transport = "plclink" =>
        \A m, n \in {"command", "response"}
                    \cup {x \in {"result"} : settings.result_on}
                    \cup {x \in {"notify"} : settings.notify_on} :
            m # n => \A w \in WordArea(settings, m).start
                              .. (WordArea(settings, m).end - 1) :
                        ~(/\ WordArea(settings, n).start <= w
                          /\ w < WordArea(settings, n).end)

\* With at least one ESI port, the trigger the device sees is one a
\* send_command raised, and no ESI command takes it away: ports that share
\* the assembly with the command area never start a command.  (Without ESI
\* ports MaxPort still lets port 1 through, and that is the trigger itself.)
TriggerIsSent ==
    settings.transport = "field_network" /\ settings.esi_ports > 0 =>
        (TriggerBit(settings) \in bits <=> sending)

\* A command that is refused, for one port of many, has switched nothing.
RefusedChangesNothing ==
    [][last' # NoCommand /\ last'.reply = "error" => bits' = bits]_vars

\* What importing an EDS file proposes can be saved as it stands with the
\* signals of the device as shipped (others may lie outside the new assembly,
\* and the import does not touch them), unless its input assembly is larger
\* than the settings take, which neither parse_eds_text nor
\* suggest_layout_from_sizes looks at, or its output assembly larger than the
\* largest command area and 128 ESI ports fill; and what it falls back on when
\* the sizes allow no proposal never can.
SuggestionFits ==
    settings.transport = "field_network" =>
        \A z \in Sizes :
            Valid(Migrated([Imported(settings, z[1], z[2])
                                EXCEPT !.signals = <<>>]))
              <=> /\ Suggestible(z[1], z[2])
                  /\ z[1] <= MaxAssembly
                  /\ z[2] <= 2 * (ReservedWords + 8 + MaxCommand)
=============================================================================
