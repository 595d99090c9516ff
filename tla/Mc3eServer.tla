----------------------------- MODULE Mc3eServer -----------------------------
(***************************************************************************)
(* The connections of the simulated PLC and what they do to its memory:    *)
(* SoftPlcServer._handle_socket and _consume_frames                        *)
(* (backend/plc_link/server.py), mc3e.handle_request and DeviceMemory      *)
(* (memory.py).                                                            *)
(*                                                                         *)
(* A client sends a stream of bytes: requests, each a header and a body,   *)
(* with stray bytes before them.  The stream arrives in chunks of any      *)
(* size.  A body is abstracted to tokens that name the request and the     *)
(* place in it, so that a body cut short or shifted is none.               *)
(*                                                                         *)
(* The loop over the buffer runs without an await: while it runs, consumer *)
(* names its connection and nothing else happens.  The areas are lists     *)
(* that grow with the addresses used, up to Size.                          *)
(*                                                                         *)
(* A definition introduced by "Slip:" is the one that follows it with one  *)
(* thing done wrong; no action uses it.                                    *)
(***************************************************************************)
EXTENDS Naturals, SequencesExt, FiniteSets

CONSTANTS
    Conn,          \* the connections
    NoConn,        \* none of them
    Script,        \* what each may send: sequences of [stray, request]
    Request,       \* the requests in them
    BodyLength,    \* bound: the length of a body, at least 6 in the protocol
    InitialSize,   \* 65536, the size of each area at the start
    Size,          \* 1048576, MAX_D_SIZE and MAX_M_SIZE
    WordBits       \* 16

VARIABLES
    sent,          \* the script of each connection
    received,      \* how many of its bytes have been put into the buffer
    used,          \* how many of those have been removed from it
    open,          \* the connections in _clients
    consumer,      \* the connection whose buffer is being consumed
    draining,      \* the connections whose answers are being sent, accepted or not
    communicated,  \* the _communicated event
    mem,           \* the D and the M list
    reply,         \* the last response
    handled        \* history: the bodies handled, per connection

connVars == <<sent, received, used, open, consumer, draining, communicated>>
serverVars == <<connVars, mem, reply, handled>>

HeaderLength == 9
Subheader == <<80, 0>>

\* What clients send: requests, and before each, bytes that hold no subheader.
Sendable(s) ==
    /\ s \in Seq([stray : Seq(0 .. 255), request : Request])
    /\ \A k \in DOMAIN s : \A j \in 2 .. Len(s[k].stray) :
          SubSeq(s[k].stray, j - 1, j) # Subheader

Entry == [device : {"D", "M"}, head : Nat, values : Seq(Nat)]
Parameters ==
    /\ NoConn \notin Conn
    /\ {BodyLength, InitialSize, Size, WordBits} \subseteq Nat \ {0}
    /\ InitialSize <= Size
    /\ Request \subseteq [op : {"read", "write"}, unit : {"word", "bit"},
                          random : BOOLEAN, complete : BOOLEAN,
                          entries : Seq(Entry)]
    /\ \A s \in Script : Sendable(s)

ASSUME Mc3eAssumption == Parameters

Body(k) == [j \in 1 .. BodyLength |-> [request |-> k, byte |-> j]]

\* Subheader, route (any bytes), length of the rest in little endian.
Frame(k) ==
    Subheader \o <<0, 255, 255, 3, 0>> \o <<BodyLength % 256, BodyLength \div 256>>
    \o Body(k)
Stream == [s \in Script |->
    FlattenSeq([k \in DOMAIN s |-> s[k].stray \o Frame(k)])]

Buffer(c) == SubSeq(Stream[sent[c]], used[c] + 1, received[c])

StartsFrame(buffer) ==
    Len(buffer) >= HeaderLength /\ SubSeq(buffer, 1, 2) = Subheader

\* Slip: the length is taken to include its own two bytes.
NeededShort(buffer) == HeaderLength - 2 + buffer[8] + 256 * buffer[9]

\* minimum_frame_length, for a buffer that starts with the subheader.
Needed(buffer) == HeaderLength + buffer[8] + 256 * buffer[9]

-----------------------------------------------------------------------------
(***************************************************************************)
(* The memory.                                                             *)
(***************************************************************************)
\* The shape of requests.
Shape == INSTANCE PlcMemory WITH store <- mem

\* Slip: the last address cannot be reached.
InRangeShort(need) == need < Size

InRange(need) == need <= Size

\* _ensure_d_range, _ensure_m_range: long enough for the addresses below need.
Extended(list, need) ==
    IF need <= Len(list) THEN list
    ELSE list \o [k \in 1 .. (need - Len(list)) |-> 0]

\* One access, after which the request goes on unless it failed: read_words,
\* write_words, read_bits, write_bits.
Access(op, state, a) ==
    LET need == a.head + Len(a.values)
        list == Extended(state.mem[a.device], need)
        Mine(k) == a.head < k /\ k <= need
    IN  IF ~state.ok THEN state
        ELSE IF ~InRange(need) THEN [state EXCEPT !.ok = FALSE]
        ELSE IF op = "read"
        THEN [state EXCEPT !.mem[a.device] = list,
                           !.data = @ \o SubSeq(list, a.head + 1, need)]
        ELSE [state EXCEPT !.mem[a.device] =
                 [k \in DOMAIN list |-> IF Mine(k) THEN a.values[k - a.head]
                                                   ELSE list[k]]]

\* Slip: the values of a batch write are not counted before it starts.
RefusedLate(r) == r.unit = "bit" /\ (r.random \/ r.entries[1].device # "M")

RefusedAtOnce(r) == Shape!Refused(r)

\* _execute and _execute_random: the accesses one after the other until one
\* fails; values found missing in a random access end it as well.
Execute(r) ==
    LET start == [mem |-> mem, ok |-> TRUE, data |-> <<>>]
        plan == Shape!Plan[r]
        after[n \in 0 .. Len(plan)] ==
            IF n = 0 THEN start ELSE Access(r.op, after[n - 1], plan[n])
    IN  IF RefusedAtOnce(r) THEN [start EXCEPT !.ok = FALSE]
        ELSE [after[Len(plan)] EXCEPT !.ok = @ /\ r.complete]

-----------------------------------------------------------------------------
(***************************************************************************)
(* The connections.                                                        *)
(***************************************************************************)
ServerInit ==
    /\ sent \in [Conn -> Script]
    /\ received = [c \in Conn |-> 0]
    /\ used = [c \in Conn |-> 0]
    /\ open = {} /\ consumer = NoConn /\ draining = [c \in Conn |-> "no"]
    /\ communicated = FALSE
    /\ mem = [d \in {"D", "M"} |-> [k \in 1 .. InitialSize |-> 0]]
    /\ reply = Shape!NotARequest
    /\ handled = [c \in Conn |-> <<>>]

\* _handle_socket starts.
Accept(c) ==
    /\ consumer = NoConn
    /\ c \notin open /\ received[c] = 0
    /\ open' = open \cup {c}
    /\ UNCHANGED <<sent, received, used, consumer, draining, communicated, mem,
                   reply, handled>>

\* The next chunk is taken from the queue of the receiving thread.
TakeChunk(c) ==
    /\ consumer = NoConn
    /\ c \in open /\ draining[c] = "no"
    /\ \E n \in (received[c] + 1) .. Len(Stream[sent[c]]) :
          received' = [received EXCEPT ![c] = n]
    /\ consumer' = c
    /\ UNCHANGED <<sent, used, open, draining, communicated, mem, reply, handled>>

\* No subheader where one should be: one byte is dropped.
DropByte(c) ==
    /\ consumer = c
    /\ Len(Buffer(c)) >= HeaderLength
    /\ ~StartsFrame(Buffer(c))
    /\ used' = [used EXCEPT ![c] = @ + 1]
    /\ UNCHANGED <<sent, received, open, consumer, draining, communicated, mem,
                   reply, handled>>

Complete(buffer) == Len(buffer) >= Needed(buffer)

\* Slip: one request per chunk.
MoreFrames(c) == NoConn

AfterFrame(c) == c

\* A frame is complete: handle_request, whatever it finds in it, answers.
HandleFrame(c) ==
    /\ consumer = c
    /\ StartsFrame(Buffer(c))
    /\ Complete(Buffer(c))
    /\ LET body == SubSeq(Buffer(c), HeaderLength + 1, Needed(Buffer(c)))
           asked == {k \in DOMAIN sent[c] : body = Body(k)}
           request == sent[c][CHOOSE k \in asked : TRUE].request
           result == Execute(request)
       IN  /\ handled' = [handled EXCEPT ![c] = Append(@, body)]
           /\ IF asked = {}
              THEN reply' = Shape!NotARequest /\ UNCHANGED mem
              ELSE /\ mem' = result.mem
                   /\ reply' = [asked |-> <<request>>, ok |-> result.ok,
                                data |-> IF result.ok THEN result.data ELSE <<>>]
    /\ used' = [used EXCEPT ![c] = @ + Needed(Buffer(c))]
    /\ draining' = [draining EXCEPT ![c] = IF reply'.ok THEN "accepted" ELSE @]
    /\ consumer' = AfterFrame(c)
    /\ UNCHANGED <<sent, received, open, communicated>>

\* The loop ends: what is left waits for the next chunk.
EndOfBuffer(c) ==
    /\ consumer = c
    /\ \/ Len(Buffer(c)) < HeaderLength
       \/ StartsFrame(Buffer(c)) /\ ~Complete(Buffer(c))
    /\ consumer' = NoConn
    /\ UNCHANGED <<sent, received, used, open, draining, communicated, mem, reply,
                   handled>>

\* The answers are out.
Drained(c) ==
    /\ consumer = NoConn
    /\ draining[c] = "accepted"
    /\ draining' = [draining EXCEPT ![c] = "no"]
    /\ communicated' = TRUE
    /\ UNCHANGED <<sent, received, used, open, consumer, mem, reply, handled>>

CommunicatedAfter(left) == communicated /\ left # {}

\* The client is gone, whatever is left in the buffer and whatever it has
\* not been sent: the task ends.
HangUp(c) ==
    /\ consumer = NoConn
    /\ c \in open
    /\ open' = open \ {c}
    /\ received' = [received EXCEPT ![c] = Len(Stream[sent[c]])]
    /\ used' = [used EXCEPT ![c] = Len(Stream[sent[c]])]
    /\ draining' = [draining EXCEPT ![c] = "no"]
    /\ communicated' = CommunicatedAfter(open \ {c})
    /\ UNCHANGED <<sent, consumer, mem, reply, handled>>

Loop(c) ==
    \/ TakeChunk(c)
    \/ DropByte(c)
    \/ HandleFrame(c)
    \/ EndOfBuffer(c)
    \/ Drained(c)

ServerNext == \E c \in Conn : Accept(c) \/ Loop(c) \/ HangUp(c)

ServerSpec ==
    ServerInit /\ [][ServerNext]_serverVars /\ \A c \in Conn : WF_serverVars(Loop(c))

-----------------------------------------------------------------------------
(***************************************************************************)
(* Properties.                                                             *)
(***************************************************************************)

\* Every variable keeps its type.
ServerTypeOK ==
    /\ sent \in [Conn -> Script]
    /\ \A c \in Conn : /\ 0 <= used[c] /\ used[c] <= received[c]
                       /\ received[c] <= Len(Stream[sent[c]])
    /\ open \subseteq Conn
    /\ consumer \in open \cup {NoConn}
    /\ draining \in [Conn -> {"no", "accepted"}]
    /\ communicated \in BOOLEAN
    /\ \A d \in {"D", "M"} : Len(mem[d]) \in InitialSize .. Size

\* However the stream is cut into chunks and whatever precedes a request, the
\* requests handled are those that were sent, whole and in their order.
HandledAsSent ==
    \A c \in Conn :
        IsPrefix(handled[c], [k \in DOMAIN sent[c] |-> Body(k)])

\* A request that has arrived whole on a connection that stays is handled,
\* also when the chunk it came in held others.
ArrivedIsHandled ==
    \A c \in Conn : c \in open ~> \/ c \notin open
                                  \/ Len(handled[c]) = Len(sent[c])

\* The growing lists implement the fixed memory of PlcMemory: nobody can tell
\* how long they are, also not by what fails.
Store == [x \in {"D", "M"} \X (0 .. Size - 1) |->
             IF x[2] < Len(mem[x[1]]) THEN mem[x[1]][x[2] + 1] ELSE 0]
Memory == INSTANCE PlcMemory WITH store <- Store
ImplementsMemory == Memory!Spec
=============================================================================
