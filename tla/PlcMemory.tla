------------------------------ MODULE PlcMemory ------------------------------
(***************************************************************************)
(* What the device areas of the simulated PLC promise a client that speaks *)
(* MC 3E (backend/plc_link/mc3e.py): a memory that is there from the       *)
(* start, all zero, served one request at a time.                          *)
(*                                                                         *)
(* A request is a batch, with one entry, or a random access, with several; *)
(* an entry covers the words from head on, or, with unit "bit", the bits.  *)
(* A word of the bit device M is WordBits bits.  complete is FALSE for a   *)
(* request that carries fewer values than it announces.                    *)
(***************************************************************************)
EXTENDS Naturals, SequencesExt

CONSTANTS
    Request,     \* the requests clients may make
    Size,        \* MAX_D_SIZE = MAX_M_SIZE
    WordBits     \* 16

VARIABLES
    store,       \* the cells
    reply        \* the last response and what it answers

Device == {"D", "M"}
Cell == Device \X (0 .. Size - 1)

Bits(word) == [j \in 1 .. WordBits |-> (word \div 2 ^ (j - 1)) % 2]

\* An entry as accesses to one run of cells each: a word of M is accessed on
\* its own.
Accesses(e, unit) ==
    IF unit = "bit" \/ e.device = "D"
    THEN <<e>>
    ELSE [k \in DOMAIN e.values |->
             [device |-> "M", head |-> e.head + (k - 1) * WordBits,
              values |-> Bits(e.values[k])]]

\* All of them, in the order of the request.
Plan == [r \in Request |->
    FlattenSeq([k \in DOMAIN r.entries |-> Accesses(r.entries[k], r.unit)])]

\* Bits are a batch access to M; a batch write comes with all its values.
Refused(r) ==
    \/ r.unit = "bit" /\ (r.random \/ r.entries[1].device # "M")
    \/ ~r.random /\ r.op = "write" /\ ~r.complete

\* The cells of the first n accesses of a plan, and the values they come with.
Run(a) == [k \in DOMAIN a.values |-> <<a.device, a.head + k - 1>>]
Cells(p, n) == FlattenSeq([k \in 1 .. n |-> Run(p[k])])
Values(p, n) == FlattenSeq([k \in 1 .. n |-> p[k].values])

\* The memory after those have been written; a later one wins.
Written(cells, values) ==
    [x \in Cell |->
        LET at == {k \in DOMAIN cells : cells[k] = x}
        IN  IF at = {} THEN store[x]
            ELSE values[CHOOSE k \in at : \A j \in at : j <= k]]

\* An access ends where the area does at the latest, also one to no cell.
Exists(a) == a.head + Len(a.values) <= Size

\* A request is served whole if all its cells exist, and answered with an
\* error otherwise; then a batch write of words to D, or of bits, changed
\* nothing, any other write changed an initial part of its accesses at most.
Serve(r) ==
    LET p == Plan[r]
        all == Cells(p, Len(p))
        ok == ~Refused(r) /\ r.complete /\ \A k \in DOMAIN p : Exists(p[k])
    IN  /\ reply' = [asked |-> <<r>>, ok |-> ok,
                     data |-> IF ok /\ r.op = "read"
                              THEN [k \in DOMAIN all |-> store[all[k]]]
                              ELSE <<>>]
        /\ IF r.op = "read" THEN UNCHANGED store
           ELSE \E n \in 0 .. Len(p) :
                   /\ ok => n = Len(p)
                   /\ Refused(r) => n = 0
                   /\ \A k \in 1 .. n : Exists(p[k])
                   /\ store' = Written(Cells(p, n), Values(p, n))

\* What is no request is answered with an error.
NotARequest == [asked |-> <<>>, ok |-> FALSE, data |-> <<>>]
Reject == reply' = NotARequest /\ UNCHANGED store

Init ==
    /\ store = [x \in Cell |-> 0]
    /\ reply = NotARequest

Next ==
    \/ Reject
    \/ \E r \in Request : reply'.asked = <<r>> /\ Serve(r)

Spec == Init /\ [][Next]_<<store, reply>>
=============================================================================
