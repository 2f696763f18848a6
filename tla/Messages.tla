------------------------------- MODULE Messages -------------------------------
(* What one child does with one datagram: the filters of listener(), the       *)
(* parser mydhcp_parse_ipv4_pkt, the dispatch on the message type, the list of *)
(* options of the answer and its encoder dhcpv4_generate_rawoptions.  The      *)
(* database stands behind the constants OptionLists and Offered; LeaseServer   *)
(* says what it answers.  Octets are real octets, sizes are constants.  One    *)
(* action is one turn of the loop of the parser or of the encoder.             *)
EXTENDS Integers, Sequences

CONSTANTS
    MaxLine,      \* MAXLINE: size of the datagram buffer and of the option block
    Header,       \* the octets of a BOOTP packet before the magic cookie (236)
    MinSize,      \* MINIMAL_UDP_PKT_SIZE
    Datagrams,    \* the datagrams that may arrive
    OptionLists,  \* the lists of options dhcpv4_db_options may read for an answer
    Offered,      \* the addresses discover_ip may offer
    ServerId,     \* the option DHCP_SERVER_IDENTIFIER of this server
    Garbage       \* what four octets of memory nobody wrote may hold

VARIABLES
    phase,        \* the part of the code the child is in
    dgram,        \* the datagram
    input,        \* parser: the octets to read,
    at, n,        \*   how many are consumed, how many are left,
    opts,         \*   and the options found
    yiaddr,       \* the address in the answer
    list, rest,   \* encoder: the options of the answer, those not yet written,
    pos, data     \*   the index of the last octet written, the option block

parser == <<input, at, n, opts>>
encoder == <<list, rest, pos, data>>
vars == <<phase, dgram, yiaddr, parser, encoder>>

-------------------------------------------------------------------------------
(* Types and constants                                                         *)

Octet == 0..255
Address == [1..4 -> Octet]
NoAddress == [k \in 1..4 |-> 0]

BOOTREQUEST == 1

PAD == 0
END == 255
REQUESTED_ADDRESS == 50
MESSAGE_TYPE == 53

DISCOVER == 1
OFFER == 2
REQUEST == 3
DECLINE == 4
ACK == 5
NAK == 6

\* The code of an option from the database is any integer, its data may be of any length.
Option == [code: Int, data: Seq(Octet)]

\* Code and length survive being cut to an octet, and the code is no PAD or END.
Encodable(o) == o.code \in 1..254 /\ Len(o.data) \in Octet

\* size counts all octets of the datagram, body are those behind the magic cookie.
Datagram == [op: Octet, size: Nat, magic: BOOLEAN, body: Seq(Octet), ciaddr: Address]

ASSUME SizesAssumption ==
    /\ MaxLine \in Nat /\ Header \in Nat /\ MinSize \in Nat
    /\ Header + 10 <= MaxLine
ASSUME InputsAssumption ==
    /\ Datagrams \subseteq Datagram
    /\ \A d \in Datagrams :
            /\ d.size <= MaxLine
            /\ IF d.size < Header + 4 THEN d.body = <<>> ELSE d.size = Header + 4 + Len(d.body)
    /\ OptionLists \subseteq Seq(Option)
    /\ ServerId \in Option /\ Encodable(ServerId)
    /\ Offered \subseteq Address /\ Garbage \subseteq Address

Phases == {"receive", "parse", "dispatch", "encode", "packet", "exit", "check", "done"}

EmptyBlock == [k \in 0..(MaxLine - 1) |-> PAD]

-------------------------------------------------------------------------------
(* The datagram comes in and is parsed                                         *)

\* The parser writes an address as text into 15 octets and reads it back: of a
\* text of 15 characters the last one is cut off.
ParsedAddress(a) ==
    IF \A k \in 1..4 : a[k] >= 100 THEN [a EXCEPT ![4] = @ \div 10] ELSE a

\* The filters of the listener and of the parser before its loop.
Accepted(d) == d.size >= MinSize /\ d.size >= Header + 4 /\ d.magic

Read(octets) == input' = octets /\ at' = 0 /\ n' = Len(octets) /\ opts' = <<>>

\* Operators named Mutant... are wrong on purpose, as in LeaseTable: the buffer not
\* zeroed, an octet read again, the length counted too long.
MutantBehind(d, g) == g

\* The four octets behind a datagram: zeros, the listener having cleared its buffer, or
\* where the buffer is at its end whatever memory g lies behind it.
Behind(d, g) == [k \in 1..4 |-> IF d.size + k <= MaxLine THEN 0 ELSE g[k]]

\* The octets left still count the magic cookie, so the four octets behind the
\* datagram are copied and read with it.
Receive ==
    /\ phase = "receive"
    /\ IF Accepted(dgram)
       THEN phase' = "parse" /\ \E g \in Garbage : Read(dgram.body \o Behind(dgram, g))
       ELSE phase' = "exit" /\ UNCHANGED parser
    /\ UNCHANGED <<dgram, yiaddr, encoder>>

Reading == phase \in {"parse", "check"}

MutantConsumeAgain(k) == at' = at + k - 1 /\ n' = n - k + 1 /\ UNCHANGED input

Consume(k) == at' = at + k /\ n' = n - k /\ UNCHANGED input

ParsePad ==
    /\ Reading /\ n > 0
    /\ input[at + 1] = PAD
    /\ Consume(1)
    /\ UNCHANGED <<phase, dgram, opts, yiaddr, encoder>>

\* A code, a length, and as many octets as the length says.
OptionAhead ==
    /\ n > 1
    /\ input[at + 1] \notin {PAD, END}
    /\ input[at + 2] <= n - 2

ParseOption ==
    LET len == input[at + 2] IN
    /\ Reading
    /\ OptionAhead
    /\ opts' = Append(opts, [code |-> input[at + 1], data |-> SubSeq(input, at + 3, at + 2 + len)])
    /\ Consume(2 + len)
    /\ UNCHANGED <<phase, dgram, yiaddr, encoder>>

ParseEnd ==
    /\ Reading
    /\ n > 0 => input[at + 1] # PAD
    /\ ~OptionAhead
    /\ phase' = IF phase = "parse" THEN "dispatch" ELSE "done"
    /\ UNCHANGED <<dgram, yiaddr, parser, encoder>>

-------------------------------------------------------------------------------
(* The answer is put together                                                  *)

\* dhcpv4_find_option: the last option with the code.
With(code) == {k \in DOMAIN opts : opts[k].code = code}

Found(code) == opts[CHOOSE k \in With(code) : \A j \in With(code) : j <= k]

Answer(ip, options) ==
    /\ yiaddr' = ip
    /\ list' = options /\ rest' = options /\ pos' = -1 /\ data' = EmptyBlock
    /\ phase' = "encode"

TypeIs(t) == [code |-> MESSAGE_TYPE, data |-> <<t>>]

\* dhcpv4_db_options adds to the list, or gives it up when a query fails.
DbOptions(options) == {options \o more : more \in OptionLists} \cup {<<>>}

\* dhcpv4_process_discover.  discover_ip may fail, or return as after an offer
\* without having written an address; yiaddr is then what the memory held.
ProcessDiscover ==
    \/ phase' = "exit" /\ UNCHANGED <<yiaddr, encoder>>
    \/ \E ip \in Offered \cup Garbage : \E options \in DbOptions(<<TypeIs(OFFER)>>) :
            Answer(ip, Append(options, ServerId))

\* dhcpv4_process_request: the address asked for is the option's or the header's.
Requested(g) ==
    IF With(REQUESTED_ADDRESS) = {} THEN ParsedAddress(dgram.ciaddr)
    ELSE [k \in 1..4 |-> (Found(REQUESTED_ADDRESS).data \o g)[k]]

ProcessRequest(g) ==
    \/ \E options \in DbOptions(<<TypeIs(ACK)>>) :
            Answer(Requested(g), Append(options, ServerId))
    \/ \E t \in {NAK, DECLINE} : Answer(Requested(g), <<TypeIs(t), ServerId>>)

Dispatch ==
    /\ phase = "dispatch"
    /\ IF dgram.op # BOOTREQUEST \/ With(MESSAGE_TYPE) = {}
       THEN phase' = "exit" /\ UNCHANGED <<yiaddr, encoder>>
       ELSE \E g \in Garbage :
                LET type == (Found(MESSAGE_TYPE).data \o g)[1] IN
                \/ type = DISCOVER /\ ProcessDiscover
                \/ type = REQUEST /\ ProcessRequest(g)
                \/ /\ type \notin {DISCOVER, REQUEST}
                   /\ phase' = "exit" /\ UNCHANGED <<yiaddr, encoder>>
    /\ UNCHANGED <<dgram, parser>>

-------------------------------------------------------------------------------
(* The answer is encoded and sent                                              *)

\* Is there room at p for the option, and one octet for END behind it?
Fits(o, p) == p <= MaxLine - 1 /\ p + Len(o.data) + 2 <= MaxLine - 1

MutantWritten(o, p) ==
    [k \in DOMAIN data |->
        IF k = p THEN o.code % 256
        ELSE IF k = p + 1 THEN (Len(o.data) + 2) % 256
        ELSE IF k - p - 1 \in DOMAIN o.data THEN o.data[k - p - 1]
        ELSE data[k]]

\* The block with the option written at p, code and length cut to an octet.
Written(o, p) ==
    [k \in DOMAIN data |->
        IF k = p THEN o.code % 256
        ELSE IF k = p + 1 THEN Len(o.data) % 256
        ELSE IF k - p - 1 \in DOMAIN o.data THEN o.data[k - p - 1]
        ELSE data[k]]

EncodeOption ==
    /\ phase = "encode" /\ rest # <<>>
    /\ Fits(Head(rest), pos + 1)
    /\ data' = Written(Head(rest), pos + 1)
    /\ pos' = pos + Len(Head(rest).data) + 2
    /\ rest' = Tail(rest)
    /\ UNCHANGED <<phase, dgram, yiaddr, parser, list>>

\* The loop ends with the list, or breaks off at an option that does not fit; the
\* index has then moved on already and moves once more before END is written.
EncodeEnd ==
    LET e == IF rest = <<>> THEN pos + 1 ELSE pos + 2 IN
    /\ phase = "encode"
    /\ rest # <<>> => ~Fits(Head(rest), pos + 1)
    /\ pos' = e
    /\ data' = IF e \in DOMAIN data THEN [data EXCEPT ![e] = END] ELSE data
    /\ phase' = "packet"
    /\ UNCHANGED <<dgram, yiaddr, parser, list, rest>>

RawSize == pos + 1

\* dhcpv4_generate_rawpkt and sendwith_flags: a block that is too long is not
\* sent.  At the other end the client reads the octets that were sent.
Packet ==
    /\ phase = "packet"
    /\ IF RawSize > MaxLine - Header
       THEN phase' = "exit" /\ UNCHANGED parser
       ELSE phase' = "check" /\ Read([k \in 1..RawSize |-> data[k - 1]])
    /\ UNCHANGED <<dgram, yiaddr, encoder>>

-------------------------------------------------------------------------------

Init ==
    /\ phase = "receive"
    /\ dgram \in Datagrams
    /\ input = <<>> /\ at = 0 /\ n = 0 /\ opts = <<>>
    /\ yiaddr = NoAddress
    /\ list = <<>> /\ rest = <<>> /\ pos = -1 /\ data = EmptyBlock

Next ==
    \/ Receive \/ ParsePad \/ ParseOption \/ ParseEnd
    \/ Dispatch \/ EncodeOption \/ EncodeEnd \/ Packet

\* A child is a process of its own and never waits.
Spec == Init /\ [][Next]_vars /\ WF_vars(Next)

-------------------------------------------------------------------------------
(* Properties                                                                  *)

\* The variables have the types of the datagram, the option list and the block.
TypeOK ==
    /\ phase \in Phases
    /\ dgram \in Datagrams
    /\ input \in Seq(Octet) /\ at \in Nat /\ n \in Int /\ opts \in Seq(Option)
    /\ yiaddr \in Address
    /\ list \in Seq(Option) /\ rest \in Seq(Option)
    /\ pos \in Int /\ data \in [0..(MaxLine - 1) -> Octet]

\* Whatever lengths a datagram claims: an option begins inside the datagram, or else
\* behind the end of the buffer, and no octet is read past the four behind the datagram.
\* So nothing an earlier datagram left in the buffer is taken for an option.  (The copy
\* that counts the cookie does read the four octets; behind the end of the buffer they
\* are not the datagram's and may become options.)
OptionsFromDatagram ==
    [][phase = "parse" /\ opts' # opts =>
            /\ at < Len(dgram.body) \/ Header + 4 + at >= MaxLine
            /\ at' <= Len(dgram.body) + 4]_vars

\* The octets the options of l and END take.
EncodedSize(l) ==
    LET upTo[k \in 0..Len(l)] == IF k = 0 THEN 1 ELSE upTo[k - 1] + Len(l[k].data) + 2
    IN  upTo[Len(l)]

\* A client that reads an answer finds the options the server put in, in order and
\* unchanged, whole ones from the front when the encoder broke off: provided that all of
\* them have a code and a length of one octet, which neither the table nor the builders of
\* options ensure.  Whatever the options, the encoder breaks off, and an answer stays
\* unsent, only when they do not fit a packet.
AnswerDecodes ==
    /\ phase = "done" =>
        /\ (\A k \in DOMAIN list : Encodable(list[k]))
                => opts = SubSeq(list, 1, Len(list) - Len(rest))
        /\ EncodedSize(list) <= MaxLine - Header => rest = <<>>
    /\ phase = "exit" /\ list # <<>> => EncodedSize(list) > MaxLine - Header

\* Every datagram is dealt with in a finite number of steps, however its octets
\* lead the parser's loop.
Terminates == <>(phase \in {"exit", "done"})
===============================================================================
