---------------------------- MODULE MessagesProofs ----------------------------
(* Proofs about Messages: its types, that options come from the datagram, and  *)
(* that an answer decodes to what was put in, for every size of the buffer,    *)
(* every datagram and every list of options.                                   *)
EXTENDS Messages, SequenceTheorems, NumberLemmas

\* What the parser consumed and has left always adds up, and is never negative;
\* the encoder never goes back.
IndInv ==
    /\ TypeOK
    /\ n >= 0 /\ at + n = Len(input)
    /\ pos >= -1

-------------------------------------------------------------------------------

LEMMA ReadSets ==
    ASSUME NEW s \in Seq(Octet), Read(s)
    PROVE  /\ input' \in Seq(Octet) /\ at' \in Nat /\ n' \in Int /\ opts' \in Seq(Option)
           /\ n' >= 0 /\ at' + n' = Len(input')
  BY DEF Read

LEMMA BehindType ==
    ASSUME NEW d, NEW g \in Garbage
    PROVE  Behind(d, g) \in Seq(Octet) /\ Len(Behind(d, g)) = 4
<1>1. g \in [1..4 -> Octet] /\ 0 \in Octet
  BY InputsAssumption DEF Address, Octet
<1> DEFINE f(k) == IF d.size + k <= MaxLine THEN 0 ELSE g[k]
<1>2. \A k \in 1..4 : f(k) \in Octet
  BY <1>1
<1>3. Behind(d, g) = [k \in 1..4 |-> f(k)]
  BY DEF Behind
<1> HIDE DEF f
<1>4. [k \in 1..4 |-> f(k)] \in Seq(Octet) /\ Len([k \in 1..4 |-> f(k)]) = 4
  BY <1>2
<1>5. QED
  BY <1>3, <1>4

LEMMA ReceiveKeeps ==
    ASSUME IndInv, Receive
    PROVE  IndInv'
<1>1. dgram \in Datagram
  BY InputsAssumption DEF IndInv, TypeOK
<1>2. ASSUME NEW g \in Garbage
      PROVE  dgram.body \o Behind(dgram, g) \in Seq(Octet)
  <2>1. dgram.body \in Seq(Octet)
    BY <1>1 DEF Datagram
  <2>2. QED
    BY <2>1, BehindType, ConcatProperties
<1>3. CASE Accepted(dgram)
  <2>1. phase' = "parse" /\ \E g \in Garbage : Read(dgram.body \o Behind(dgram, g))
    BY <1>3 DEF Receive
  <2>2. PICK g \in Garbage : Read(dgram.body \o Behind(dgram, g))
    BY <2>1
  <2> DEFINE s == dgram.body \o Behind(dgram, g)
  <2>3. s \in Seq(Octet) /\ Read(s)
    BY <1>2, <2>2
  <2> HIDE DEF s
  <2>4. QED
    BY <2>1, <2>3, ReadSets DEF IndInv, TypeOK, Receive, encoder, Phases
<1>4. CASE ~Accepted(dgram)
  BY <1>4 DEF IndInv, TypeOK, Receive, parser, encoder, Phases
<1>5. QED
  BY <1>3, <1>4

LEMMA ParsePadKeeps ==
    ASSUME IndInv, ParsePad
    PROVE  IndInv'
<1>1. at \in Nat /\ n \in Int /\ n > 0 /\ at + n = Len(input) /\ Len(input) \in Nat
  BY DEF IndInv, TypeOK, ParsePad
<1>2. at' = at + 1 /\ n' = n - 1 /\ input' = input
  BY DEF ParsePad, Consume
<1>3. at' \in Nat /\ n' \in Int /\ n' >= 0 /\ at' + n' = Len(input')
  BY <1>1, <1>2
<1>4. QED
  BY <1>2, <1>3 DEF IndInv, TypeOK, ParsePad, encoder

LEMMA ParseOptionKeeps ==
    ASSUME IndInv, ParseOption
    PROVE  IndInv'
<1> DEFINE len == input[at + 2]
           o == [code |-> input[at + 1], data |-> SubSeq(input, at + 3, at + 2 + len)]
<1>1. at \in Nat /\ n \in Int /\ n > 1 /\ at + n = Len(input) /\ input \in Seq(Octet)
  BY DEF IndInv, TypeOK, ParseOption, OptionAhead
<1>2. at + 1 \in 1..Len(input) /\ at + 2 \in 1..Len(input)
  BY <1>1
<1>3. input[at + 1] \in Octet /\ len \in Octet /\ len \in Nat
  <2>1. \A i \in 1..Len(input) : input[i] \in Octet
    BY <1>1
  <2>2. input[at + 1] \in Octet /\ input[at + 2] \in Octet
    BY <1>2, <2>1
  <2>3. \A x \in Octet : x \in Nat
    BY DEF Octet
  <2>4. QED
    BY <2>2, <2>3
<1>4. len <= n - 2
  BY DEF ParseOption, OptionAhead
<1>5. SubSeq(input, at + 3, at + 2 + len) \in Seq(Octet)
  <2>1. at + 3 \in 1..(Len(input) + 1) /\ at + 2 + len \in (at + 3 - 1)..Len(input)
    BY <1>1, <1>3, <1>4
  <2>2. QED
    BY <1>1, <2>1, SubSeqProperties
<1>6. o \in Option
  BY <1>3, <1>5 DEF Option, Octet
<1>7. opts' \in Seq(Option)
  BY <1>6 DEF ParseOption, IndInv, TypeOK
<1>8. at' = at + (2 + len) /\ n' = n - (2 + len) /\ input' = input
  BY DEF ParseOption, Consume
<1>9. at' \in Nat /\ n' \in Int /\ n' >= 0 /\ at' + n' = Len(input')
  BY <1>1, <1>3, <1>4, <1>8
<1>10. QED
  BY <1>7, <1>8, <1>9 DEF IndInv, TypeOK, ParseOption, encoder

LEMMA ParseEndKeeps ==
    ASSUME IndInv, ParseEnd
    PROVE  IndInv'
  BY DEF IndInv, TypeOK, ParseEnd, parser, encoder, Phases

-------------------------------------------------------------------------------

LEMMA TypeIsOption ==
    ASSUME NEW t \in Octet
    PROVE  TypeIs(t) \in Option
<1>1. MESSAGE_TYPE \in Int
  BY DEF MESSAGE_TYPE
<1>2. <<t>> \in Seq(Octet)
  OBVIOUS
<1>3. QED
  BY <1>1, <1>2 DEF TypeIs, Option

\* The lists of options answers are made of.
LEMMA ListsOfOptions ==
    /\ ServerId \in Option
    /\ \A t \in Octet : \A options \in DbOptions(<<TypeIs(t)>>) :
            Append(options, ServerId) \in Seq(Option)
    /\ \A t \in Octet : <<TypeIs(t), ServerId>> \in Seq(Option)
<1>1. ServerId \in Option
  BY InputsAssumption
<1>2. ASSUME NEW t \in Octet, NEW options \in DbOptions(<<TypeIs(t)>>)
      PROVE  Append(options, ServerId) \in Seq(Option)
  <2>1. <<TypeIs(t)>> \in Seq(Option)
    BY TypeIsOption
  <2>2. OptionLists \subseteq Seq(Option)
    BY InputsAssumption
  <2>3. \A more \in OptionLists : <<TypeIs(t)>> \o more \in Seq(Option)
    BY <2>1, <2>2, ConcatProperties
  <2>4. options \in Seq(Option)
    <3>1. CASE options = <<>>
      BY <3>1
    <3>2. CASE options # <<>>
      BY <2>3, <3>2 DEF DbOptions
    <3>3. QED
      BY <3>1, <3>2
  <2>5. QED
    BY <1>1, <2>4
<1>3. ASSUME NEW t \in Octet
      PROVE  <<TypeIs(t), ServerId>> \in Seq(Option)
  BY <1>1, TypeIsOption
<1>4. QED
  BY <1>1, <1>2, <1>3

LEMMA ParsedAddressType ==
    ASSUME NEW a \in Address
    PROVE  ParsedAddress(a) \in Address
<1>1. a[4] \in 0..255
  BY DEF Address, Octet
<1>2. a[4] \div 10 \in Octet
  BY <1>1 DEF Octet
<1>3. [a EXCEPT ![4] = @ \div 10] \in Address
  BY <1>2 DEF Address
<1>4. QED
  BY <1>3 DEF ParsedAddress

LEMMA FoundIsOption ==
    ASSUME TypeOK, NEW code, With(code) # {}
    PROVE  Found(code) \in Option
<1>1. opts \in Seq(Option) /\ Len(opts) \in Nat
  BY DEF TypeOK
<1>2. With(code) \subseteq 0..Len(opts) /\ With(code) \subseteq DOMAIN opts
  BY <1>1 DEF With
<1>3. \E k \in With(code) : \A j \in With(code) : j <= k
  BY <1>1, <1>2, GreatestNat
<1> DEFINE k == CHOOSE x \in With(code) : \A j \in With(code) : j <= x
<1>4. k \in DOMAIN opts
  BY <1>2, <1>3
<1>5. QED
  BY <1>1, <1>4 DEF Found

\* The first four octets of an option with those behind it.
LEMMA OctetsOfBoth ==
    ASSUME NEW s \in Seq(Octet), NEW g \in Address
    PROVE  \A k \in 1..4 : (s \o g)[k] \in Octet
<1> DEFINE h == [k \in 1..4 |-> g[k]]
<1>1. g = h /\ \A k \in 1..4 : g[k] \in Octet
  BY DEF Address
<1>2. h \in Seq(Octet) /\ Len(h) = 4
  BY <1>1
<1> HIDE DEF h
<1>3. Len(s) \in Nat
  OBVIOUS
<1>4. ASSUME NEW k \in 1..4
      PROVE  (s \o h)[k] \in Octet
  <2>1. k \in 1..(Len(s) + 4)
    BY <1>3
  <2>2. s \o h \in Seq(Octet) /\ Len(s \o h) = Len(s) + 4
    <3>1. s \o h \in Seq(Octet)
      BY <1>2
    <3>2. Len(s \o h) = Len(s) + Len(h)
      BY <1>2, s \in Seq(Octet), ConcatProperties, Zenon
    <3>3. QED
      BY <1>2, <3>1, <3>2
  <2>3. \A i \in 1..Len(s \o h) : (s \o h)[i] \in Octet
    BY <2>2
  <2>4. QED
    BY <2>1, <2>2, <2>3
<1>5. QED
  BY <1>1, <1>4

LEMMA RequestedType ==
    ASSUME TypeOK, NEW g \in Garbage
    PROVE  Requested(g) \in Address
<1>1. CASE With(REQUESTED_ADDRESS) = {}
  <2>1. dgram.ciaddr \in Address
    BY InputsAssumption DEF TypeOK, Datagram
  <2>2. QED
    BY <1>1, <2>1, ParsedAddressType DEF Requested
<1>2. CASE With(REQUESTED_ADDRESS) # {}
  <2> DEFINE d == Found(REQUESTED_ADDRESS).data
  <2>1. d \in Seq(Octet)
    BY <1>2, FoundIsOption DEF Option
  <2>2. g \in Address
    BY InputsAssumption
  <2> HIDE DEF d
  <2>3. \A k \in 1..4 : (d \o g)[k] \in Octet
    BY <2>1, <2>2, OctetsOfBoth
  <2>4. QED
    BY <1>2, <2>3 DEF Requested, Address, d
<1>3. QED
  BY <1>1, <1>2

LEMMA AnswerKeeps ==
    ASSUME IndInv, NEW ip \in Address, NEW options \in Seq(Option), Answer(ip, options),
           UNCHANGED <<dgram, parser>>
    PROVE  IndInv'
<1>1. EmptyBlock \in [0..(MaxLine - 1) -> Octet]
  BY DEF EmptyBlock, PAD, Octet
<1>2. QED
  BY <1>1 DEF IndInv, TypeOK, Answer, parser, Phases

LEMMA DispatchKeeps ==
    ASSUME IndInv, Dispatch
    PROVE  IndInv'
<1>1. UNCHANGED <<dgram, parser>>
  BY DEF Dispatch
<1>2. {OFFER, ACK, NAK, DECLINE} \subseteq Octet
  BY DEF OFFER, ACK, NAK, DECLINE, Octet
<1>3. CASE phase' = "exit" /\ UNCHANGED <<yiaddr, encoder>>
  BY <1>1, <1>3 DEF IndInv, TypeOK, parser, encoder, Phases
<1>4. CASE ProcessDiscover
  <2>1. SUFFICES ASSUME NEW ip \in Offered \cup Garbage,
                        NEW options \in DbOptions(<<TypeIs(OFFER)>>),
                        Answer(ip, Append(options, ServerId))
                 PROVE  IndInv'
    BY <1>3, <1>4 DEF ProcessDiscover
  <2>2. ip \in Address
    BY InputsAssumption
  <2>3. Append(options, ServerId) \in Seq(Option)
    BY <1>2, ListsOfOptions
  <2>4. QED
    BY <1>1, <2>1, <2>2, <2>3, AnswerKeeps
<1>5. ASSUME NEW g \in Garbage, ProcessRequest(g)
      PROVE  IndInv'
  <2>1. Requested(g) \in Address
    BY RequestedType DEF IndInv
  <2>2. ASSUME NEW options \in DbOptions(<<TypeIs(ACK)>>),
               Answer(Requested(g), Append(options, ServerId))
        PROVE  IndInv'
    <3>1. Append(options, ServerId) \in Seq(Option)
      BY <1>2, ListsOfOptions
    <3>2. QED
      BY <1>1, <2>1, <2>2, <3>1, AnswerKeeps
  <2>3. ASSUME NEW t \in {NAK, DECLINE}, Answer(Requested(g), <<TypeIs(t), ServerId>>)
        PROVE  IndInv'
    <3>1. <<TypeIs(t), ServerId>> \in Seq(Option)
      BY <1>2, ListsOfOptions
    <3>2. QED
      BY <1>1, <2>1, <2>3, <3>1, AnswerKeeps
  <2>4. QED
    BY <1>5, <2>2, <2>3 DEF ProcessRequest
<1>6. QED
  BY <1>3, <1>4, <1>5 DEF Dispatch

-------------------------------------------------------------------------------

LEMMA EncodeOptionKeeps ==
    ASSUME IndInv, EncodeOption
    PROVE  IndInv'
<1> DEFINE o == Head(rest)
<1>1. o \in Option /\ Tail(rest) \in Seq(Option)
  BY HeadTailProperties DEF IndInv, TypeOK, EncodeOption
<1>2. o.code \in Int /\ o.data \in Seq(Octet) /\ Len(o.data) \in Nat
  BY <1>1 DEF Option
<1>3. o.code % 256 \in Octet /\ Len(o.data) % 256 \in Octet
  <2>1. \A x \in Int : x % 256 \in Octet
    BY DEF Octet
  <2> DEFINE c == o.code
             len == Len(o.data)
  <2>2. c \in Int /\ len \in Int
    BY <1>2
  <2> HIDE DEF c, len
  <2>3. c % 256 \in Octet /\ len % 256 \in Octet
    BY <2>1, <2>2
  <2>4. QED
    BY <2>3 DEF c, len
<1>4. Written(o, pos + 1) \in [0..(MaxLine - 1) -> Octet]
  <2>1. \A k \in DOMAIN o.data : o.data[k] \in Octet
    BY <1>2
  <2>2. data \in [0..(MaxLine - 1) -> Octet]
    BY DEF IndInv, TypeOK
  <2> HIDE DEF o
  <2>3. QED
    BY <1>2, <1>3, <2>1, <2>2 DEF Written
<1>5. pos' \in Int /\ pos' >= -1
  BY <1>2 DEF IndInv, TypeOK, EncodeOption
<1>6. QED
  BY <1>1, <1>4, <1>5 DEF IndInv, TypeOK, EncodeOption, parser

LEMMA EncodeEndKeeps ==
    ASSUME IndInv, EncodeEnd
    PROVE  IndInv'
<1>1. pos' \in Int /\ pos' >= -1
  BY DEF IndInv, TypeOK, EncodeEnd
<1>2. END \in Octet
  BY DEF END, Octet
<1>3. data' \in [0..(MaxLine - 1) -> Octet]
  BY <1>2 DEF IndInv, TypeOK, EncodeEnd
<1>4. QED
  BY <1>1, <1>3 DEF IndInv, TypeOK, EncodeEnd, parser, Phases

LEMMA PacketKeeps ==
    ASSUME IndInv, Packet
    PROVE  IndInv'
<1>1. pos \in Int /\ pos >= -1 /\ data \in [0..(MaxLine - 1) -> Octet]
  BY DEF IndInv, TypeOK
<1>2. CASE RawSize > MaxLine - Header
  BY <1>2 DEF IndInv, TypeOK, Packet, parser, encoder, Phases
<1>3. CASE ~(RawSize > MaxLine - Header)
  <2> DEFINE s == [k \in 1..RawSize |-> data[k - 1]]
  <2>1. RawSize \in Nat /\ RawSize <= MaxLine
    BY <1>1, <1>3, SizesAssumption DEF RawSize
  <2>2. \A k \in 1..RawSize : data[k - 1] \in Octet
    BY <1>1, <2>1, SizesAssumption
  <2>3. s \in Seq(Octet)
    BY <2>1, <2>2
  <2>4. phase' = "check" /\ Read(s)
    BY <1>3 DEF Packet
  <2> HIDE DEF s
  <2>5. QED
    BY <2>3, <2>4, ReadSets DEF IndInv, TypeOK, Packet, encoder, Phases
<1>4. QED
  BY <1>2, <1>3

-------------------------------------------------------------------------------

LEMMA InitInv == Init => IndInv
<1> SUFFICES ASSUME Init PROVE IndInv
  OBVIOUS
<1>1. EmptyBlock \in [0..(MaxLine - 1) -> Octet] /\ NoAddress \in Address
  BY DEF EmptyBlock, NoAddress, Address, PAD, Octet
<1>2. <<>> \in Seq(Octet) /\ <<>> \in Seq(Option)
  OBVIOUS
<1>3. QED
  BY <1>1, <1>2 DEF Init, IndInv, TypeOK, Phases

LEMMA NextInv == IndInv /\ [Next]_vars => IndInv'
<1> SUFFICES ASSUME IndInv, [Next]_vars PROVE IndInv'
  OBVIOUS
<1>1. CASE UNCHANGED vars
  BY <1>1 DEF IndInv, TypeOK, vars, parser, encoder
<1>2. CASE Next
  BY <1>2, ReceiveKeeps, ParsePadKeeps, ParseOptionKeeps, ParseEndKeeps, DispatchKeeps,
     EncodeOptionKeeps, EncodeEndKeeps, PacketKeeps DEF Next
<1>3. QED
  BY <1>1, <1>2

\* The variables of a child keep their types through parser, dispatch and encoder.
THEOREM MessageTypes == Spec => []TypeOK
<1>1. IndInv => TypeOK
  BY DEF IndInv
<1>2. QED
  BY <1>1, InitInv, NextInv, PTL DEF Spec

-------------------------------------------------------------------------------
(* Where options come from                                                     *)

\* The parser reads the datagram and the four octets behind it.
InputInv ==
    phase = "parse" => \E g \in Garbage : input = dgram.body \o Behind(dgram, g)

LEMMA InputKept ==
    ASSUME InputInv, [Next]_vars
    PROVE  InputInv'
<1>1. CASE UNCHANGED vars
  BY <1>1 DEF InputInv, vars, parser
<1>2. CASE Receive
  <2>1. CASE Accepted(dgram)
    <3>1. PICK g \in Garbage : Read(dgram.body \o Behind(dgram, g))
      BY <1>2, <2>1 DEF Receive
    <3>2. input' = dgram.body \o Behind(dgram, g) /\ dgram' = dgram
      BY <1>2, <3>1 DEF Receive, Read
    <3>3. input' = dgram'.body \o Behind(dgram', g)
      BY <3>2
    <3>4. QED
      BY <3>3 DEF InputInv
  <2>2. CASE ~Accepted(dgram)
    BY <1>2, <2>2 DEF InputInv, Receive
  <2>3. QED
    BY <2>1, <2>2
<1>3. CASE ParsePad \/ ParseOption
  <2>1. phase' = phase /\ input' = input /\ dgram' = dgram
    BY <1>3 DEF ParsePad, ParseOption, Consume
  <2>2. QED
    BY <2>1 DEF InputInv
<1>4. CASE ParseEnd \/ Dispatch \/ EncodeOption \/ EncodeEnd \/ Packet
  <2>1. phase' # "parse"
    BY <1>4 DEF ParseEnd, Dispatch, ProcessDiscover, ProcessRequest, Answer, EncodeOption,
       EncodeEnd, Packet
  <2>2. QED
    BY <2>1 DEF InputInv
<1>5. QED
  BY <1>1, <1>2, <1>3, <1>4 DEF Next

LEMMA OptionInside ==
    ASSUME IndInv, InputInv, phase = "parse", ParseOption
    PROVE  /\ at < Len(dgram.body) \/ Header + 4 + at >= MaxLine
           /\ at' <= Len(dgram.body) + 4
<1> DEFINE b == dgram.body
           m == Len(b)
<1>1. PICK g \in Garbage : input = b \o Behind(dgram, g)
  BY DEF InputInv
<1>2. /\ dgram \in Datagrams /\ dgram \in Datagram /\ dgram.size \in Nat
      /\ b \in Seq(Octet) /\ m \in Nat /\ MaxLine \in Nat /\ Header \in Nat
      /\ Header + 10 <= MaxLine
  BY InputsAssumption, SizesAssumption DEF IndInv, TypeOK, Datagram
<1> DEFINE h == Behind(dgram, g)
<1>3. h \in Seq(Octet) /\ Len(h) = 4
  BY BehindType
<1>4. \A k \in 1..4 : dgram.size + k <= MaxLine => h[k] = PAD
  BY DEF Behind, PAD
<1> HIDE DEF h
<1>5. IF dgram.size < Header + 4 THEN b = <<>> ELSE dgram.size = Header + 4 + m
  BY <1>2, InputsAssumption
<1>6. b = <<>> => m = 0
  OBVIOUS
<1>7. input = b \o h
  BY <1>1 DEF h
<1>8. /\ Len(input) = m + Len(h)
       /\ \A i \in 1..(m + Len(h)) : input[i] = IF i <= m THEN b[i] ELSE h[i - m]
  BY <1>2, <1>3, <1>7, ConcatProperties
<1> HIDE DEF b, m
<1>9. /\ Len(input) = m + 4
      /\ \A i \in 1..(m + 4) : input[i] = IF i <= m THEN b[i] ELSE h[i - m]
  BY <1>3, <1>8
<1>10. at \in Nat /\ n \in Int /\ at + n = m + 4 /\ input \in Seq(Octet)
  BY <1>9 DEF IndInv, TypeOK
<1>11. n > 1 /\ input[at + 1] # PAD /\ input[at + 2] <= n - 2 /\ at' = at + (2 + input[at + 2])
  BY DEF ParseOption, OptionAhead, Consume
<1>12. input[at + 2] \in Nat
  <2>1. at + 2 \in 1..Len(input)
    BY <1>2, <1>9, <1>10, <1>11
  <2>2. input[at + 2] \in Octet
    BY <1>10, <2>1
  <2>3. QED
    BY <2>2 DEF Octet
<1>13. at' <= m + 4
  BY <1>2, <1>10, <1>11, <1>12
<1>14. at < m \/ Header + 4 + at >= MaxLine
  <2>1. SUFFICES ASSUME at >= m
                 PROVE  Header + 4 + at >= MaxLine
    BY <1>2, <1>10
  <2>2. at + 1 \in 1..(m + 4) /\ ~(at + 1 <= m) /\ (at + 1) - m \in 1..4
    BY <1>2, <1>10, <1>11, <2>1
  <2>3. input[at + 1] = h[(at + 1) - m]
    BY <1>9, <2>2
  <2>4. ~(dgram.size + ((at + 1) - m) <= MaxLine)
    BY <1>4, <1>11, <2>2, <2>3
  <2>5. QED
    BY <1>2, <1>5, <1>6, <1>10, <2>2, <2>4
<1>15. QED
  BY <1>13, <1>14 DEF m, b

\* However the lengths in a datagram lie, an option that mydhcp_parse_ipv4_pkt finds
\* begins inside the datagram, unless this fills the buffer, and ends at most four octets
\* behind it: nothing an earlier datagram left in the buffer is taken for an option.
THEOREM OptionsComeFromDatagram == Spec => OptionsFromDatagram
<1> DEFINE Inside == /\ at < Len(dgram.body) \/ Header + 4 + at >= MaxLine
                     /\ at' <= Len(dgram.body) + 4
           Step == phase = "parse" /\ opts' # opts => Inside
<1>1. Init => InputInv
  BY DEF Init, InputInv
<1>2. IndInv /\ InputInv /\ [Next]_vars => [Step]_vars
  <2>1. SUFFICES ASSUME IndInv, InputInv, Next, phase = "parse", opts' # opts
                 PROVE  Inside
    OBVIOUS
  <2>2. ParseOption
    <3>1. ~Receive /\ ~Dispatch /\ ~EncodeOption /\ ~EncodeEnd /\ ~Packet
      BY <2>1 DEF Receive, Dispatch, EncodeOption, EncodeEnd, Packet
    <3>2. ~ParsePad /\ ~ParseEnd
      BY <2>1 DEF ParsePad, ParseEnd, parser
    <3>3. QED
      BY <2>1, <3>1, <3>2 DEF Next
  <2>3. QED
    BY <2>1, <2>2, OptionInside
<1>3. IndInv /\ InputInv /\ [Next]_vars => IndInv' /\ InputInv'
  BY NextInv, InputKept
<1> HIDE DEF Inside
<1> HIDE DEF Step
<1>4. Spec => [][Step]_vars
  BY <1>1, <1>2, <1>3, InitInv, PTL DEF Spec
<1>5. QED
  BY <1>4 DEF OptionsFromDatagram, Step, Inside

-------------------------------------------------------------------------------
(* What an answer decodes to                                                   *)

\* The sizes of the beginnings of a list, with one octet for END.
Sizes(l) ==
    LET upTo[k \in 0..Len(l)] == IF k = 0 THEN 1 ELSE upTo[k - 1] + Len(l[k].data) + 2
    IN  upTo

LEMMA SizeOfAll == \A l : EncodedSize(l) = Sizes(l)[Len(l)]
  BY DEF EncodedSize, Sizes

\* f gives the sizes of the first m beginnings of l.
Measures(f, l, m) ==
    /\ f \in [0..m -> Nat]
    /\ f[0] = 1
    /\ \A k \in 1..m : f[k] = f[k - 1] + Len(l[k].data) + 2

LEMMA OptionLengths ==
    ASSUME NEW l \in Seq(Option)
    PROVE  Len(l) \in Nat /\ \A k \in 1..Len(l) : Len(l[k].data) \in Nat
  BY DEF Option

LEMMA MeasureExists ==
    ASSUME NEW l \in Seq(Option)
    PROVE  \E f : Measures(f, l, Len(l))
<1> DEFINE M(m) == \E f : Measures(f, l, m)
           bad == {m \in 0..Len(l) : ~M(m)}
<1>1. Len(l) \in Nat /\ \A k \in 1..Len(l) : Len(l[k].data) \in Nat
  BY OptionLengths
<1>2. M(0)
  <2>1. Measures([k \in 0..0 |-> 1], l, 0)
    BY DEF Measures
  <2>2. QED
    BY <2>1
<1>3. ASSUME NEW m \in 0..Len(l), m # Len(l), M(m)
      PROVE  M(m + 1)
  <2> PICK f : Measures(f, l, m)
    BY <1>3
  <2> DEFINE g == [k \in 0..(m + 1) |-> IF k = m + 1 THEN f[m] + Len(l[m + 1].data) + 2 ELSE f[k]]
  <2>1. m + 1 \in 1..Len(l) /\ m \in Nat
    BY <1>1, <1>3
  <2>2. Len(l[m + 1].data) \in Nat
    BY <1>1, <2>1
  <2>3. f \in [0..m -> Nat] /\ f[0] = 1 /\ \A k \in 1..m : f[k] = f[k - 1] + Len(l[k].data) + 2
    BY DEF Measures
  <2>4. f[m] + Len(l[m + 1].data) + 2 \in Nat
    BY <2>1, <2>2, <2>3
  <2>5. g \in [0..(m + 1) -> Nat]
    BY <2>1, <2>3, <2>4
  <2>6. g[0] = 1
    BY <2>1, <2>3
  <2>7. ASSUME NEW k \in 1..(m + 1)
        PROVE  g[k] = g[k - 1] + Len(l[k].data) + 2
    <3>1. k - 1 \in 0..m /\ k \in 0..(m + 1) /\ g[k - 1] = f[k - 1]
      BY <2>1
    <3>2. CASE k = m + 1
      BY <2>1, <3>1, <3>2
    <3>3. CASE k # m + 1
      BY <2>1, <2>3, <3>1, <3>3
    <3>4. QED
      BY <3>2, <3>3
  <2>8. Measures(g, l, m + 1)
    BY <2>5, <2>6, <2>7 DEF Measures
  <2>9. QED
    BY <2>8
<1> HIDE DEF M
<1>4. bad = {}
  <2>1. SUFFICES ASSUME bad # {} PROVE FALSE
    OBVIOUS
  <2> bad \subseteq Nat
    BY <1>1
  <2>2. PICK m \in bad : \A k \in bad : m <= k
    BY <2>1, LeastNat
  <2>3. m # 0
    BY <1>2
  <2>4. m - 1 \in 0..Len(l) /\ m - 1 \notin bad /\ m - 1 # Len(l)
    BY <1>1, <2>2, <2>3
  <2>5. M((m - 1) + 1)
    BY <1>3, <2>4
  <2>6. QED
    BY <2>5
<1>5. QED
  BY <1>1, <1>4 DEF M

LEMMA SizesMeasure ==
    ASSUME NEW l \in Seq(Option)
    PROVE  Measures(Sizes(l), l, Len(l))
<1> DEFINE F(f) == [k \in 0..Len(l) |-> IF k = 0 THEN 1 ELSE f[k - 1] + Len(l[k].data) + 2]
<1>1. Sizes(l) = CHOOSE f : f = F(f)
  BY DEF Sizes
<1>2. Len(l) \in Nat /\ \A k \in 1..Len(l) : Len(l[k].data) \in Nat
  BY OptionLengths
<1>3. PICK f : Measures(f, l, Len(l))
  BY MeasureExists
<1>4. f = F(f)
  <2>1. f \in [0..Len(l) -> Nat] /\ f[0] = 1
        /\ \A k \in 1..Len(l) : f[k] = f[k - 1] + Len(l[k].data) + 2
    BY <1>3 DEF Measures
  <2>2. \A k \in 0..Len(l) : f[k] = IF k = 0 THEN 1 ELSE f[k - 1] + Len(l[k].data) + 2
    BY <1>2, <2>1
  <2>3. QED
    BY <2>1, <2>2
<1> HIDE DEF F
<1>5. Sizes(l) = F(Sizes(l))
  BY <1>1, <1>4
<1>6. ASSUME NEW g, g = F(g)
      PROVE  g = f
  <2>1. \A k \in 0..Len(l) : g[k] = IF k = 0 THEN 1 ELSE g[k - 1] + Len(l[k].data) + 2
    BY <1>6 DEF F
  <2>2. \A k \in 0..Len(l) : f[k] = IF k = 0 THEN 1 ELSE f[k - 1] + Len(l[k].data) + 2
    BY <1>4 DEF F
  <2> DEFINE bad == {k \in 0..Len(l) : g[k] # f[k]}
  <2>3. bad = {}
    <3>1. SUFFICES ASSUME bad # {} PROVE FALSE
      OBVIOUS
    <3>2. bad \subseteq Nat
      BY <1>2
    <3>3. PICK k \in bad : \A j \in bad : k <= j
      BY <3>1, <3>2, LeastNat
    <3>4. k # 0
      BY <1>2, <2>1, <2>2
    <3>5. k - 1 \in 0..Len(l) /\ k - 1 \notin bad
      BY <1>2, <3>3, <3>4
    <3>6. g[k - 1] = f[k - 1]
      BY <3>5
    <3>7. QED
      BY <2>1, <2>2, <3>4, <3>6
  <2>4. \A k \in 0..Len(l) : g[k] = f[k]
    BY <2>3
  <2>5. F(g) = F(f)
    BY <2>1, <2>2, <2>4 DEF F
  <2>6. QED
    BY <1>4, <1>6, <2>5
<1>7. QED
  BY <1>3, <1>5, <1>6

LEMMA SizesGrow ==
    ASSUME NEW l \in Seq(Option), NEW f, Measures(f, l, Len(l)),
           NEW k \in 0..Len(l), NEW j \in 0..k
    PROVE  f[j] <= f[k]
<1>1. Len(l) \in Nat /\ \A i \in 1..Len(l) : Len(l[i].data) \in Nat
  BY OptionLengths
<1>2. /\ f \in [0..Len(l) -> Nat]
      /\ \A i \in 1..Len(l) : f[i] = f[i - 1] + Len(l[i].data) + 2
  BY DEF Measures
<1>3. j \in 0..Len(l) /\ j <= k
  BY <1>1
<1> DEFINE bad == {i \in 0..Len(l) : i >= j /\ f[i] < f[j]}
<1>4. bad = {}
  <2>1. SUFFICES ASSUME bad # {} PROVE FALSE
    OBVIOUS
  <2>2. bad \subseteq Nat
    BY <1>1
  <2>3. PICK i \in bad : \A x \in bad : i <= x
    BY <2>1, <2>2, LeastNat
  <2>4. i \in 0..Len(l) /\ i >= j /\ f[i] < f[j]
    BY <2>3
  <2>5. i # j /\ i \in 1..Len(l) /\ i - 1 >= j
    BY <1>1, <1>2, <1>3, <2>4
  <2>6. i - 1 \in 0..Len(l) /\ i - 1 \notin bad
    BY <1>1, <2>3, <2>5
  <2>7. f[i - 1] >= f[j]
    BY <1>2, <1>3, <2>5, <2>6
  <2>8. f[i] = f[i - 1] + Len(l[i].data) + 2 /\ f[i - 1] \in Nat /\ f[j] \in Nat
        /\ Len(l[i].data) \in Nat
    BY <1>1, <1>2, <1>3, <2>5, <2>6
  <2>9. QED
    BY <2>4, <2>7, <2>8
<1>5. k \notin bad
  BY <1>4
<1>6. k \in 0..Len(l) /\ f[k] \in Nat /\ f[j] \in Nat
  BY <1>1, <1>2, <1>3
<1>7. k >= j
  BY <1>1, <1>3
<1>8. ~(f[k] < f[j])
  BY <1>5, <1>6, <1>7
<1>9. QED
  BY <1>6, <1>8

-------------------------------------------------------------------------------
(* What the encoder writes and the client reads                                *)

\* Where the first k options of l leave the next one to begin.
Start(l, k) == Sizes(l)[k] - 1

LEMMA Starts ==
    ASSUME NEW l \in Seq(Option)
    PROVE  /\ Len(l) \in Nat
           /\ Start(l, 0) = 0
           /\ \A k \in 0..Len(l) : Start(l, k) \in Nat
           /\ \A k \in 1..Len(l) : /\ Len(l[k].data) \in Nat
                                   /\ Start(l, k) = Start(l, k - 1) + Len(l[k].data) + 2
           /\ \A k \in 0..Len(l) : \A j \in 0..k : Start(l, j) <= Start(l, k)
           /\ EncodedSize(l) = Start(l, Len(l)) + 1
<1> DEFINE f == Sizes(l)
<1>1. Len(l) \in Nat /\ \A k \in 1..Len(l) : Len(l[k].data) \in Nat
  BY OptionLengths
<1>2. Measures(f, l, Len(l))
  BY SizesMeasure
<1>3. EncodedSize(l) = f[Len(l)]
  BY SizeOfAll
<1> HIDE DEF f
<1>4. /\ f \in [0..Len(l) -> Nat] /\ f[0] = 1
      /\ \A k \in 1..Len(l) : f[k] = f[k - 1] + Len(l[k].data) + 2
  BY <1>2 DEF Measures
<1>5. \A k \in 0..Len(l) : \A j \in 0..k : f[j] <= f[k]
  BY <1>2, SizesGrow
<1>6. \A k \in 0..Len(l) : f[k] \in Nat /\ f[k] >= 1
  BY <1>1, <1>4, <1>5
<1>7. \A k : Start(l, k) = f[k] - 1
  BY DEF Start, f
<1>8. \A k \in 0..Len(l) : \A j \in 0..k : Start(l, j) <= Start(l, k)
  <2>1. SUFFICES ASSUME NEW k \in 0..Len(l), NEW j \in 0..k
                 PROVE  Start(l, j) <= Start(l, k)
    OBVIOUS
  <2>2. j \in 0..Len(l) /\ f[j] <= f[k]
    BY <1>1, <1>5
  <2>3. f[j] \in Nat /\ f[k] \in Nat
    BY <1>4, <2>2
  <2>4. QED
    BY <1>7, <2>2, <2>3
<1>9. \A k \in 1..Len(l) : Start(l, k) = Start(l, k - 1) + Len(l[k].data) + 2
  <2>1. SUFFICES ASSUME NEW k \in 1..Len(l)
                 PROVE  Start(l, k) = Start(l, k - 1) + Len(l[k].data) + 2
    OBVIOUS
  <2> DEFINE len == Len(l[k].data)
             a == f[k - 1]
             b == f[k]
  <2>2. b = a + len + 2
    BY <1>4
  <2>3. a \in Nat /\ len \in Nat
    <3>1. k - 1 \in 0..Len(l)
      BY <1>1
    <3>2. QED
      BY <1>1, <1>4, <3>1
  <2>4. Start(l, k) = b - 1 /\ Start(l, k - 1) = a - 1
    BY <1>7
  <2> HIDE DEF len, a, b
  <2>5. b - 1 = a - 1 + len + 2
    BY <2>2, <2>3
  <2>6. QED
    BY <2>4, <2>5 DEF len
<1>10. \A k \in 0..Len(l) : Start(l, k) \in Nat
  BY <1>6, <1>7
<1>11. Start(l, 0) = 0
  BY <1>4, <1>7
<1>12. EncodedSize(l) = Start(l, Len(l)) + 1
  BY <1>1, <1>3, <1>6, <1>7
<1>13. QED
  BY <1>1, <1>8, <1>9, <1>10, <1>11, <1>12

\* The option o stands in block from index s on, code and length cut to an octet.
StandsAt(block, o, s) ==
    /\ block[s] = o.code % 256 /\ block[s + 1] = Len(o.data) % 256
    /\ \A j \in 1..Len(o.data) : block[s + 1 + j] = o.data[j]

\* How many options of the answer are written.
Count == Len(list) - Len(rest)

\* The answer's options survive being encoded.
AllEncodable == \A k \in DOMAIN list : Encodable(list[k])

\* rest is the end of the list.
ListInv ==
    /\ Len(rest) <= Len(list)
    /\ \A k \in 1..Len(rest) : rest[k] = list[Count + k]

\* The options written stand one behind the other, inside the block.
BlockInv ==
    /\ Start(list, Count) <= MaxLine - 1
    /\ \A k \in 1..Count : StandsAt(data, list[k], Start(list, k - 1))

EncodeInv ==
    /\ pos = Start(list, Count) - 1
    /\ \A x \in DOMAIN data : x > pos => data[x] = PAD

\* END stands behind the options, or an octet further when some were left out.
EndInv ==
    /\ rest = <<>> => pos = Start(list, Count)
    /\ rest # <<>> => /\ pos = Start(list, Count) + 1
                      /\ data[Start(list, Count)] = PAD
                      /\ EncodedSize(list) > MaxLine
    /\ pos \in DOMAIN data => data[pos] = END

\* The client has the octets that were sent.
CheckInv ==
    /\ pos \in DOMAIN data
    /\ input = [k \in 1..RawSize |-> data[k - 1]]

\* The client has read the first options, and maybe the octet nobody wrote.
ReadInv ==
    /\ Len(opts) <= Count
    /\ \A k \in 1..Len(opts) : opts[k] = list[k]
    /\ \/ at = Start(list, Len(opts))
       \/ Len(opts) = Count /\ rest # <<>> /\ at = Start(list, Count) + 1

DoneInv ==
    /\ AllEncodable => opts = SubSeq(list, 1, Count)
    /\ rest # <<>> => EncodedSize(list) > MaxLine

\* What holds of the answer in each phase.
DecodeInv ==
    /\ phase \in {"receive", "parse", "dispatch"} => list = <<>>
    /\ phase \in {"encode", "packet", "check"} => ListInv /\ BlockInv
    /\ phase = "encode" => EncodeInv
    /\ phase \in {"packet", "check"} => EndInv
    /\ phase = "check" => CheckInv /\ (AllEncodable => ReadInv)
    /\ phase = "done" => DoneInv
    /\ phase = "exit" /\ list # <<>> => EncodedSize(list) > MaxLine - Header

\* An option that fits is written where it should stand; nothing else changes.
LEMMA WrittenStands ==
    ASSUME TypeOK, NEW o \in Option, NEW p \in Nat, Fits(o, p)
    PROVE  /\ DOMAIN Written(o, p) = DOMAIN data
           /\ StandsAt(Written(o, p), o, p)
           /\ \A x \in DOMAIN data : x < p \/ x >= p + Len(o.data) + 2 => Written(o, p)[x] = data[x]
<1> DEFINE len == Len(o.data)
<1>1. /\ MaxLine \in Nat /\ data \in [0..(MaxLine - 1) -> Octet]
      /\ len \in Nat /\ DOMAIN o.data = 1..len
  BY SizesAssumption DEF TypeOK, Octet, Option
<1>3. p + len + 2 <= MaxLine - 1
  BY DEF Fits
<1> DEFINE w == Written(o, p)
<1>4. /\ DOMAIN w = 0..(MaxLine - 1)
      /\ \A x \in 0..(MaxLine - 1) :
            w[x] = IF x = p THEN o.code % 256
                   ELSE IF x = p + 1 THEN len % 256
                   ELSE IF x - p - 1 \in DOMAIN o.data THEN o.data[x - p - 1]
                   ELSE data[x]
  BY <1>1 DEF Written
<1> HIDE DEF w, len
<1>5. w[p] = o.code % 256 /\ w[p + 1] = len % 256
  <2>1. p \in 0..(MaxLine - 1) /\ p + 1 \in 0..(MaxLine - 1) /\ p + 1 # p
    BY <1>1, <1>3
  <2>2. QED
    BY <1>4, <2>1
<1>6. ASSUME NEW j \in 1..len
      PROVE  w[p + 1 + j] = o.data[j]
  <2>1. p + 1 + j \in 0..(MaxLine - 1) /\ (p + 1 + j) - p - 1 = j /\ p + 1 + j # p /\ p + 1 + j # p + 1
    BY <1>1, <1>3
  <2>2. QED
    BY <1>1, <1>4, <2>1
<1>7. ASSUME NEW x \in 0..(MaxLine - 1), x < p \/ x >= p + len + 2
      PROVE  w[x] = data[x]
  <2>1. x # p /\ x # p + 1 /\ x - p - 1 \notin 1..len
    BY <1>1, <1>7
  <2>2. QED
    BY <1>1, <1>4, <2>1
<1>8. StandsAt(w, o, p)
  BY <1>5, <1>6 DEF StandsAt, len
<1>9. QED
  BY <1>1, <1>4, <1>7, <1>8 DEF w, len

\* Options that stand before s stay when the octets before s stay.
LEMMA BlockStays ==
    ASSUME TypeOK, ListInv, BlockInv, NEW block,
           \A x \in 0..(Start(list, Count) - 1) : block[x] = data[x],
           NEW k \in 1..Count
    PROVE  StandsAt(block, list[k], Start(list, k - 1))
<1> DEFINE o == list[k]
           s == Start(list, k - 1)
<1>1. list \in Seq(Option) /\ Count \in 0..Len(list) /\ Len(list) \in Nat
  BY DEF TypeOK, ListInv, Count
<1>2. k \in 1..Len(list) /\ k - 1 \in 0..Len(list) /\ k \in 0..Count /\ Count \in 0..Len(list)
  BY <1>1
<1>3. /\ s \in Nat /\ Start(list, k) = s + Len(o.data) + 2 /\ Len(o.data) \in Nat
      /\ Start(list, k) <= Start(list, Count) /\ Start(list, Count) \in Nat
  BY <1>1, <1>2, Starts
<1>4. StandsAt(data, o, s)
  BY DEF BlockInv
<1> HIDE DEF o, s
<1>5. /\ s \in 0..(Start(list, Count) - 1) /\ s + 1 \in 0..(Start(list, Count) - 1)
      /\ \A j \in 1..Len(o.data) : s + 1 + j \in 0..(Start(list, Count) - 1)
  BY <1>3
<1>6. StandsAt(block, o, s)
  BY <1>4, <1>5 DEF StandsAt
<1>7. QED
  BY <1>6 DEF o, s

\* The next option to write is one of the answer's.
LEMMA NextToWrite ==
    ASSUME TypeOK, ListInv, rest # <<>>
    PROVE  /\ Count \in 0..Len(list) /\ Count + 1 \in 1..Len(list)
           /\ Head(rest) = list[Count + 1] /\ Head(rest) \in Option
           /\ Len(Head(rest).data) \in Nat
           /\ Start(list, Count + 1) = Start(list, Count) + Len(Head(rest).data) + 2
           /\ Start(list, Count) \in Nat
<1>1. list \in Seq(Option) /\ rest \in Seq(Option) /\ Len(list) \in Nat /\ Len(rest) \in Nat
  BY DEF TypeOK
<1>2. Len(rest) >= 1 /\ Len(rest) <= Len(list)
  BY <1>1 DEF ListInv
<1>3. Count \in 0..Len(list) /\ Count + 1 \in 1..Len(list) /\ (Count + 1) - 1 = Count
  BY <1>1, <1>2 DEF Count
<1>4. Head(rest) = list[Count + 1]
  BY <1>1, <1>2 DEF ListInv
<1>5. list[Count + 1] \in Option
  BY <1>1, <1>3
<1>6. /\ Len(list[Count + 1].data) \in Nat
      /\ Start(list, Count + 1) = Start(list, Count) + Len(list[Count + 1].data) + 2
      /\ Start(list, Count) \in Nat
  BY <1>1, <1>3, Starts
<1>7. QED
  BY <1>3, <1>4, <1>5, <1>6

LEMMA EncodeOptionDecodes ==
    ASSUME IndInv, DecodeInv, EncodeOption
    PROVE  DecodeInv'
<1> DEFINE o == Head(rest)
           p == pos + 1
           c == Count
           len == Len(o.data)
<1>1. /\ TypeOK /\ ListInv /\ BlockInv /\ EncodeInv /\ rest # <<>> /\ phase = "encode"
      /\ phase' = phase /\ list' = list
  BY DEF IndInv, DecodeInv, EncodeOption
<1>2. /\ c \in 0..Len(list) /\ c + 1 \in 1..Len(list)
      /\ o = list[c + 1] /\ o \in Option /\ len \in Nat
      /\ Start(list, c + 1) = Start(list, c) + len + 2
      /\ Start(list, c) \in Nat
  BY <1>1, NextToWrite
<1>3. p = Start(list, c) /\ p \in Nat
  BY <1>1, <1>2 DEF EncodeInv
<1>4. Fits(o, p) /\ data' = Written(o, p) /\ pos' = pos + len + 2 /\ rest' = Tail(rest)
  BY DEF EncodeOption
<1>5. /\ DOMAIN data' = DOMAIN data
      /\ StandsAt(data', o, p)
      /\ \A x \in DOMAIN data : x < p \/ x >= p + len + 2 => data'[x] = data[x]
  BY <1>1, <1>2, <1>3, <1>4, WrittenStands
<1>6. /\ rest \in Seq(Option) /\ list \in Seq(Option) /\ Len(list) \in Nat /\ Len(rest) \in Nat /\ Len(rest) >= 1
      /\ DOMAIN data = 0..(MaxLine - 1) /\ MaxLine \in Nat /\ pos \in Int
  BY <1>1, SizesAssumption DEF TypeOK
<1>7. Len(rest') = Len(rest) - 1 /\ \A k \in 1..Len(rest') : rest'[k] = rest[k + 1]
  BY <1>4, <1>6
<1>8. Count' = c + 1
  BY <1>1, <1>6, <1>7 DEF Count
<1> HIDE DEF o, p, c, len
<1>9. ListInv'
  <2>1. Len(rest') <= Len(list')
    BY <1>1, <1>6, <1>7 DEF ListInv
  <2>2. ASSUME NEW k \in 1..Len(rest')
        PROVE  rest'[k] = list'[Count' + k]
    <3>1. k + 1 \in 1..Len(rest) /\ Count' + k = c + (k + 1)
      BY <1>2, <1>6, <1>7, <1>8
    <3>2. rest[k + 1] = list[c + (k + 1)]
      BY <1>1, <3>1 DEF ListInv, c
    <3>3. QED
      BY <1>1, <1>7, <3>1, <3>2
  <2>3. QED
    BY <1>1, <2>1, <2>2 DEF ListInv
<1>10. Start(list, c + 1) = p + len + 2 /\ p + len + 2 <= MaxLine - 1
  BY <1>2, <1>3, <1>4 DEF Fits, len
<1>11. BlockInv'
  <2>1. \A x \in 0..(Start(list, c) - 1) : data'[x] = data[x]
    <3>1. p = Start(list, c) /\ p \in Nat /\ len \in Nat /\ p + len + 2 <= MaxLine - 1
      BY <1>2, <1>3, <1>10
    <3>2. SUFFICES ASSUME NEW x \in 0..(p - 1) PROVE data'[x] = data[x]
      BY <3>1
    <3>3. x \in DOMAIN data /\ x < p
      BY <1>6, <3>1
    <3>4. QED
      BY <1>5, <3>3
  <2>2. ASSUME NEW k \in 1..(c + 1)
        PROVE  StandsAt(data', list[k], Start(list, k - 1))
    <3>1. CASE k = c + 1
      <4>1. k - 1 = c
        BY <1>2, <3>1
      <4>2. QED
        BY <1>2, <1>3, <1>5, <3>1, <4>1
    <3>2. CASE k # c + 1
      <4>1. k \in 1..c
        BY <1>2, <3>2
      <4>2. QED
        BY <1>1, <2>1, <4>1, BlockStays DEF c
    <3>3. QED
      BY <3>1, <3>2
  <2>3. QED
    BY <1>1, <1>8, <1>10, <2>2 DEF BlockInv
<1>12. EncodeInv'
  <2>1. pos' = p + len + 2 - 1
    <3>1. pos' = pos + len + 2 /\ len \in Nat /\ pos \in Int
      BY <1>2, <1>4, <1>6
    <3>2. QED
      BY <3>1 DEF p
  <2>2. pos' = Start(list, c + 1) - 1
    BY <1>2, <1>3, <1>10, <2>1
  <2>3. ASSUME NEW x \in DOMAIN data, x > pos'
        PROVE  data'[x] = PAD
    <3>1. x \in Int /\ x >= p + len + 2 /\ x > pos
      <4>1. x \in Int /\ pos \in Int /\ len \in Nat /\ p \in Nat
        BY <1>2, <1>3, <1>5, <1>6
      <4>2. p = pos + 1 /\ x > p + len + 2 - 1
        BY <2>1, <2>3 DEF p
      <4>3. QED
        BY <4>1, <4>2
    <3>2. data'[x] = data[x] /\ data[x] = PAD
      BY <1>1, <1>5, <3>1 DEF EncodeInv
    <3>3. QED
      BY <3>2
  <2>4. QED
    BY <1>1, <1>5, <1>8, <2>2, <2>3 DEF EncodeInv
<1>13. QED
  BY <1>1, <1>9, <1>11, <1>12 DEF DecodeInv

LEMMA EncodeEndDecodes ==
    ASSUME IndInv, DecodeInv, EncodeEnd
    PROVE  DecodeInv'
<1> DEFINE s == Start(list, Count)
           e == IF rest = <<>> THEN pos + 1 ELSE pos + 2
<1>1. /\ TypeOK /\ ListInv /\ BlockInv /\ EncodeInv /\ phase' = "packet"
      /\ list' = list /\ rest' = rest
  BY DEF IndInv, DecodeInv, EncodeEnd
<1>2. /\ pos' = e
      /\ data' = IF e \in DOMAIN data THEN [data EXCEPT ![e] = END] ELSE data
      /\ rest # <<>> => ~Fits(Head(rest), pos + 1)
  BY DEF EncodeEnd
<1>3. /\ list \in Seq(Option) /\ Len(list) \in Nat /\ Count \in 0..Len(list)
      /\ rest \in Seq(Option)
      /\ DOMAIN data = 0..(MaxLine - 1) /\ MaxLine \in Nat /\ pos \in Int
  BY <1>1, SizesAssumption DEF TypeOK, ListInv, Count
<1>4. s \in Nat /\ pos = s - 1 /\ s <= MaxLine - 1
  BY <1>1, <1>3, Starts DEF BlockInv, EncodeInv
<1>5. e = IF rest = <<>> THEN s ELSE s + 1
  BY <1>4
<1>6. Count' = Count
  BY <1>1 DEF Count
<1> HIDE DEF s, e
<1>7. ListInv'
  BY <1>1, <1>6 DEF ListInv
<1>8. BlockInv'
  <2>1. \A x \in 0..(s - 1) : data'[x] = data[x]
    <3>1. SUFFICES ASSUME NEW x \in 0..(s - 1) PROVE data'[x] = data[x]
      OBVIOUS
    <3>2. x # e /\ x \in DOMAIN data
      BY <1>3, <1>4, <1>5
    <3>3. QED
      BY <1>2, <3>2
  <2>2. \A k \in 1..Count : StandsAt(data', list[k], Start(list, k - 1))
    BY <1>1, <2>1, BlockStays DEF s
  <2>3. QED
    BY <1>1, <1>4, <1>6, <2>2 DEF BlockInv, s
<1>9. ASSUME rest # <<>>
      PROVE  data'[s] = PAD /\ EncodedSize(list) > MaxLine
  <2>1. s \in DOMAIN data /\ s > pos /\ s # e
    BY <1>3, <1>4, <1>5, <1>9
  <2>2. data'[s] = PAD
    BY <1>1, <1>2, <2>1 DEF EncodeInv
  <2> DEFINE o == Head(rest)
             len == Len(o.data)
  <2>3. /\ Count + 1 \in 1..Len(list) /\ len \in Nat
        /\ Start(list, Count + 1) = s + len + 2
    BY <1>1, <1>9, NextToWrite DEF s
  <2>4. ~Fits(o, s)
    <3>1. pos + 1 = s
      BY <1>4
    <3>2. QED
      BY <1>2, <1>9, <3>1
  <2>5. ~(s + len + 2 <= MaxLine - 1)
    BY <1>4, <2>4 DEF Fits
  <2> HIDE DEF o, len
  <2>6. Start(list, Count + 1) <= Start(list, Len(list)) /\ Start(list, Len(list)) \in Nat
        /\ EncodedSize(list) = Start(list, Len(list)) + 1
    <3>1. Len(list) \in 0..Len(list) /\ Count + 1 \in 0..Len(list)
      BY <1>3, <2>3
    <3>2. QED
      BY <1>3, <3>1, Starts
  <2>7. EncodedSize(list) > MaxLine
    BY <1>3, <1>4, <2>3, <2>5, <2>6
  <2>8. QED
    BY <2>2, <2>7
<1>10. ASSUME pos' \in DOMAIN data'
       PROVE  data'[pos'] = END
  BY <1>2, <1>3, <1>10
<1>11. EndInv'
  <2>1. Start(list', Count') = s
    BY <1>1, <1>6 DEF s
  <2> HIDE DEF s
  <2>2. rest' = <<>> => pos' = s
    BY <1>1, <1>2, <1>5
  <2>3. rest' # <<>> => pos' = s + 1 /\ data'[s] = PAD /\ EncodedSize(list') > MaxLine
    BY <1>1, <1>2, <1>5, <1>9
  <2>4. QED
    BY <1>10, <2>1, <2>2, <2>3 DEF EndInv
<1>12. QED
  BY <1>1, <1>7, <1>8, <1>11 DEF DecodeInv

LEMMA PacketDecodes ==
    ASSUME IndInv, DecodeInv, Packet
    PROVE  DecodeInv'
<1>1. /\ TypeOK /\ ListInv /\ BlockInv /\ EndInv /\ phase = "packet"
      /\ list' = list /\ rest' = rest /\ pos' = pos /\ data' = data
  BY DEF IndInv, DecodeInv, Packet, encoder
<1>2. /\ list \in Seq(Option) /\ Len(list) \in Nat /\ Count \in 0..Len(list)
      /\ DOMAIN data = 0..(MaxLine - 1) /\ MaxLine \in Nat /\ Header \in Nat
      /\ pos \in Int /\ pos >= -1 /\ Len(rest) \in Nat /\ rest \in Seq(Option)
  BY <1>1, SizesAssumption DEF IndInv, TypeOK, ListInv, Count
<1>3. CASE RawSize > MaxLine - Header
  <2>1. phase' = "exit"
    BY <1>3 DEF Packet
  <2>2. EncodedSize(list) > MaxLine - Header
    <3>1. CASE rest = <<>>
      <4>1. Count = Len(list)
        BY <1>2, <3>1 DEF Count
      <4>2. EncodedSize(list) = pos + 1
        BY <1>1, <1>2, <3>1, <4>1, Starts DEF EndInv
      <4>3. QED
        BY <1>3, <4>2 DEF RawSize
    <3>2. CASE rest # <<>>
      <4>1. EncodedSize(list) > MaxLine
        BY <1>1, <3>2 DEF EndInv
      <4>2. EncodedSize(list) \in Int
        <5>1. Len(list) \in 0..Len(list)
          BY <1>2
        <5>2. Start(list, Len(list)) \in Nat /\ EncodedSize(list) = Start(list, Len(list)) + 1
          BY <1>2, <5>1, Starts
        <5>3. QED
          BY <5>2
      <4>3. QED
        BY <1>2, <4>1, <4>2
    <3>3. QED
      BY <3>1, <3>2
  <2>3. QED
    BY <1>1, <2>1, <2>2 DEF DecodeInv
<1>4. CASE ~(RawSize > MaxLine - Header)
  <2>1. phase' = "check" /\ Read([k \in 1..RawSize |-> data[k - 1]])
    BY <1>4 DEF Packet
  <2>2. RawSize' = RawSize /\ Count' = Count
    BY <1>1 DEF RawSize, Count
  <2>3. at' = 0 /\ opts' = <<>> /\ Start(list, 0) = 0 /\ Len(opts') = 0
    BY <1>2, <2>1, Starts DEF Read
  <2>4. pos \in DOMAIN data
    <3>1. pos >= 0
      <4>1. Start(list, Count) \in Nat
        BY <1>2, Starts
      <4>2. QED
        BY <1>1, <4>1 DEF EndInv
    <3>2. QED
      BY <1>2, <1>4, <3>1 DEF RawSize
  <2>5. input' = [k \in 1..RawSize |-> data[k - 1]]
    BY <2>1 DEF Read
  <2>6. CheckInv' /\ ReadInv'
    <3>1. Len(opts') <= Count' /\ \A k \in 1..Len(opts') : opts'[k] = list'[k]
      BY <1>2, <2>2, <2>3
    <3>2. input' = [k \in 1..RawSize' |-> data'[k - 1]]
      BY <1>1, <2>2, <2>5
    <3>3. at' = Start(list', Len(opts'))
      BY <1>1, <2>3
    <3>4. QED
      BY <1>1, <2>4, <3>1, <3>2, <3>3 DEF CheckInv, ReadInv
  <2>7. ListInv' /\ BlockInv' /\ EndInv'
    BY <1>1, <2>2 DEF ListInv, BlockInv, EndInv
  <2>8. QED
    BY <2>1, <2>6, <2>7 DEF DecodeInv
<1>5. QED
  BY <1>3, <1>4

-------------------------------------------------------------------------------
(* The client reads what the encoder wrote                                     *)

LEMMA OctetsUncut == \A x \in 0..255 : x % 256 = x
  OBVIOUS

\* What the client has in front of it.
Ahead ==
    /\ Len(opts) < Count
    /\ LET o == list[Len(opts) + 1] IN
       /\ input[at + 1] = o.code /\ input[at + 2] = Len(o.data)
       /\ \A j \in 1..Len(o.data) : input[at + 2 + j] = o.data[j]
       /\ Encodable(o) /\ o \in Option
       /\ Len(o.data) + 2 < n
       /\ Start(list, Len(opts) + 1) = at + Len(o.data) + 2

LEMMA CheckTypes ==
    ASSUME IndInv, ListInv, CheckInv, ReadInv
    PROVE  /\ list \in Seq(Option) /\ Len(list) \in Nat /\ Count \in 0..Len(list)
           /\ opts \in Seq(Option) /\ Len(opts) \in 0..Count
           /\ at \in Nat /\ n \in Nat /\ pos \in Nat /\ at + n = pos + 1
           /\ input \in Seq(Octet) /\ Len(input) = pos + 1
           /\ \A x \in 0..pos : input[x + 1] = data[x]
<1>1. /\ list \in Seq(Option) /\ rest \in Seq(Option) /\ opts \in Seq(Option) /\ at \in Nat
      /\ n \in Int /\ n >= 0 /\ at + n = Len(input) /\ input \in Seq(Octet) /\ pos \in Int
      /\ DOMAIN data = 0..(MaxLine - 1) /\ MaxLine \in Nat
  BY SizesAssumption DEF IndInv, TypeOK
<1>2. pos \in Nat
  BY <1>1 DEF CheckInv
<1>3. input = [k \in 1..RawSize |-> data[k - 1]] /\ RawSize = pos + 1
  BY DEF CheckInv, RawSize
<1>4. Len(input) = pos + 1
  BY <1>2, <1>3
<1>5. ASSUME NEW x \in 0..pos
      PROVE  input[x + 1] = data[x]
  <2>1. x + 1 \in 1..(pos + 1) /\ (x + 1) - 1 = x
    BY <1>2
  <2>2. QED
    BY <1>3, <2>1
<1>6. Len(opts) \in 0..Count /\ Count \in 0..Len(list)
  BY <1>1 DEF ReadInv, ListInv, Count
<1>7. QED
  BY <1>1, <1>2, <1>4, <1>5, <1>6

\* The client stands before an option, before the octet nobody wrote, before END or
\* behind it.
LEMMA Standing ==
    ASSUME IndInv, AllEncodable, ListInv, BlockInv, EndInv, CheckInv, ReadInv
    PROVE  \/ Ahead
           \/ Len(opts) = Count /\ rest # <<>> /\ at = Start(list, Count) /\ at < pos
              /\ input[at + 1] = PAD
           \/ Len(opts) = Count /\ at = pos /\ input[at + 1] = END /\ n = 1
<1> DEFINE m == Len(opts)
           c == Count
           s == Start(list, c)
<1>1. /\ list \in Seq(Option) /\ Len(list) \in Nat /\ c \in 0..Len(list)
      /\ m \in 0..c
      /\ at \in Nat /\ n \in Nat /\ pos \in Nat /\ at + n = pos + 1
      /\ \A x \in 0..pos : input[x + 1] = data[x]
  BY CheckTypes
<1>2. s \in Nat /\ pos = (IF rest = <<>> THEN s ELSE s + 1) /\ data[pos] = END
      /\ (rest # <<>> => data[s] = PAD)
  BY <1>1, Starts DEF EndInv, CheckInv
<1>3. at = Start(list, m) \/ (m = c /\ rest # <<>> /\ at = s + 1)
  BY DEF ReadInv
<1> HIDE DEF m, c, s
<1>4. CASE m = c /\ rest # <<>> /\ at = s + 1
  <2>1. at = pos /\ pos \in 0..pos
    BY <1>1, <1>2, <1>4
  <2>2. n = 1 /\ input[at + 1] = END
    BY <1>1, <1>2, <2>1
  <2>3. QED
    BY <1>4, <2>1, <2>2 DEF m, c
<1>5. CASE m = c /\ at = Start(list, m)
  <2>1. at = s
    BY <1>5 DEF s
  <2>2. CASE rest = <<>>
    <3>1. at = pos /\ pos \in 0..pos
      BY <1>1, <1>2, <2>1, <2>2
    <3>2. n = 1 /\ input[at + 1] = END
      BY <1>1, <1>2, <3>1
    <3>3. QED
      BY <1>5, <3>1, <3>2 DEF m, c
  <2>3. CASE rest # <<>>
    <3>1. at < pos /\ at \in 0..pos
      BY <1>1, <1>2, <2>1, <2>3
    <3>2. input[at + 1] = PAD
      BY <1>1, <1>2, <2>1, <2>3, <3>1
    <3>3. QED
      BY <1>5, <2>1, <2>3, <3>1, <3>2 DEF m, c, s
  <2>4. QED
    BY <2>2, <2>3
<1>6. CASE m # c /\ at = Start(list, m)
  <2> DEFINE o == list[m + 1]
             len == Len(o.data)
  <2>1. /\ m < c /\ m + 1 \in 1..c /\ m + 1 \in 1..Len(list) /\ m + 1 \in 0..c
        /\ c \in 0..Len(list) /\ (m + 1) - 1 = m
    BY <1>1, <1>6
  <2>2. /\ len \in Nat /\ Start(list, m + 1) = at + len + 2
        /\ Start(list, m + 1) <= s
    <3>1. Len(list[m + 1].data) \in Nat
          /\ Start(list, m + 1) = Start(list, (m + 1) - 1) + Len(list[m + 1].data) + 2
      BY <1>1, <2>1, Starts
    <3>2. Start(list, m + 1) <= Start(list, c)
      BY <1>1, <2>1, Starts
    <3>3. QED
      BY <1>6, <2>1, <3>1, <3>2 DEF s
  <2>3. StandsAt(data, o, at)
    BY <1>6, <2>1 DEF BlockInv, c
  <2>4. Encodable(o) /\ o \in Option
    BY <1>1, <2>1 DEF AllEncodable
  <2> HIDE DEF o, len
  <2>5. o.code % 256 = o.code /\ len % 256 = len
    <3>1. o.code \in 0..255 /\ Len(o.data) \in 0..255
      BY <2>4 DEF Encodable, Octet
    <3>2. QED
      BY <3>1, OctetsUncut, Zenon DEF len
  <2>6. at + len + 2 <= pos /\ len + 2 < n
    BY <1>1, <1>2, <2>2
  <2>7. input[at + 1] = o.code
    <3>1. at \in 0..pos
      BY <1>1, <2>2, <2>6
    <3>2. QED
      BY <1>1, <2>3, <2>5, <3>1 DEF StandsAt
  <2>8. input[at + 2] = len
    <3>1. at + 1 \in 0..pos /\ (at + 1) + 1 = at + 2
      BY <1>1, <2>2, <2>6
    <3>2. input[(at + 1) + 1] = data[at + 1]
      BY <1>1, <3>1
    <3>3. QED
      BY <2>3, <2>5, <3>1, <3>2 DEF StandsAt, len
  <2>9. ASSUME NEW j \in 1..len
        PROVE  input[at + 2 + j] = o.data[j]
    <3>1. at + 1 + j \in 0..pos /\ (at + 1 + j) + 1 = at + 2 + j
      BY <1>1, <2>2, <2>6
    <3>2. input[(at + 1 + j) + 1] = data[at + 1 + j]
      BY <1>1, <3>1
    <3>3. QED
      BY <2>3, <3>1, <3>2 DEF StandsAt, len
  <2>10. Ahead
    BY <2>1, <2>2, <2>4, <2>6, <2>7, <2>8, <2>9 DEF Ahead, m, c, o, len
  <2>11. QED
    BY <2>10
<1>7. QED
  BY <1>3, <1>4, <1>5, <1>6

\* Ahead of the client's position an option begins that it can read.
LEMMA AheadParses ==
    ASSUME IndInv, Ahead
    PROVE  /\ OptionAhead
           /\ n > 0 /\ input[at + 1] # PAD
<1> DEFINE o == list[Len(opts) + 1]
           len == Len(o.data)
<1>1. /\ input[at + 1] = o.code /\ input[at + 2] = len
      /\ Encodable(o) /\ o \in Option /\ len + 2 < n
  BY DEF Ahead
<1>2. o.code \in 1..254 /\ len \in 0..255 /\ n \in Int
  BY <1>1 DEF Encodable, Octet, IndInv, TypeOK
<1> HIDE DEF o, len
<1>3. n > 1 /\ n > 0 /\ len <= n - 2
  BY <1>1, <1>2
<1>4. QED
  BY <1>1, <1>2, <1>3 DEF OptionAhead, PAD, END

LEMMA CheckPad ==
    ASSUME IndInv, DecodeInv, ParsePad, phase = "check"
    PROVE  DecodeInv'
<1>1. /\ ListInv /\ BlockInv /\ EndInv /\ CheckInv
      /\ phase' = phase /\ UNCHANGED <<opts, yiaddr, list, rest, pos, data, input>>
      /\ n > 0 /\ input[at + 1] = PAD /\ at' = at + 1
      /\ AllEncodable => ReadInv
  BY DEF DecodeInv, ParsePad, Consume, encoder
<1>2. PAD # END
  BY DEF PAD, END
<1>3. ~Ahead
  BY <1>1, AheadParses
<1>4. Count' = Count /\ RawSize' = RawSize /\ AllEncodable' = AllEncodable
  BY <1>1 DEF Count, RawSize, AllEncodable
<1>5. ASSUME AllEncodable
      PROVE  ReadInv'
  <2>1. Len(opts) = Count /\ rest # <<>> /\ at = Start(list, Count)
    BY <1>1, <1>2, <1>3, <1>5, Standing
  <2>2. at' = Start(list', Count') + 1 /\ Len(opts') = Count' /\ rest' # <<>>
    BY <1>1, <1>4, <2>1
  <2>3. Len(opts') <= Count' /\ \A k \in 1..Len(opts') : opts'[k] = list'[k]
    BY <1>1, <1>4, <1>5 DEF ReadInv
  <2>4. QED
    BY <2>2, <2>3 DEF ReadInv
<1>6. ListInv' /\ BlockInv' /\ EndInv' /\ CheckInv'
  BY <1>1, <1>4 DEF ListInv, BlockInv, EndInv, CheckInv
<1>7. QED
  BY <1>1, <1>4, <1>5, <1>6 DEF DecodeInv

LEMMA SubSeqIs ==
    ASSUME NEW s \in Seq(Octet), NEW d \in Seq(Octet), NEW a \in Nat, a + 2 + Len(d) <= Len(s),
           \A j \in 1..Len(d) : s[a + 2 + j] = d[j]
    PROVE  SubSeq(s, a + 3, a + 2 + Len(d)) = d
<1> DEFINE m == Len(d)
           first == a + 3
           last == a + 2 + m
           t == SubSeq(s, first, last)
<1>1. m \in Nat /\ Len(s) \in Nat
  OBVIOUS
<1>2. \A j \in 1..m : s[a + 2 + j] = d[j]
  OBVIOUS
<1> HIDE DEF m
<1>3. first \in 1..(Len(s) + 1) /\ last \in (first - 1)..Len(s)
  BY <1>1 DEF m
<1>4. last - first + 1 = m /\ \A j \in 1..m : first + j - 1 = a + 2 + j
  BY <1>1
<1> HIDE DEF first, last
<1>5. /\ t \in Seq(Octet) /\ Len(t) = last - first + 1
      /\ \A j \in 1..(last - first + 1) : t[j] = s[first + j - 1]
  BY <1>3, SubSeqProperties
<1> HIDE DEF t
<1>6. Len(t) = m /\ \A j \in 1..m : t[j] = d[j]
  BY <1>2, <1>5, <1>4
<1>7. t = d
  BY <1>5, <1>6, SeqEqual DEF m
<1>8. QED
  BY <1>7 DEF t, m, first, last

LEMMA CheckOption ==
    ASSUME IndInv, DecodeInv, ParseOption, phase = "check", AllEncodable
    PROVE  ReadInv'
<1> DEFINE m == Len(opts)
           o == list[m + 1]
           len == input[at + 2]
           x == [code |-> input[at + 1], data |-> SubSeq(input, at + 3, at + 2 + len)]
<1>1. /\ ListInv /\ BlockInv /\ EndInv /\ CheckInv
      /\ ReadInv /\ UNCHANGED <<list, rest, pos, data, input>>
      /\ OptionAhead /\ opts' = Append(opts, x) /\ at' = at + (2 + len)
  BY DEF DecodeInv, ParseOption, Consume, encoder
<1>2. /\ list \in Seq(Option) /\ Len(list) \in Nat /\ Count \in 0..Len(list)
      /\ opts \in Seq(Option) /\ m \in 0..Count
      /\ at \in Nat /\ n \in Nat /\ pos \in Nat /\ at + n = pos + 1
      /\ input \in Seq(Octet) /\ Len(input) = pos + 1
  BY <1>1, CheckTypes
<1>3. n > 1 /\ input[at + 1] \notin {PAD, END}
  BY <1>1 DEF OptionAhead
<1>4. Ahead
  BY <1>1, <1>3, Standing
<1>5. /\ m < Count /\ input[at + 1] = o.code /\ len = Len(o.data)
      /\ \A j \in 1..Len(o.data) : input[at + 2 + j] = o.data[j]
      /\ o \in Option /\ Len(o.data) + 2 < n
      /\ Start(list, m + 1) = at + Len(o.data) + 2
  BY <1>4 DEF Ahead
<1>6. x = o
  <2> DEFINE d == o.data
  <2>1. d \in Seq(Octet) /\ o = [code |-> o.code, data |-> d]
    BY <1>5 DEF Option
  <2>2. len = Len(d) /\ Len(d) + 2 < n /\ \A j \in 1..Len(d) : input[at + 2 + j] = d[j]
    BY <1>5
  <2> HIDE DEF d, len
  <2>3. Len(d) \in Nat
    BY <2>1
  <2>4. at + 2 + Len(d) <= Len(input)
    BY <1>2, <2>2, <2>3
  <2>5. SubSeq(input, at + 3, at + 2 + len) = d
    BY <1>2, <2>1, <2>2, <2>4, SubSeqIs
  <2>6. QED
    BY <1>5, <2>1, <2>5
<1> HIDE DEF x, o, len
<1>7. Len(opts') = m + 1 /\ \A k \in 1..(m + 1) : opts'[k] = IF k = m + 1 THEN x ELSE opts[k]
  <2>1. x \in Option
    BY <1>5, <1>6
  <2>2. QED
    BY <1>1, <1>2, <2>1
<1>8. Count' = Count /\ RawSize' = RawSize
  BY <1>1 DEF Count, RawSize
<1>9. at' = Start(list', Len(opts'))
  <2>1. Len(o.data) \in Nat
    BY <1>5 DEF Option
  <2>2. at' = at + Len(o.data) + 2
    BY <1>1, <1>2, <1>5, <2>1
  <2>3. QED
    BY <1>1, <1>5, <1>7, <2>2
<1>10. ASSUME NEW k \in 1..(m + 1)
       PROVE  opts'[k] = list[k]
  <2>1. CASE k = m + 1
    BY <1>6, <1>7, <2>1 DEF o
  <2>2. CASE k # m + 1
    <3>1. k \in 1..m
      BY <1>2, <2>2
    <3>2. QED
      BY <1>1, <1>7, <2>2, <3>1 DEF ReadInv
  <2>3. QED
    BY <2>1, <2>2
<1>11. Len(opts') <= Count'
  BY <1>2, <1>5, <1>7, <1>8
<1>12. \A k \in 1..Len(opts') : opts'[k] = list'[k]
  BY <1>1, <1>7, <1>10
<1>13. QED
  BY <1>9, <1>11, <1>12 DEF ReadInv

LEMMA CheckOptionDecodes ==
    ASSUME IndInv, DecodeInv, ParseOption, phase = "check"
    PROVE  DecodeInv'
<1>1. /\ ListInv /\ BlockInv /\ EndInv /\ CheckInv
      /\ phase' = phase /\ UNCHANGED <<list, rest, pos, data, input>>
  BY DEF DecodeInv, ParseOption, Consume, encoder
<1>2. Count' = Count /\ RawSize' = RawSize /\ AllEncodable' = AllEncodable
  BY <1>1 DEF Count, RawSize, AllEncodable
<1>3. ListInv' /\ BlockInv' /\ EndInv' /\ CheckInv'
  BY <1>1, <1>2 DEF ListInv, BlockInv, EndInv, CheckInv
<1>4. AllEncodable' => ReadInv'
  BY <1>2, CheckOption
<1>5. QED
  BY <1>1, <1>3, <1>4 DEF DecodeInv

LEMMA CheckEnd ==
    ASSUME IndInv, DecodeInv, ParseEnd, phase = "check"
    PROVE  DecodeInv'
<1>1. /\ ListInv /\ BlockInv /\ EndInv /\ CheckInv
      /\ phase' = "done" /\ UNCHANGED <<opts, list, rest>>
      /\ ~OptionAhead /\ (n > 0 => input[at + 1] # PAD)
      /\ AllEncodable => ReadInv
  BY DEF DecodeInv, ParseEnd, parser, encoder
<1>2. AllEncodable' = AllEncodable /\ Count' = Count
  BY <1>1 DEF AllEncodable, Count
<1>3. ASSUME AllEncodable
      PROVE  opts = SubSeq(list, 1, Count)
  <2>1. /\ list \in Seq(Option) /\ Len(list) \in Nat /\ Count \in 0..Len(list)
        /\ opts \in Seq(Option) /\ Len(opts) \in 0..Count
        /\ at \in Nat /\ n \in Nat /\ pos \in Nat /\ at + n = pos + 1
    BY <1>1, <1>3, CheckTypes
  <2>2. ~Ahead
    BY <1>1, AheadParses
  <2>3. Len(opts) = Count
    BY <1>1, <1>3, <2>2, Standing
  <2> DEFINE s == SubSeq(list, 1, Count)
  <2>4. 1 \in 1..(Len(list) + 1) /\ Count \in (1 - 1)..Len(list)
    BY <2>1
  <2>5. /\ s \in Seq(Option) /\ Len(s) = Count - 1 + 1
        /\ \A j \in 1..(Count - 1 + 1) : s[j] = list[1 + j - 1]
    BY <2>1, <2>4, SubSeqProperties
  <2>6. Count - 1 + 1 = Count /\ \A j \in 1..Count : 1 + j - 1 = j
    BY <2>1
  <2>7. Len(s) = Len(opts) /\ \A j \in 1..Len(opts) : opts[j] = s[j]
    BY <1>1, <1>3, <2>3, <2>5, <2>6 DEF ReadInv
  <2> HIDE DEF s
  <2>8. opts = s
    BY <2>1, <2>5, <2>7, SeqEqual
  <2>9. QED
    BY <2>8 DEF s
<1>4. DoneInv'
  BY <1>1, <1>2, <1>3 DEF DoneInv, EndInv
<1>5. QED
  BY <1>1, <1>4 DEF DecodeInv

-------------------------------------------------------------------------------

LEMMA AnswerDecodesFirst ==
    ASSUME IndInv, NEW ip, NEW l \in Seq(Option), Answer(ip, l)
    PROVE  DecodeInv'
<1>1. list' = l /\ rest' = l /\ pos' = -1 /\ data' = EmptyBlock /\ phase' = "encode"
  BY DEF Answer
<1>2. Len(l) \in Nat /\ Start(l, 0) = 0
  BY Starts
<1>3. Count' = 0
  BY <1>1, <1>2 DEF Count
<1>4. Start(list', Count') = 0
  BY <1>1, <1>2, <1>3
<1>5. ListInv'
  <2>1. \A k \in 1..Len(l) : 0 + k = k
    BY <1>2
  <2>2. QED
    BY <1>1, <1>2, <1>3, <2>1 DEF ListInv
<1>6. BlockInv'
  <2>1. 0 <= MaxLine - 1
    BY SizesAssumption
  <2>2. 1..0 = {}
    OBVIOUS
  <2>3. QED
    BY <1>3, <1>4, <2>1, <2>2 DEF BlockInv
<1>7. EncodeInv'
  BY <1>1, <1>4 DEF EncodeInv, EmptyBlock
<1>8. QED
  BY <1>1, <1>5, <1>6, <1>7 DEF DecodeInv

LEMMA DispatchDecodes ==
    ASSUME IndInv, DecodeInv, Dispatch
    PROVE  DecodeInv'
<1>1. list = <<>>
  BY DEF DecodeInv, Dispatch
<1>2. CASE phase' = "exit" /\ UNCHANGED <<yiaddr, encoder>>
  BY <1>1, <1>2 DEF DecodeInv, encoder
<1>3. CASE ProcessDiscover
  <2>1. SUFFICES ASSUME NEW ip \in Offered \cup Garbage,
                        NEW options \in DbOptions(<<TypeIs(OFFER)>>),
                        Answer(ip, Append(options, ServerId))
                 PROVE  DecodeInv'
    BY <1>2, <1>3 DEF ProcessDiscover
  <2>2. OFFER \in Octet
    BY DEF OFFER, Octet
  <2>3. QED
    BY <2>1, <2>2, ListsOfOptions, AnswerDecodesFirst
<1>4. ASSUME NEW g \in Garbage, ProcessRequest(g)
      PROVE  DecodeInv'
  <2>1. ACK \in Octet /\ {NAK, DECLINE} \subseteq Octet
    BY DEF ACK, NAK, DECLINE, Octet
  <2>2. ASSUME NEW options \in DbOptions(<<TypeIs(ACK)>>),
               Answer(Requested(g), Append(options, ServerId))
        PROVE  DecodeInv'
    BY <2>2, <2>1, ListsOfOptions, AnswerDecodesFirst
  <2>3. ASSUME NEW t \in {NAK, DECLINE}, Answer(Requested(g), <<TypeIs(t), ServerId>>)
        PROVE  DecodeInv'
    BY <2>3, <2>1, ListsOfOptions, AnswerDecodesFirst
  <2>4. QED
    BY <1>4, <2>2, <2>3 DEF ProcessRequest
<1>5. QED
  BY <1>2, <1>3, <1>4 DEF Dispatch

LEMMA ParsingDecodes ==
    ASSUME IndInv, DecodeInv, ParsePad \/ ParseOption \/ ParseEnd
    PROVE  DecodeInv'
<1>1. CASE phase = "check"
  BY <1>1, CheckPad, CheckOptionDecodes, CheckEnd
<1>2. CASE phase = "parse"
  <2>1. list' = list /\ list = <<>> /\ phase' \in {"parse", "dispatch"}
    BY <1>2 DEF DecodeInv, ParsePad, ParseOption, ParseEnd, encoder
  <2>2. QED
    BY <2>1 DEF DecodeInv
<1>3. QED
  BY <1>1, <1>2 DEF ParsePad, ParseOption, ParseEnd, Reading

LEMMA NextDecodes == IndInv /\ DecodeInv /\ [Next]_vars => DecodeInv'
<1> SUFFICES ASSUME IndInv, DecodeInv, [Next]_vars PROVE DecodeInv'
  OBVIOUS
<1>1. CASE UNCHANGED vars
  BY <1>1 DEF DecodeInv, ListInv, BlockInv, EncodeInv, EndInv, CheckInv, ReadInv, DoneInv,
     AllEncodable, Count, RawSize, vars, parser, encoder
<1>2. CASE Receive
  BY <1>2 DEF DecodeInv, Receive, encoder
<1>3. QED
  BY <1>1, <1>2, ParsingDecodes, DispatchDecodes, EncodeOptionDecodes, EncodeEndDecodes,
     PacketDecodes DEF Next

LEMMA DecodeInvSuffices == IndInv /\ DecodeInv => AnswerDecodes
<1> SUFFICES ASSUME IndInv, DecodeInv PROVE AnswerDecodes
  OBVIOUS
<1>1. list \in Seq(Option) /\ MaxLine \in Nat /\ Header \in Nat
  BY SizesAssumption DEF IndInv, TypeOK
<1>2. EncodedSize(list) \in Int
  <2>1. Len(list) \in 0..Len(list)
    BY <1>1
  <2>2. Start(list, Len(list)) \in Nat /\ EncodedSize(list) = Start(list, Len(list)) + 1
    BY <1>1, <2>1, Starts
  <2>3. QED
    BY <2>2
<1>3. ASSUME phase = "done"
      PROVE  /\ AllEncodable => opts = SubSeq(list, 1, Len(list) - Len(rest))
             /\ EncodedSize(list) <= MaxLine - Header => rest = <<>>
  BY <1>1, <1>2, <1>3 DEF DecodeInv, DoneInv, Count
<1>4. QED
  BY <1>3 DEF AnswerDecodes, DecodeInv, AllEncodable

\* A client that reads an answer written by dhcpv4_generate_rawoptions finds the options
\* the server put in, in order and unchanged, if their codes and lengths survive being cut
\* to an octet; and whatever they are, options are left out, and an answer is left unsent,
\* only when they do not fit a packet.  So for every size of the block, every list of
\* options in the database and every datagram.
THEOREM AnswersDecode == Spec => []AnswerDecodes
<1>1. Init => DecodeInv
  BY DEF Init, DecodeInv
<1>2. QED
  BY <1>1, InitInv, NextInv, NextDecodes, DecodeInvSuffices, PTL DEF Spec

-------------------------------------------------------------------------------
(* What comes to an end                                                        *)

\* How far a child has come through the code.
Rank ==
    CASE phase = "receive" -> 0
      [] phase = "parse" -> 1
      [] phase = "dispatch" -> 2
      [] phase = "encode" -> 3
      [] phase = "packet" -> 4
      [] phase = "check" -> 5
      [] OTHER -> 6

\* A step leads on in the code; or a loop stays where it is with fewer octets to
\* read, or with fewer options to write.
LeadsOn ==
    \/ Rank' > Rank
    \/ Rank' = Rank /\ n' < n /\ n' \in Nat /\ rest' = rest
    \/ Rank' = Rank /\ n' = n /\ Len(rest') < Len(rest) /\ Len(rest') \in Nat

LEMMA StepsLeadOn ==
    ASSUME IndInv, Next
    PROVE  LeadsOn
<1>1. n \in Nat /\ at \in Nat /\ input \in Seq(Octet)
      /\ rest \in Seq(Option) /\ at + n = Len(input)
  BY DEF IndInv, TypeOK
<1>2. CASE Receive
  <2>1. phase = "receive" /\ phase' \in {"parse", "exit"}
    BY <1>2 DEF Receive
  <2>2. QED
    BY <2>1 DEF LeadsOn, Rank
<1>3. CASE ParsePad
  <2>1. Rank' = Rank /\ rest' = rest /\ n' = n - 1 /\ n > 0
    BY <1>3 DEF ParsePad, Consume, encoder, Rank
  <2>2. QED
    BY <1>1, <2>1 DEF LeadsOn
<1>4. CASE ParseOption
  <2> DEFINE len == input[at + 2]
  <2>1. Rank' = Rank /\ rest' = rest /\ n' = n - (2 + len)
    BY <1>4 DEF ParseOption, Consume, encoder, Rank
  <2>2. n > 1 /\ len <= n - 2
    BY <1>4 DEF ParseOption, OptionAhead
  <2>3. at + 2 \in 1..Len(input)
    BY <1>1, <2>2
  <2>4. len \in 0..255
    BY <1>1, <2>3 DEF Octet
  <2> HIDE DEF len
  <2>5. n' < n /\ n' \in Nat
    BY <1>1, <2>1, <2>2, <2>4
  <2>6. QED
    BY <2>1, <2>5 DEF LeadsOn
<1>5. CASE ParseEnd
  <2>1. \/ phase = "parse" /\ phase' = "dispatch"
        \/ phase = "check" /\ phase' = "done"
    BY <1>5 DEF ParseEnd, Reading
  <2>2. QED
    BY <2>1 DEF LeadsOn, Rank
<1>6. CASE Dispatch
  <2>1. phase = "dispatch" /\ phase' \in {"encode", "exit"}
    BY <1>6 DEF Dispatch, ProcessDiscover, ProcessRequest, Answer
  <2>2. QED
    BY <2>1 DEF LeadsOn, Rank
<1>7. CASE EncodeOption
  <2>1. Rank' = Rank /\ n' = n /\ rest # <<>> /\ rest' = Tail(rest)
    BY <1>7 DEF EncodeOption, parser, Rank
  <2>2. Len(rest') = Len(rest) - 1 /\ Len(rest) \in Nat /\ Len(rest) > 0
    BY <1>1, <2>1
  <2>3. Len(rest') < Len(rest) /\ Len(rest') \in Nat
    BY <2>2
  <2>4. QED
    BY <2>1, <2>3 DEF LeadsOn
<1>8. CASE EncodeEnd
  <2>1. phase = "encode" /\ phase' = "packet"
    BY <1>8 DEF EncodeEnd
  <2>2. QED
    BY <2>1 DEF LeadsOn, Rank
<1>9. CASE Packet
  <2>1. phase = "packet" /\ phase' \in {"check", "exit"}
    BY <1>9 DEF Packet
  <2>2. QED
    BY <2>1 DEF LeadsOn, Rank
<1>10. QED
  BY <1>2, <1>3, <1>4, <1>5, <1>6, <1>7, <1>8, <1>9 DEF Next

\* No datagram makes a child loop for ever: each turn of a loop of the parser or the
\* encoder leaves less to do, and nothing leads back.  This is the half of Terminates
\* that does not need fairness.
THEOREM StepsRunOut == Spec => [][LeadsOn]_vars
<1>1. IndInv /\ [Next]_vars => [LeadsOn]_vars
  BY StepsLeadOn
<1>2. QED
  BY <1>1, InitInv, NextInv, PTL DEF Spec
===============================================================================
