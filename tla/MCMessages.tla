------------------------------ MODULE MCMessages ------------------------------
(* Small instances of Messages for TLC: real octets, a buffer of 280, so that an *)
(* option of more than 255 octets fits into it.                                  *)
EXTENDS Messages

Short == <<10, 0, 0, 7>>

Datagram1(op, body, ciaddr) ==
    [op |-> op, size |-> Header + 4 + Len(body), magic |-> TRUE, body |-> body,
     ciaddr |-> ciaddr]

\* Every body of up to four octets, in a message the listener passes over.
Scrambled ==
    {Datagram1(2, body, Short) :
        body \in UNION {[1..k -> {PAD, END, MESSAGE_TYPE, 1, 2}] : k \in 0..4}}

\* Messages of clients: discover, request with and without the address, two message
\* types, options cut short, a type without octets, a type nobody answers.
Served ==
    {Datagram1(BOOTREQUEST, body, Short) : body \in {
        <<53, 1, 1, 255>>,
        <<53, 1, 3, 0, 50, 4, 10, 0, 0, 7, 255>>,
        <<53, 1, 3>>,
        <<53, 1, 1, 53, 1, 3, 255>>,
        <<53, 1, 3, 50, 2, 10, 0>>,
        <<53, 0, 12, 1, 0>>,
        <<53, 1, 8, 255>>,
        <<12, 1, 0, 255>>}}

Filtered ==
    {[Datagram1(BOOTREQUEST, <<>>, Short) EXCEPT !.size = Header],
     [Datagram1(BOOTREQUEST, <<53, 1, 1>>, Short) EXCEPT !.magic = FALSE]}

\* Datagrams that leave up to four octets of the buffer: a long option, padding, then the
\* first octets of a message type or of an option that stretches past the datagram.
Filled(len, tail) ==
    <<12, 240>> \o [k \in 1..(len - 2 - Len(tail)) |-> PAD] \o tail

Largest ==
    {Datagram1(BOOTREQUEST, Filled(MaxLine - Header - 4 - left, tail), Short) :
        left \in 0..4,
        tail \in {<<PAD>>, <<53>>, <<53, 1>>, <<53, 1, 1>>,
                  <<53, 1, 3, 50>>, <<53, 1, 3, 50, 4, 10>>, <<53, 1, 3, 50, 5>>}}

AllDatagrams == Scrambled \cup Served \cup Filtered \cup Largest

\* An option of k octets, which look like END and PAD.
Sized(c, k) == [code |-> c, data |-> [j \in 1..k |-> IF j % 2 = 0 THEN PAD ELSE END]]

\* One option of a length around an octet's, the packet's and the block's, or two; and
\* codes an octet does not hold, or that mean something else.
Lists ==
    {<<>>} \cup {<<Sized(12, k)>> : k \in 0..2 \cup 254..260 \cup 267..270 \cup 273..276}
    \cup {<<Sized(12, 3), Sized(15, k)>> : k \in 251..256 \cup 262..265 \cup 268..271}
    \cup {<<Sized(12, k), Sized(15, 255)>> : k \in 0..2 \cup 10..12 \cup 17..19}
    \cup {<<Sized(c, k)>> : c \in {PAD, END, 255 + 13, -1}, k \in 0..2}

Offers == {Short}
Identifier == [code |-> 54, data |-> <<192, 166, 15, 227>>]
Leftovers == {<<0, 0, 0, 0>>, <<3, 1, 3, 1>>, <<53, 1, 1, 53>>}
===============================================================================
