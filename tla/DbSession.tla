------------------------------ MODULE DbSession -------------------------------
(* The connection to the database, below the statements of LeaseServer.        *)
(*                                                                             *)
(* main() opens one connection; every child gets a copy of the library's       *)
(* handle (db_conn) and, with it, the same socket.  A statement is a command    *)
(* written to the socket, and its answer is read packet by packet, a row when   *)
(* the code asks for it (mysql_use_result).  What the code must get right is    *)
(* that each answer is read to its end before the next command, on every path,  *)
(* and that a connection the server closed is replaced (MYSQL_OPT_RECONNECT and *)
(* mysql_ping).  LeaseServer takes both for granted.                           *)
(*                                                                             *)
(* The server and the client library are external: they are modelled by what    *)
(* the code in dhcp_db.c relies on.                                            *)
EXTENDS IpScan, Sequences

CONSTANTS
    Procs,       \* children that can be alive at the same time
    Inherited,   \* the connection opened by main()
    Closed,      \* no connection: the library has found it broken
    Lists,       \* the pairs <<startip, endip>> of the lists
    MaxRows,     \* bound on the rows of an answer (other than the scan's)
    MaxLosses,   \* bound on how often the server closes its connections
    Faults       \* "db": statements and answers may fail

Conns == {Inherited} \cup Procs

ASSUME ConnsAssumption == Inherited \notin Procs /\ Closed \notin Conns
ASSUME ListsAssumption ==
    Lists \subseteq Ips \X Ips /\ \A l \in Lists : l[1]..l[2] \subseteq Ips
ASSUME BoundsAssumption == MaxRows \in Nat /\ MaxLosses \in Nat /\ IsFiniteSet(Ips)

VARIABLES
    held,    \* the addresses that have a row in `leases'
    open,    \* the connections the server keeps open
    wire,    \* per connection, the packets sent by the server and not yet received
    losses,  \* how often connections were closed
    pc,      \* per child, the statement it runs
    phase,   \* per child, how far it is with the statement
    lib,     \* per child, its copy of db_conn
    loc      \* per child, its local variables

vars == <<held, open, wire, losses, pc, phase, lib, loc>>

-------------------------------------------------------------------------------
(* Statements                                                                  *)

\* Statements without a result set.
Commands == {"clrDelete", "storeDelete", "storeInsert", "storeLog", "update"}

\* Statements of which the first row is fetched, and those read in a loop.
Singles == {"conf", "offer", "find", "leaseTmpl", "ansTmpl"}
Loops == {"clrSelect", "scan", "leaseOpts", "ansOpts"}

Statements == Commands \cup Singles \cup Loops

MutantPinged == {"clrSelect", "offer", "scan", "storeDelete", "find",
                 "leaseOpts", "ansOpts"}

\* Statements that come after a mysql_ping.
Pinged == {"conf", "clrSelect", "offer", "scan", "storeDelete", "find",
           "leaseOpts", "ansOpts"}

FirstPhase(s) == IF s \in Pinged THEN "ping" ELSE "query"

Storing == {"storeDelete", "storeInsert", "storeLog"}

MutantStoreFollows(s, o) ==
    IF s = "storeLog" THEN "ansTmpl"
    ELSE IF o = "fail" THEN "storeDelete"
    ELSE IF s = "storeDelete" THEN "storeInsert" ELSE "storeLog"

\* store_offer: a failed log entry does no harm.
StoreFollows(s, o) ==
    IF s = "storeLog" THEN "ansTmpl"
    ELSE IF o = "fail" THEN "idle"
    ELSE IF s = "storeDelete" THEN "storeInsert" ELSE "storeLog"

\* The statement after s when s came out as o: "row" or "none" for the first row,
\* "done" for a command or a loop, "fail" when mysql_query returns an error.
\* "idle" is the end of the child.
Follows(type, s, o) ==
    CASE s = "conf"        -> IF o = "row" THEN "clrSelect"
                              ELSE IF o = "none" THEN "ansTmpl" ELSE "idle"
      [] s = "clrSelect" /\ o # "fail" -> "clrDelete"
      [] s = "clrDelete" \/ (s = "clrSelect" /\ o = "fail")
                           -> IF type = "discover" THEN "offer" ELSE "find"
      [] s = "offer"       -> IF o = "none" THEN "scan" ELSE "storeDelete"
      [] s = "scan"        -> "storeDelete"
      [] s \in Storing     -> StoreFollows(s, o)
      [] s = "find"        -> IF o = "row" THEN "leaseTmpl" ELSE "idle"
      [] s = "leaseTmpl"   -> IF o = "row" THEN "leaseOpts" ELSE "update"
      [] s = "leaseOpts"   -> "update"
      [] s = "update"      -> IF o = "fail" THEN "idle" ELSE "ansTmpl"
      [] s = "ansTmpl"     -> IF o = "row" THEN "ansOpts" ELSE "idle"
      [] s = "ansOpts"     -> "idle"

-------------------------------------------------------------------------------
(* Answers of the server                                                       *)

\* A packet: its kind, its number within the answer, the call it belongs to, and
\* the address in a row of the scan.
Packet == [kind: {"ok", "err", "head", "row", "eof"}, nr: Nat,
           of: Procs \X Statements \X {"ping", "query"}, val: Nat]

Numbered(answer, call) ==
    [k \in DOMAIN answer |->
        [kind |-> answer[k][1], nr |-> k, of |-> call, val |-> answer[k][2]]]

Plain(kind) == <<kind, 0>>

\* The addresses of a set from the lowest to the highest: order by ipaddr.
Ascending(S) ==
    {rows \in [1..Cardinality(S) -> S] :
        \A j, k \in DOMAIN rows : j < k => rows[j] < rows[k]}

\* What a result set may look like: a head, the rows, and how it ends.
RowSets(p) ==
    CASE pc[p] = "scan" -> Ascending(held \cap (loc[p].s..loc[p].e))
      [] pc[p] \in {"conf", "find", "leaseTmpl", "ansTmpl"} -> {<<>>, <<0>>}
      [] OTHER -> {[k \in 1..n |-> 0] : n \in 0..MaxRows}

Results(p) ==
    {<<Plain("head")>> \o [k \in DOMAIN rows |-> <<"row", rows[k]>>] \o <<Plain(end)>> :
        rows \in RowSets(p), end \in {"eof"} \cup (IF "db" \in Faults THEN {"err"} ELSE {})}

\* Without an address the insert of store_offer is always refused.
Answers(p) ==
    LET ok  == IF pc[p] = "storeInsert" /\ loc[p].ip = NoIp THEN {} ELSE {<<Plain("ok")>>}
        err == IF "db" \in Faults \/ ok = {} THEN {<<Plain("err")>>} ELSE {}
    IN  IF phase[p] = "ping" THEN {<<Plain("ok")>>}
        ELSE err \cup (IF pc[p] \in Commands THEN ok ELSE Results(p))

-------------------------------------------------------------------------------
(* The library and the code around it                                          *)

\* The part of db_conn that matters: the connection, what was received and not
\* looked at yet, the number of the next packet, and whether an answer is unread.
Handle == [conn: Conns \cup {Closed}, buf: Seq(Packet), nr: Nat, unread: BOOLEAN]

NewHandle == [conn |-> Inherited, buf |-> <<>>, nr |-> 1, unread |-> FALSE]

Locals == [type: {"discover", "request"}, s: Nat, e: Nat, scan: Scanning,
           ip: Ips \cup {NoIp}, scanned: BOOLEAN, hit: BOOLEAN]

NoLocals == [type |-> "discover", s |-> 0, e |-> 0, scan |-> ScanStart,
             ip |-> NoIp, scanned |-> FALSE, hit |-> FALSE]

\* The statement of p came out as o: on to the next one, or to the end of the
\* child, which closes a connection of its own and no other.
Advance(p, o, h, l) ==
    LET next == Follows(loc[p].type, pc[p], o) IN
    /\ pc' = [pc EXCEPT ![p] = next]
    /\ phase' = [phase EXCEPT ![p] = IF next = "idle" THEN "none" ELSE FirstPhase(next)]
    /\ lib' = [lib EXCEPT ![p] = IF next = "idle" THEN NewHandle ELSE h]
    /\ loc' = [loc EXCEPT ![p] = IF next = "idle" THEN NoLocals ELSE l]
    /\ open' = IF next = "idle" THEN open \ {p} ELSE open

\* The process is killed in the middle of its work.
Die(p) ==
    /\ pc' = [pc EXCEPT ![p] = "idle"]
    /\ phase' = [phase EXCEPT ![p] = "none"]
    /\ lib' = [lib EXCEPT ![p] = NewHandle]
    /\ loc' = [loc EXCEPT ![p] = NoLocals]
    /\ open' = open \ {p}

Stay(p, ph, h) ==
    /\ phase' = [phase EXCEPT ![p] = ph]
    /\ lib' = [lib EXCEPT ![p] = h]
    /\ UNCHANGED <<open, pc>>

\* The listener forks a child for a datagram.
Fork(p) ==
    /\ pc[p] = "idle"
    /\ \E type \in {"discover", "request"}, list \in Lists :
        LET first == IF type = "discover" THEN "conf" ELSE "clrSelect" IN
        /\ pc' = [pc EXCEPT ![p] = first]
        /\ phase' = [phase EXCEPT ![p] = FirstPhase(first)]
        /\ loc' = [loc EXCEPT ![p] = [NoLocals EXCEPT !.type = type,
                                          !.s = list[1], !.e = list[2]]]
        /\ lib' = [lib EXCEPT ![p] = NewHandle]
        /\ wire' = [wire EXCEPT ![p] = <<>>]
    /\ UNCHANGED <<held, open, losses>>

\* The phase in which the answer to a call is awaited.
Waiting == [ping |-> "pong", query |-> "answer"]

\* mysql_ping or mysql_query, the first half: the command is written.  The server
\* may have closed the connection and the write go through all the same; or the
\* library notices and opens a connection for this process (Reconnect).  As long
\* as an answer is unread it refuses the command (out of sync).
Call(p) ==
    /\ phase[p] \in {"ping", "query"}
    /\ \/ /\ ~lib[p].unread
          /\ lib[p].conn \in open
          /\ \E answer \in Answers(p) :
                wire' = [wire EXCEPT ![lib[p].conn] =
                            @ \o Numbered(answer, <<p, pc[p], phase[p]>>)]
          /\ Stay(p, Waiting[phase[p]], [lib[p] EXCEPT !.nr = 1])
          /\ UNCHANGED loc
       \/ /\ ~lib[p].unread
          /\ lib[p].conn \in Conns \ open
          /\ Stay(p, Waiting[phase[p]], [lib[p] EXCEPT !.nr = 1])
          /\ UNCHANGED <<wire, loc>>
       \/ /\ lib[p].unread
          /\ IF phase[p] = "ping"
             THEN Stay(p, "query", lib[p]) /\ UNCHANGED loc
             ELSE Advance(p, "fail", lib[p], loc[p])
          /\ UNCHANGED wire
    /\ UNCHANGED <<held, losses>>

\* The attempt fails when the server is not there (yet).
Reconnect(p) ==
    LET none == [NewHandle EXCEPT !.conn = Closed] IN
    /\ phase[p] \in {"ping", "query"}
    /\ ~lib[p].unread
    /\ lib[p].conn \notin open
    /\ \/ /\ open' = open \cup {p}
          /\ wire' = [wire EXCEPT ![p] = <<>>]
          /\ lib' = [lib EXCEPT ![p] = [NewHandle EXCEPT !.conn = p]]
          /\ UNCHANGED <<pc, phase, loc>>
       \/ /\ "db" \in Faults
          /\ IF phase[p] = "ping"
             THEN Stay(p, "query", none) /\ UNCHANGED loc
             ELSE Advance(p, "fail", none, loc[p])
          /\ UNCHANGED wire
    /\ UNCHANGED <<held, losses>>

Awaits(p) == phase[p] \in {"pong", "answer", "fetch", "free"}

\* The library reads from the socket: some of what has arrived, whole packets.
Receive(p) ==
    LET c == lib[p].conn IN
    /\ Awaits(p)
    /\ lib[p].buf = <<>>
    /\ c # Closed
    /\ \E n \in 1..Len(wire[c]) :
        /\ lib' = [lib EXCEPT ![p].buf = SubSeq(wire[c], 1, n)]
        /\ wire' = [wire EXCEPT ![c] = SubSeq(@, n + 1, Len(@))]
    /\ UNCHANGED <<held, open, losses, pc, phase, loc>>

\* The next packet has the number the library expects.
InTurn(p) ==
    /\ lib[p].buf # <<>>
    /\ Head(lib[p].buf).nr = lib[p].nr

Rest(p) == [lib[p] EXCEPT !.buf = Tail(@), !.nr = @ + 1]

\* The answer to a ping; the code does not look at it.
Pong(p) ==
    /\ phase[p] = "pong"
    /\ InTurn(p)
    /\ Stay(p, "query", Rest(p))
    /\ UNCHANGED <<held, losses, wire, loc>>

\* mysql_query reads the first packet.  When a select is answered like a command,
\* mysql_use_result returns NULL and fetching from it kills the process.
Answer(p) ==
    LET kind == Head(lib[p].buf).kind
        expected == IF pc[p] \in Commands THEN "ok" ELSE "head"
    IN
    /\ phase[p] = "answer"
    /\ InTurn(p)
    /\ \/ kind = "err" /\ Advance(p, "fail", Rest(p), loc[p])
       \/ kind = "ok" /\ expected = "ok" /\ Advance(p, "done", Rest(p), loc[p])
       \/ kind = "ok" /\ expected = "head" /\ Die(p)
       \/ /\ kind = "head" /\ expected = "head"
          /\ Stay(p, "fetch", [Rest(p) EXCEPT !.unread = TRUE])
          /\ loc' = [loc EXCEPT ![p].scan = ScanStart]
       \/ /\ kind = "head" /\ expected = "ok"
          /\ Advance(p, "done", [Rest(p) EXCEPT !.unread = TRUE], loc[p])
    /\ UNCHANGED <<held, losses, wire>>

\* The address an offer will store, for each way the search can end.
Chosen(p, scan) ==
    [loc[p] EXCEPT !.ip = ScanResult(scan, loc[p].s, loc[p].e), !.scanned = TRUE]

MutantFetchRow(p) ==
    LET scan == ScanRow(loc[p].scan, loc[p].s, Head(lib[p].buf).val) IN
    /\ phase[p] = "fetch"
    /\ InTurn(p)
    /\ Head(lib[p].buf).kind = "row"
    /\ \/ /\ pc[p] \in Singles
          /\ Advance(p, "row", Rest(p), [loc[p] EXCEPT !.ip = IF pc[p] = "offer" THEN loc[p].s ELSE @])
       \/ /\ pc[p] = "scan"
          /\ Stay(p, IF scan.more THEN "fetch" ELSE "free", Rest(p))
          /\ loc' = [loc EXCEPT ![p].scan = scan]
       \/ /\ pc[p] \in Loops \ {"scan"}
          /\ Stay(p, "fetch", Rest(p))
          /\ UNCHANGED loc
    /\ UNCHANGED <<held, losses, wire>>

\* mysql_fetch_row returns a row.  Where one is enough, or the scan breaks off,
\* mysql_free_result comes next.
FetchRow(p) ==
    LET scan == ScanRow(loc[p].scan, loc[p].s, Head(lib[p].buf).val) IN
    /\ phase[p] = "fetch"
    /\ InTurn(p)
    /\ Head(lib[p].buf).kind = "row"
    /\ \/ /\ pc[p] \in Singles
          /\ Stay(p, "free", Rest(p))
          /\ loc' = [loc EXCEPT ![p].ip = IF pc[p] = "offer" THEN loc[p].s ELSE @]
       \/ /\ pc[p] = "scan"
          /\ Stay(p, IF scan.more THEN "fetch" ELSE "free", Rest(p))
          /\ loc' = [loc EXCEPT ![p].scan = scan]
       \/ /\ pc[p] \in Loops \ {"scan"}
          /\ Stay(p, "fetch", Rest(p))
          /\ UNCHANGED loc
    /\ UNCHANGED <<held, losses, wire>>

Read(p) == [Rest(p) EXCEPT !.unread = FALSE]

\* mysql_fetch_row returns NULL: at the end of the rows, and just the same when
\* the server breaks the answer off with an error.  A scan that was broken off
\* is not marked as scanned.
FetchEnd(p) ==
    LET whole == Head(lib[p].buf).kind = "eof"
        found == [Chosen(p, loc[p].scan) EXCEPT !.scanned = whole]
    IN
    /\ phase[p] = "fetch"
    /\ InTurn(p)
    /\ Head(lib[p].buf).kind \in {"eof", "err"}
    /\ Advance(p, IF pc[p] \in Singles THEN "none" ELSE "done", Read(p),
               IF pc[p] = "scan" THEN found ELSE loc[p])
    /\ UNCHANGED <<held, losses, wire>>

\* mysql_free_result reads what is left of the answer.
Free(p) ==
    /\ phase[p] = "free"
    /\ InTurn(p)
    /\ IF Head(lib[p].buf).kind = "row"
       THEN Stay(p, "free", Rest(p)) /\ UNCHANGED loc
       ELSE Advance(p, IF pc[p] \in Singles THEN "row" ELSE "done", Read(p),
                    IF pc[p] = "scan" THEN Chosen(p, loc[p].scan) ELSE loc[p])
    /\ UNCHANGED <<held, losses, wire>>

\* The connection turns out to be closed by the server, or delivers a packet with
\* another number than expected: the library closes it.  A ping is repeated on a
\* new connection; a statement fails; rows end here.
Broken(p) ==
    LET h == [lib[p] EXCEPT !.conn = Closed, !.buf = <<>>, !.unread = FALSE]
        rows == IF phase[p] = "free" /\ pc[p] \in Singles THEN "row"
                ELSE IF pc[p] \in Singles THEN "none" ELSE "done"
    IN
    /\ Awaits(p)
    /\ \/ /\ lib[p].buf = <<>>
          /\ lib[p].conn \notin open
          /\ lib[p].conn # Closed => wire[lib[p].conn] = <<>>
       \/ lib[p].buf # <<>> /\ ~InTurn(p)
    /\ \/ phase[p] = "pong" /\ Stay(p, "query", h) /\ UNCHANGED loc
       \/ phase[p] = "answer" /\ Advance(p, "fail", h, loc[p])
       \/ phase[p] \in {"fetch", "free"} /\ Advance(p, rows, h,
                IF pc[p] = "scan"
                THEN [Chosen(p, loc[p].scan) EXCEPT !.scanned = phase[p] = "free"]
                ELSE loc[p])
    /\ UNCHANGED <<held, losses, wire>>

\* request_ip releases an option twice and may be aborted by the allocator.
Abort(p) ==
    /\ pc[p] = "update"
    /\ phase[p] = "query"
    /\ Die(p)
    /\ UNCHANGED <<held, losses, wire>>

\* The server closes its connections: a restart, or a long time without commands.
\* What it has sent may be lost on the way.
Lose ==
    /\ losses < MaxLosses
    /\ losses' = losses + 1
    /\ open' = {}
    /\ \E kept \in [Conns -> 0..(MaxRows + Cardinality(Ips) + 2)] :
        /\ \A c \in Conns : kept[c] <= Len(wire[c])
        /\ wire' = [c \in Conns |-> SubSeq(wire[c], 1, kept[c])]
    /\ loc' = [p \in Procs |-> [loc[p] EXCEPT !.hit = pc[p] # "idle"]]
    /\ UNCHANGED <<held, pc, phase, lib>>

-------------------------------------------------------------------------------

Init ==
    /\ held \in SUBSET Ips
    /\ open = {Inherited}
    /\ wire = [c \in Conns |-> <<>>]
    /\ losses = 0
    /\ pc = [p \in Procs |-> "idle"]
    /\ phase = [p \in Procs |-> "none"]
    /\ lib = [p \in Procs |-> NewHandle]
    /\ loc = [p \in Procs |-> NoLocals]

Step(p) ==
    \/ Call(p) \/ Reconnect(p) \/ Receive(p)
    \/ Pong(p) \/ Answer(p) \/ FetchRow(p) \/ FetchEnd(p) \/ Free(p)
    \/ Broken(p) \/ Abort(p)

Next ==
    \/ \E p \in Procs : Fork(p) \/ Step(p)
    \/ Lose

\* A child that can go on goes on: it is a process of its own and waits for
\* nothing but the server's answer, which is on the wire or will not come.
Spec == Init /\ [][Next]_vars /\ \A p \in Procs : WF_vars(Step(p))

-------------------------------------------------------------------------------
(* Properties                                                                  *)

\* The variables have the types of the table's addresses, the packets and the
\* locals of a child.
TypeOK ==
    /\ held \subseteq Ips
    /\ open \subseteq Conns
    /\ wire \in [Conns -> Seq(Packet)]
    /\ losses \in 0..MaxLosses
    /\ pc \in [Procs -> Statements \cup {"idle"}]
    /\ phase \in [Procs -> {"none", "ping", "pong", "query", "answer", "fetch", "free"}]
    /\ lib \in [Procs -> Handle]
    /\ loc \in [Procs -> Locals]

\* While children do not overlap: on every path of every handler, also when
\* answers are cut short, connections lost and children aborted, a command is sent
\* and a child ends only with nothing unread, in the library or on the connection
\* that the next child inherits.  offer_ip starts the scan before it releases its
\* own result, which is right only because it has met the end of it.
InSync ==
    \A p \in Procs :
        phase[p] \in {"none", "ping", "query"} =>
            /\ ~lib[p].unread
            /\ lib[p].buf = <<>>
            /\ lib[p].conn # Closed => wire[lib[p].conn] = <<>>

ThisCall(p) == <<p, pc[p], IF phase[p] = "pong" THEN "ping" ELSE "query">>

\* While children do not overlap, what a child reads as the answer to a statement
\* is the answer to that statement and not to an earlier one, its own or that of
\* a child that ended in between.
OwnReply ==
    \A p \in Procs :
        Awaits(p) /\ lib[p].buf # <<>> => Head(lib[p].buf).of = ThisCall(p)

\* The loop of dhcpv4_db_offer_dyn_ip, whenever it sees all the rows or breaks off
\* by itself, chooses the address that LeaseTable!DynIp says: one that has no row.
ScanRight ==
    \A p \in Procs :
        pc[p] = "storeDelete" /\ loc[p].scanned =>
            loc[p].ip = FreeAddress(held \cap (loc[p].s..loc[p].e), loc[p].s, loc[p].e)

\* While children do not overlap, a connection that the server closed before a
\* child started costs that child nothing: mysql_ping stands before the first
\* statement of every handler, so no statement is written to a dead connection
\* and fails unless the connection was lost under the child's hands.
LossRepaired ==
    \A p \in Procs :
        phase[p] \in {"answer", "fetch", "free"} /\ lib[p].conn \notin open => loc[p].hit

\* Every child ends, whatever fails: it never waits for an answer that does not
\* come, as long as no other child reads from the same connection.
ChildEnds == \A p \in Procs : pc[p] # "idle" ~> pc[p] = "idle"

\* dhcp_db.c:25: db_options returns the options for the lease of the given
\* address.  The rows it reads are those of its own query.
OptionsOfOwnLease ==
    \A p \in Procs :
        /\ pc[p] \in {"ansTmpl", "ansOpts"}
        /\ phase[p] = "fetch"
        /\ InTurn(p)
        /\ Head(lib[p].buf).kind = "row"
        => Head(lib[p].buf).of = ThisCall(p)
===============================================================================
