------------------------------ MODULE LeaseTable ------------------------------
(* The MySQL table `leases' of sql/structure.sql and the statements of         *)
(* dhcp_db.c that read or write it, one operator per statement.                *)
(*                                                                             *)
(* A table maps every address to its row, or to NoRow: UNIQUE KEY ipaddr makes *)
(* the address the key.  Addresses are numbers, as INET_ATON stores them.      *)
(* The columns int_mask and offered_from are left out: no statement of the     *)
(* daemon reads them.                                                          *)
EXTENDS Integers, FiniteSets

CONSTANTS
    Ips,        \* the addresses that can appear in the table
    Ifaces,     \* names of the network interfaces clients sit behind
    Macs,       \* hardware addresses (chaddr)
    Nas,        \* the access servers that share the table (NAS_ID)
    Templates,  \* ids of option templates
    NoRow       \* "this address has no row"

NoIp == 0       \* no address: NULL, the empty string or 0.0.0.0 in the code

Row == [iface: Ifaces, tmpl: Templates, till: Int,
        state: {"offered", "allocated"}, mac: Macs,
        static: BOOLEAN, nas: Nas, routed: BOOLEAN]

ASSUME IpsAssumption == Ips \subseteq Nat \ {NoIp}
ASSUME NoRowAssumption == NoRow \notin Row

Table == [Ips -> Row \cup {NoRow}]

EmptyTable == [ip \in Ips |-> NoRow]

Leased(T) == {ip \in Ips : T[ip] # NoRow}

-------------------------------------------------------------------------------

\* Operators named Mutant... are wrong on purpose: each is the operator after it
\* with a slip the statement could have, and shows that the checks would see it.

MutantExpired(T, n, t) == {ip \in Leased(T) : T[ip].nas = n /\ T[ip].till < t}

\* where nasid=n and static=0 and offered_till < t
Expired(T, n, t) ==
    {ip \in Leased(T) : T[ip].nas = n /\ ~T[ip].static /\ T[ip].till < t}

\* delete from leases where nasid=n and static=0 and offered_till < t
ClearExpired(T, n, t) ==
    [ip \in Ips |-> IF ip \in Expired(T, n, t) THEN NoRow ELSE T[ip]]

\* delete from leases where ipaddr=ip
DeleteIp(T, ip) == [T EXCEPT ![ip] = NoRow]

MutantHasRow(T, i, ip) == ip \in Leased(T)
MutantHasConfirmed(T, i, ip) ==
    ip \in Leased(T) /\ T[ip].iface = i /\ T[ip].state = "allocated"

\* ... where ipaddr=ip and interface=i
HasRow(T, i, ip) == ip \in Leased(T) /\ T[ip].iface = i

MutantHeldByAnyone(T, i, s, e) == Leased(T) \cap (s..e)
MutantHeldAbove(T, i, s, e) == {ip \in Leased(T) : ip > s /\ ip <= e /\ T[ip].iface = i}

\* ... where ipaddr >= s and ipaddr <= e and interface = i
HeldBy(T, i, s, e) == {ip \in Leased(T) : ip \in s..e /\ T[ip].iface = i}

\* UNIQUE KEY chaddr: some row other than that of ip has the hardware address m
MacElsewhere(T, ip, m) == \E q \in Leased(T) \ {ip} : T[q].mac = m

MutantCanInsert(T, ip, row) == T[ip] = NoRow

\* insert into leases: refused when a unique key is taken
CanInsert(T, ip, row) == T[ip] = NoRow /\ ~MacElsewhere(T, ip, row.mac)

MutantAllocated(row, m, till) == [row EXCEPT !.state = "allocated", !.mac = m]

\* The row an UPDATE of a confirmed lease leaves behind.
Allocated(row, m, till) ==
    [row EXCEPT !.state = "allocated", !.mac = m, !.till = till]

\* update leases set state=ALLOCATED, chaddr=m, offered_till=till
\*   where interface=i
\* The condition names the interface alone, so every row of i is rewritten.  The
\* rows are taken in an order the statement does not fix and chaddr is unique:
\* MyISAM keeps what it changed before the first refusal, so at most the first
\* row is written, and with a second row the statement fails.
Confirm(T, i, m, till) ==
    LET mine == {ip \in Leased(T) : T[ip].iface = i} IN
    IF mine = {} THEN {[table |-> T, ok |-> TRUE]}
    ELSE {IF MacElsewhere(T, ip, m)
          THEN [table |-> T, ok |-> FALSE]
          ELSE [table |-> [T EXCEPT ![ip] = Allocated(@, m, till)],
                ok    |-> mine = {ip}]
             : ip \in mine}

-------------------------------------------------------------------------------

\* dhcpv4_db_offer_dyn_ip: the address chosen from the list s..e.  The rows of
\* the list are read in ascending order.  Without a row for s the answer is s;
\* otherwise the run of leased addresses that starts at s is followed to its end
\* p, and the answer is the address just below the next row, or p + 1 when there
\* is none.  An answer above e means that the list is exhausted.
RunEnd(L, s) == CHOOSE p \in L : s <= p /\ s..p \subseteq L /\ p + 1 \notin L

LeastAbove(L, p) == CHOOSE q \in L : q > p /\ \A r \in L : r > p => q <= r

FirstGap(L, s) ==
    LET p == RunEnd(L, s) IN
    IF \E q \in L : q > p THEN LeastAbove(L, p) - 1 ELSE p + 1

\* L: the leased addresses of the list.
FreeAddress(L, s, e) ==
    LET free == IF s \in L THEN FirstGap(L, s) ELSE s
    IN  IF free > e THEN NoIp ELSE free

MutantDynIp(T, s, e) == IF s \in Leased(T) THEN FirstGap(Leased(T) \cap (s..e), s) ELSE s

DynIp(T, s, e) == FreeAddress(Leased(T) \cap (s..e), s, e)
===============================================================================
