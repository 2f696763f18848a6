------------------------------ MODULE LeaseServer ------------------------------
(* The daemon.  The listener forks a child for every datagram; a child runs    *)
(* dhcpv4_process_discover or dhcpv4_process_request to its end, talking to    *)
(* the database and to the kernel's routing table, and leaves.  Children of    *)
(* one daemon, and daemons that share the database, interleave between any two *)
(* statements: one action here is one SQL statement or one netlink request.    *)
(*                                                                             *)
(* What datagrams arrive is left open (any member of Datagrams, any number of  *)
(* times), which covers retransmission, duplication and delay.                 *)
EXTENDS LeaseTable, RouteTable

CONSTANTS
    Procs,         \* children that can be alive at the same time
    Datagrams,     \* the datagrams the clients may send
    ConfChoices,   \* per interface, what `interfaces' joined with `iplists' may say
    NoConf,        \* "no configuration row matches the interface"
    TemplateRows,  \* per template, its rows of options_template_data in read order
    OfferTime,     \* OFFER_LEASE_TIME
    DefaultLease,  \* DEFAULT_LEASE_TIME
    Word,          \* 2^32: option data holds lease times as 32-bit numbers
    MaxTime,       \* bound on the clock
    Faults,        \* the faults that may happen: "db", "broken", "stop", "reboot"
    Nil            \* "no datagram"

VARIABLES
    leases,        \* the table `leases'
    routes,        \* per server and address, the kernel's routes to it
    conf,          \* per interface, the configuration row that matches it
    now,           \* time(), in seconds
    up,            \* the servers that listen
    pc,            \* per child, the statement it is about to run
    dg,            \* per child, the datagram it serves
    loc            \* per child, its local variables

vars == <<leases, routes, conf, now, up, pc, dg, loc>>

-------------------------------------------------------------------------------
(* Types and constants                                                         *)

Datagram == [type: {"discover", "request"}, nas: Nas, iface: Ifaces,
             mac: Macs, ip: Ips \cup {NoIp}]

\* main() clears the table once before it listens, like a child with no datagram.
Startup == [type: {"boot"}, nas: Nas]

PoolConf == [s: Nat, e: Nat, static: BOOLEAN, routed: BOOLEAN, ptp: BOOLEAN,
             tmpl: Templates]

OptRow == [code: {"leasetime", "other"}, number: BOOLEAN, val: 0..(Word - 1)]

ASSUME DatagramsAssumption == Datagrams \subseteq Datagram
ASSUME ConfAssumption ==
    /\ ConfChoices \in [Ifaces -> SUBSET (PoolConf \cup {NoConf})]
    /\ NoConf \notin PoolConf
    /\ \A i \in Ifaces : \A c \in ConfChoices[i] \ {NoConf} : c.s..c.e \subseteq Ips
ASSUME TemplateAssumption == TemplateRows \in [Templates -> Seq(OptRow)]
ASSUME TimesAssumption ==
    OfferTime \in Nat /\ DefaultLease \in Nat /\ MaxTime \in Nat /\ Word \in Nat
ASSUME NilAssumption == Nil \notin Datagram \cup Startup

Common == {"clrSelect", "clrRoutes"}
Discovering == {"conf", "offer", "scan", "storeDelete", "storeInsert"}
Requesting == {"find", "lease", "update", "rtDelete", "rtAdd"}
Labels == {"idle", "opts", "send"} \cup Common \cup Discovering \cup Requesting

\* cut is no variable of the code: it remembers that the address was looked for
\* in an answer that broke off.
Locals == [ip: Ips \cup {NoIp}, t: Nat, todo: SUBSET Ips,
           pool: PoolConf \cup {NoConf}, till: Int,
           static: BOOLEAN, routed: BOOLEAN,
           reply: {"none", "offer", "ack", "nak", "decline"}, told: Nat,
           cut: BOOLEAN]

NoLocals == [ip |-> NoIp, t |-> 0, todo |-> {}, pool |-> NoConf, till |-> 0,
             static |-> FALSE, routed |-> FALSE, reply |-> "none", told |-> 0,
             cut |-> FALSE]

-------------------------------------------------------------------------------
(* dhcpv4_db_options.  A row of type NUMBER does not assign the list it grows, *)
(* so rows of that type are lost as long as the list is NULL.                  *)

Appended(tmpl, isNull) ==
    {k \in DOMAIN TemplateRows[tmpl] :
        isNull => \E j \in 1..k : ~TemplateRows[tmpl][j].number}

LeaseOpts(tmpl, isNull) ==
    {k \in Appended(tmpl, isNull) : TemplateRows[tmpl][k].code = "leasetime"}

\* The lease time in the list, found by dhcpv4_find_option; 0 when there is none.
\* (UNIQUE KEY tc: a template has a code at most once.)
LeaseIn(tmpl, isNull) ==
    IF LeaseOpts(tmpl, isNull) = {} THEN 0
    ELSE TemplateRows[tmpl][CHOOSE k \in LeaseOpts(tmpl, isNull) : TRUE].val

\* The lease time is the first element of the list that was NULL.
LeaseIsFirst(tmpl) ==
    \E k \in LeaseOpts(tmpl, TRUE) : \A j \in Appended(tmpl, TRUE) : k <= j

-------------------------------------------------------------------------------
(* Steps of a child                                                            *)

Goto(p, l) == pc' = [pc EXCEPT ![p] = l]

Exit(p) ==
    /\ Goto(p, "idle")
    /\ dg' = [dg EXCEPT ![p] = Nil]
    /\ loc' = [loc EXCEPT ![p] = NoLocals]

\* discover_ip or request_ip returns: its locals are gone, the address and the
\* type of the answer stay.
Return(p, type, l) ==
    /\ Goto(p, l)
    /\ loc' = [loc EXCEPT ![p] = [NoLocals EXCEPT !.ip = loc[p].ip, !.reply = type]]

\* Where a child goes on after dhcpv4_db_clear_leases.
ClearDone(p) ==
    IF dg[p].type = "boot"
    THEN up' = up \cup {dg[p].nas} /\ Exit(p)
    ELSE /\ Goto(p, IF dg[p].type = "discover" THEN "offer" ELSE "find")
         /\ loc' = [loc EXCEPT ![p].t = 0, ![p].todo = {}]
         /\ UNCHANGED <<up, dg>>

\* listener: a datagram arrives and a child is forked for it.  A DISCOVER first
\* reads the configuration, a REQUEST first clears the table.
Fork(p, d) ==
    /\ d.nas \in up
    /\ pc[p] = "idle"
    /\ Goto(p, IF d.type = "discover" THEN "conf" ELSE "clrSelect")
    /\ dg' = [dg EXCEPT ![p] = d]
    /\ loc' = [loc EXCEPT ![p].ip = IF d.type = "request" THEN d.ip ELSE NoIp]
    /\ UNCHANGED <<leases, routes, conf, now, up>>

\* dhcpv4_discover_ip: the row of `interfaces' with its list.  Without one the
\* function returns 1 and leaves the address empty.
ReadConf(p) ==
    LET c == conf[dg[p].iface] IN
    /\ pc[p] = "conf"
    /\ IF c = NoConf
       THEN Return(p, "offer", "opts")
       ELSE /\ Goto(p, "clrSelect")
            /\ loc' = [loc EXCEPT ![p].pool = [c EXCEPT !.static = c.static /\ c.ptp]]
    /\ UNCHANGED <<leases, routes, conf, now, up, dg>>

\* dhcpv4_db_clear_leases, in three: the select with the clock read before it,
\* a route removed for every allocated row it returned, the delete.
ClearSelect(p) ==
    /\ pc[p] = "clrSelect"
    /\ Goto(p, "clrRoutes")
    /\ loc' = [loc EXCEPT
            ![p].t = now,
            ![p].todo = {ip \in Expired(leases, dg[p].nas, now) :
                            leases[ip].state = "allocated"}]
    /\ UNCHANGED <<leases, routes, conf, now, up, dg>>

ClearRoute(p) ==
    /\ pc[p] = "clrRoutes"
    /\ \E ip \in loc[p].todo :
        /\ routes' = [routes EXCEPT ![dg[p].nas][ip] = RouteDelete(@)]
        /\ loc' = [loc EXCEPT ![p].todo = @ \ {ip}]
    /\ UNCHANGED <<leases, conf, now, up, pc, dg>>

ClearDelete(p) ==
    /\ pc[p] = "clrRoutes"
    /\ loc[p].todo = {}
    /\ leases' = ClearExpired(leases, dg[p].nas, loc[p].t)
    /\ ClearDone(p)
    /\ UNCHANGED <<routes, conf, now>>

\* dhcpv4_db_offer_ip: an address of the list that the interface holds, if any.
\* (How this and the scan go wrong on an answer that breaks off: AnswerBreaks and
\* ScanBreaks.)
OfferHeld(p) ==
    LET held == HeldBy(leases, dg[p].iface, loc[p].pool.s, loc[p].pool.e) IN
    /\ pc[p] = "offer"
    /\ \/ \E ip \in held : /\ Goto(p, "storeDelete")
                           /\ loc' = [loc EXCEPT ![p].ip = ip]
       \/ held = {} /\ Goto(p, "scan") /\ UNCHANGED loc
    /\ UNCHANGED <<leases, routes, conf, now, up, dg>>

\* dhcpv4_db_offer_dyn_ip; with no address left store_offer is given NULL, its
\* insert is refused and no answer is sent.
Scan(p) ==
    LET ip == DynIp(leases, loc[p].pool.s, loc[p].pool.e) IN
    /\ pc[p] = "scan"
    /\ IF ip = NoIp
       THEN Exit(p)
       ELSE /\ Goto(p, "storeDelete")
            /\ loc' = [loc EXCEPT ![p].ip = ip]
            /\ UNCHANGED dg
    /\ UNCHANGED <<leases, routes, conf, now, up>>

\* dhcpv4_db_store_offer: delete, then insert.  (The copy it writes to leases_log
\* is never read and is left out.)
StoreDelete(p) ==
    /\ pc[p] = "storeDelete"
    /\ leases' = DeleteIp(leases, loc[p].ip)
    /\ loc' = [loc EXCEPT ![p].till = now + OfferTime]
    /\ Goto(p, "storeInsert")
    /\ UNCHANGED <<routes, conf, now, up, dg>>

OfferedRow(p) ==
    [iface |-> dg[p].iface, tmpl |-> loc[p].pool.tmpl, till |-> loc[p].till,
     state |-> "offered", mac |-> dg[p].mac, static |-> loc[p].pool.static,
     nas |-> dg[p].nas, routed |-> loc[p].pool.routed]

StoreInsert(p) ==
    /\ pc[p] = "storeInsert"
    /\ IF CanInsert(leases, loc[p].ip, OfferedRow(p))
       THEN /\ leases' = [leases EXCEPT ![loc[p].ip] = OfferedRow(p)]
            /\ Return(p, "offer", "opts")
            /\ UNCHANGED dg
       ELSE Exit(p) /\ UNCHANGED leases
    /\ UNCHANGED <<routes, conf, now, up>>

\* dhcpv4_request_ip: the row of the requested address at this interface.
Find(p) ==
    LET ip == loc[p].ip IN
    /\ pc[p] = "find"
    /\ IF HasRow(leases, dg[p].iface, ip)
       THEN /\ Goto(p, "lease")
            /\ loc' = [loc EXCEPT ![p].static = leases[ip].static,
                                  ![p].routed = leases[ip].routed]
       ELSE Return(p, "nak", "send")
    /\ UNCHANGED <<leases, routes, conf, now, up, dg>>

\* nhgetl puts the octets together in an int and returns it as an unsigned long:
\* added to the time, the upper half of the 32-bit numbers counts backwards.
Signed(w) == IF 2 * w < Word THEN w ELSE w - Word

\* The lease time to store: that of the row's template, read with a NULL list,
\* or the default.  A lease time found in the first element is freed twice, after
\* which the process may be aborted.
StoredLease(ip) ==
    IF ip \in Leased(leases) /\ LeaseOpts(leases[ip].tmpl, TRUE) # {}
    THEN Signed(LeaseIn(leases[ip].tmpl, TRUE))
    ELSE DefaultLease

ReadLease(p) ==
    LET ip == loc[p].ip IN
    /\ pc[p] = "lease"
    /\ \/ /\ Goto(p, "update")
          /\ loc' = [loc EXCEPT ![p].till = now + StoredLease(ip)]
          /\ UNCHANGED dg
       \/ /\ ip \in Leased(leases) /\ LeaseIsFirst(leases[ip].tmpl)
          /\ Exit(p)
    /\ UNCHANGED <<leases, routes, conf, now, up>>

Update(p) ==
    /\ pc[p] = "update"
    /\ \E r \in Confirm(leases, dg[p].iface, dg[p].mac, loc[p].till) :
        /\ leases' = r.table
        /\ IF r.ok THEN Goto(p, "rtDelete") /\ UNCHANGED loc
                   ELSE Return(p, "decline", "send")
    /\ UNCHANGED <<routes, conf, now, up, dg>>

\* The route of a static lease is removed, then a routed lease gets its route.
RequestRouteDelete(p) ==
    /\ pc[p] = "rtDelete"
    /\ routes' = IF loc[p].static
                 THEN [routes EXCEPT ![dg[p].nas][loc[p].ip] = RouteDelete(@)]
                 ELSE routes
    /\ Goto(p, "rtAdd")
    /\ UNCHANGED <<leases, conf, now, up, dg, loc>>

MutantRequestRouteAdd(p) ==
    /\ pc[p] = "rtAdd"
    /\ routes' = IF loc[p].routed /\ ~loc[p].static
                 THEN [routes EXCEPT ![dg[p].nas][loc[p].ip] = RouteAdd(@, dg[p].iface)]
                 ELSE routes
    /\ Return(p, "ack", "opts")
    /\ UNCHANGED <<leases, conf, now, up, dg>>

RequestRouteAdd(p) ==
    /\ pc[p] = "rtAdd"
    /\ routes' = IF loc[p].routed
                 THEN [routes EXCEPT ![dg[p].nas][loc[p].ip] = RouteAdd(@, dg[p].iface)]
                 ELSE routes
    /\ Return(p, "ack", "opts")
    /\ UNCHANGED <<leases, conf, now, up, dg>>

\* The options of the answer.  When the lease has no row the list that already
\* holds the message type is given up, and the answer carries neither.
ReadOptions(p) ==
    LET ip == loc[p].ip IN
    /\ pc[p] = "opts"
    /\ Goto(p, "send")
    /\ loc' = IF ip \in Leased(leases)
              THEN [loc EXCEPT ![p].told = LeaseIn(leases[ip].tmpl, FALSE)]
              ELSE [loc EXCEPT ![p].reply = "none"]
    /\ UNCHANGED <<leases, routes, conf, now, up, dg>>

\* sendwith_flags, and the end of the child.  (With EXEC_EXTERNAL a grandchild
\* has been started for an ACK; it touches none of this state.)
Send(p) ==
    /\ pc[p] = "send"
    /\ Exit(p)
    /\ UNCHANGED <<leases, routes, conf, now, up>>

\* mysql_query returns an error.  What each caller makes of it: a DISCOVER gives
\* up, a REQUEST answers DECLINE, clear_leases returns, db_options returns NULL.
QueryFails(p) ==
    /\ "db" \in Faults
    /\ \/ /\ pc[p] \in Discovering
          /\ Exit(p)
          /\ UNCHANGED up
       \/ /\ pc[p] = "clrSelect" \/ (pc[p] = "clrRoutes" /\ loc[p].todo = {})
          /\ ClearDone(p)
       \/ /\ pc[p] \in {"find", "update"}
          /\ Return(p, "decline", "send")
          /\ UNCHANGED <<up, dg>>
       \/ /\ pc[p] = "lease"
          /\ Goto(p, "update")
          /\ loc' = [loc EXCEPT ![p].till = now + DefaultLease]
          /\ UNCHANGED <<up, dg>>
       \/ /\ pc[p] = "opts"
          /\ Return(p, "none", "send")
          /\ UNCHANGED <<up, dg>>
    /\ UNCHANGED <<leases, routes, conf, now>>

\* The query succeeds and its answer breaks off.  mysql_fetch_row returns NULL, as
\* it does after the last row, and every caller takes the rows it has seen for all:
\* no configuration; some of the expired leases; no address held, so a scan
\* follows; no such lease; no lease time, or no lease at all.
AnswerBreaks(p) ==
    /\ "broken" \in Faults
    /\ \/ /\ pc[p] = "conf"
          /\ Return(p, "offer", "opts")
       \/ /\ pc[p] = "clrSelect"
          /\ Goto(p, "clrRoutes")
          /\ \E seen \in SUBSET {ip \in Expired(leases, dg[p].nas, now) :
                                    leases[ip].state = "allocated"} :
                loc' = [loc EXCEPT ![p].t = now, ![p].todo = seen]
       \/ /\ pc[p] = "offer"
          /\ Goto(p, "scan")
          /\ loc' = [loc EXCEPT ![p].cut = TRUE]
       \/ /\ pc[p] = "find"
          /\ Return(p, "nak", "send")
       \/ /\ pc[p] = "lease"
          /\ Goto(p, "update")
          /\ loc' = [loc EXCEPT ![p].till = now + DefaultLease]
       \/ /\ pc[p] = "opts"
          /\ Goto(p, "send")
          /\ \/ loc' = [loc EXCEPT ![p].reply = "none"]
             \/ loc[p].ip \in Leased(leases) /\ UNCHANGED loc
    /\ UNCHANGED <<leases, routes, conf, now, up, dg>>

\* The answer of the scan breaks off: only the rows up to k are seen, and an address
\* above them passes for free though it may be leased.
ScanBreaks(p) ==
    LET s == loc[p].pool.s
        e == loc[p].pool.e
    IN
    /\ "broken" \in Faults
    /\ pc[p] = "scan"
    /\ \E k \in (s - 1)..e :
        LET ip == FreeAddress(Leased(leases) \cap (s..k), s, e) IN
        IF ip = NoIp
        THEN Exit(p)
        ELSE /\ Goto(p, "storeDelete")
             /\ loc' = [loc EXCEPT ![p].ip = ip, ![p].cut = TRUE]
             /\ UNCHANGED dg
    /\ UNCHANGED <<leases, routes, conf, now, up>>

-------------------------------------------------------------------------------
(* The rest of the world                                                       *)

Tick ==
    /\ now < MaxTime
    /\ now' = now + 1
    /\ UNCHANGED <<leases, routes, conf, up, pc, dg, loc>>

\* The web interface changes what matches an interface.
Reconfigure(i) ==
    /\ conf' \in {[conf EXCEPT ![i] = c] : c \in ConfChoices[i]}
    /\ UNCHANGED <<leases, routes, now, up, pc, dg, loc>>

\* The listening process ends; children and routes outlive it.
Stop(n) ==
    /\ "stop" \in Faults
    /\ n \in up
    /\ up' = up \ {n}
    /\ UNCHANGED <<leases, routes, conf, now, pc, dg, loc>>

\* The machine restarts: its processes and its routes are gone, the table stays.
Reboot(n) ==
    LET dead == {p \in Procs : pc[p] # "idle" /\ dg[p].nas = n} IN
    /\ "reboot" \in Faults
    /\ up' = up \ {n}
    /\ routes' = [routes EXCEPT ![n] = [ip \in Ips |-> <<>>]]
    /\ pc' = [p \in Procs |-> IF p \in dead THEN "idle" ELSE pc[p]]
    /\ dg' = [p \in Procs |-> IF p \in dead THEN Nil ELSE dg[p]]
    /\ loc' = [p \in Procs |-> IF p \in dead THEN NoLocals ELSE loc[p]]
    /\ UNCHANGED <<leases, conf, now>>

\* main(): the table is cleared, then the daemon listens.
Boot(n, p) ==
    /\ n \notin up
    /\ \A q \in Procs : pc[q] # "idle" => dg[q] # [type |-> "boot", nas |-> n]
    /\ pc[p] = "idle"
    /\ Goto(p, "clrSelect")
    /\ dg' = [dg EXCEPT ![p] = [type |-> "boot", nas |-> n]]
    /\ UNCHANGED <<leases, routes, conf, now, up, loc>>

-------------------------------------------------------------------------------

Init ==
    /\ leases = EmptyTable
    /\ routes = [n \in Nas |-> [ip \in Ips |-> <<>>]]
    /\ conf \in {f \in [Ifaces -> UNION {ConfChoices[i] : i \in Ifaces}] :
                    \A i \in Ifaces : f[i] \in ConfChoices[i]}
    /\ now = 0
    /\ up = {}
    /\ pc = [p \in Procs |-> "idle"]
    /\ dg = [p \in Procs |-> Nil]
    /\ loc = [p \in Procs |-> NoLocals]

Step(p) ==
    \/ ReadConf(p) \/ ClearSelect(p) \/ ClearRoute(p) \/ ClearDelete(p)
    \/ OfferHeld(p) \/ Scan(p) \/ StoreDelete(p) \/ StoreInsert(p)
    \/ Find(p) \/ ReadLease(p) \/ Update(p)
    \/ RequestRouteDelete(p) \/ RequestRouteAdd(p)
    \/ ReadOptions(p) \/ Send(p)
    \/ QueryFails(p) \/ AnswerBreaks(p) \/ ScanBreaks(p)

Environment ==
    \/ Tick
    \/ \E i \in Ifaces : Reconfigure(i)
    \/ \E n \in Nas : Stop(n) \/ Reboot(n)

Next ==
    \/ \E p \in Procs : \E d \in Datagrams : Fork(p, d)
    \/ \E p \in Procs : \E n \in Nas : Boot(n, p)
    \/ \E p \in Procs : Step(p)
    \/ Environment

Spec == Init /\ [][Next]_vars

-------------------------------------------------------------------------------
(* Properties                                                                  *)

\* The variables have the types of the table, the kernel and the locals of a child.
TypeOK ==
    /\ leases \in Table
    /\ routes \in [Nas -> [Ips -> Seq(Ifaces)]]
    /\ conf \in [Ifaces -> PoolConf \cup {NoConf}]
    /\ now \in Nat
    /\ up \subseteq Nas
    /\ pc \in [Procs -> Labels]
    /\ dg \in [Procs -> Datagrams \cup Startup \cup {Nil}]
    /\ loc \in [Procs -> Locals]

InPool(ip, i) == \E c \in ConfChoices[i] \ {NoConf} : ip \in c.s..c.e

\* An address is leased to an interface, and routed to it, only when it lies in a
\* list the interface may be configured with: no interleaving of the select, the
\* scan, the two halves of store_offer and the route requests carries an address
\* or a route over to an interface of another list.
PoolRespected ==
    /\ \A ip \in Leased(leases) : InPool(ip, leases[ip].iface)
    /\ \A n \in Nas, ip \in Ips : \A i \in Devices(routes[n][ip]) : InPool(ip, i)

Live(row, t) == row.static \/ t <= row.till

ClearsOnlyExpired ==
    \A ip \in Leased(leases) :
        (Live(leases[ip], now) /\ leases'[ip] = NoRow)
        => \E p \in Procs : pc[p] = "storeDelete" /\ loc[p].ip = ip

\* dhcpv4_db_clear_leases decides with a clock it read two statements earlier and
\* other children work in between; still, the row of a static or unexpired lease
\* leaves the table only when a child is about to store an offer of that address.
NoLiveLeaseCleared == [][ClearsOnlyExpired]_vars

OnlyOwnerTakes ==
    \A ip \in Leased(leases) :
        (Live(leases[ip], now)
         /\ (leases'[ip] = NoRow \/ leases'[ip].iface # leases[ip].iface))
        => \E p \in Procs :
              pc[p] = "storeDelete" /\ (dg[p].iface = leases[ip].iface \/ loc[p].cut)

\* While children do not overlap, an address passes to another interface, or
\* loses its row, only when a dynamic lease ran out or its own interface asks for
\* an address again, or in the one DISCOVER whose look-up or scan read an answer
\* that broke off: the next one, of this interface or another, hits the row of
\* nobody else again, whatever queries failed and whatever rows that one left.
OwnerKeepsAddress == [][OnlyOwnerTakes]_vars

\* While children do not overlap, an answer that leaves the server stands in the
\* table: an OFFER and an ACK name an address whose row has the interface and the
\* hardware address of the client, in the state the answer tells.
AnswerStands ==
    \A p \in Procs :
        pc[p] = "send" /\ loc[p].reply \in {"offer", "ack"} =>
            /\ loc[p].ip \in Leased(leases)
            /\ LET row == leases[loc[p].ip] IN
                /\ row.iface = dg[p].iface
                /\ row.mac = dg[p].mac
                /\ row.state = IF loc[p].reply = "offer" THEN "offered" ELSE "allocated"

\* While children do not overlap, a routed static lease that is confirmed has its
\* route and no other, whatever was requested before: the delete that names no
\* device always hits the route of the same interface.
StaticRouted ==
    (\A p \in Procs : pc[p] \notin {"rtDelete", "rtAdd"}) =>
        \A ip \in Leased(leases) :
            LET row == leases[ip] IN
            row.static /\ row.routed =>
                routes[row.nas][ip] \in
                    {<<row.iface>>} \cup (IF row.state = "offered" THEN {<<>>} ELSE {})

-------------------------------------------------------------------------------
(* The promise to the interfaces                                               *)

\* The table as a book of leases: what of a row matters to its holder.
Book ==
    [ip \in Ips |->
        IF leases[ip] = NoRow THEN NoRow
        ELSE [iface |-> leases[ip].iface, mac |-> leases[ip].mac,
              confirmed |-> leases[ip].state = "allocated",
              static |-> leases[ip].static, till |-> leases[ip].till]]

\* The interfaces for which some child is about to run one of these statements.
At(stmts) == {dg[p].iface : p \in {q \in Procs : pc[q] \in stmts}}

Service == INSTANCE LeaseService WITH
    Free <- NoRow, book <- Book, clock <- now,
    asking <- At({"storeDelete", "storeInsert"}), accepting <- At({"update"}),
    blind <- {dg[p].iface : p \in {q \in Procs : pc[q] = "storeDelete" /\ loc[q].cut}}

ASSUME BookAssumption == NoRow \notin Service!Lease

\* While children do not overlap, the statements of all handlers together keep
\* the promise of LeaseService: a lease is made for the interface that asks, from
\* an address nobody holds; it is confirmed for its own interface; and it ends only
\* when that interface asks again, when a dynamic lease has run out, or for an
\* interface whose DISCOVER read an answer that broke off, whatever queries fail
\* and wherever a machine restarts.
ServesLeases == Service!Spec

-------------------------------------------------------------------------------
(* What the comments of the code promise and the code does not keep            *)

\* dhcp_db.c:354: a routed lease puts the route to the address into the
\* interface it was given out on.
RouteLeadsToHolder ==
    (\A p \in Procs : pc[p] = "idle") =>
        \A ip \in Leased(leases) :
            LET row == leases[ip] IN
            row.routed /\ row.state = "allocated" =>
                routes[row.nas][ip] # <<>> /\ Head(routes[row.nas][ip]) = row.iface

\* dhcp_db.c:218: a static address stays with its interface for ever.  An address
\* that was confirmed has its route, which shows the interface; where all leases
\* are static and routed, no other interface may get the address.
StaticKeepsInterface ==
    \A n \in Nas, ip \in Leased(leases) :
        leases[ip].static => Devices(routes[n][ip]) \subseteq {leases[ip].iface}

\* moondhcp.conf:12: the default lease time is for option templates that do not
\* set one.
TemplateTimeStored ==
    [][\A p \in Procs : pc[p] = "lease" /\ pc'[p] = "update" =>
          LET own == LeaseIn(leases[loc[p].ip].tmpl, FALSE) IN
          own # 0 => loc'[p].till = now + own]_vars
===============================================================================
