--------------------------- MODULE LeaseServerProofs ---------------------------
(* The invariants of LeaseServer hold for every set of children, interfaces,   *)
(* addresses, servers, configurations and templates, with every fault.         *)
EXTENDS LeaseServer, LeaseTableProofs

-------------------------------------------------------------------------------
(* The inductive invariant                                                     *)

Offering == {"offer", "scan", "storeDelete", "storeInsert"}
Granting == {"lease", "update", "rtDelete", "rtAdd"}

\* What a child at label l, with datagram d and locals v, has established.
ChildOK(l, d, v) ==
    /\ l \in Discovering => d \in Datagrams /\ d.type = "discover"
    /\ l \in Requesting \cup {"opts", "send"} => d \in Datagrams
    /\ l \in Common => d \in Datagrams \cup Startup
    /\ l \in Offering \/ (l \in Common /\ d.type = "discover") =>
         /\ v.pool \in PoolConf
         /\ \A ip \in v.pool.s..v.pool.e : InPool(ip, d.iface)
    /\ l \in {"storeDelete", "storeInsert"} \cup Granting =>
         v.ip \in Ips /\ InPool(v.ip, d.iface)

ChildrenOK == \A p \in Procs : ChildOK(pc[p], dg[p], loc[p])

ConfOK == \A i \in Ifaces : conf[i] \in ConfChoices[i]

IndInv == TypeOK /\ ConfOK /\ PoolRespected /\ ChildrenOK

\* The part of IndInv that is about the children alone.
ChildInv ==
    /\ pc \in [Procs -> Labels]
    /\ dg \in [Procs -> Datagrams \cup Startup \cup {Nil}]
    /\ loc \in [Procs -> Locals]
    /\ ChildrenOK

-------------------------------------------------------------------------------
(* Lemmas                                                                      *)

LEMMA PoolInIps ==
    ASSUME NEW i \in Ifaces, NEW ip, InPool(ip, i)
    PROVE  ip \in Ips
  BY ConfAssumption DEF InPool

LEMMA NoLocalsType == NoLocals \in Locals
  BY DEF NoLocals, Locals

LEMMA LeaseInType ==
    ASSUME NEW tmpl \in Templates, NEW isNull \in BOOLEAN
    PROVE  LeaseIn(tmpl, isNull) \in Nat
<1>1. TemplateRows[tmpl] \in Seq(OptRow)
  BY TemplateAssumption
<1>2. CASE LeaseOpts(tmpl, isNull) = {}
  BY <1>2 DEF LeaseIn
<1>3. CASE LeaseOpts(tmpl, isNull) # {}
  <2> DEFINE k == CHOOSE j \in LeaseOpts(tmpl, isNull) : TRUE
  <2>1. k \in DOMAIN TemplateRows[tmpl]
    BY <1>3 DEF LeaseOpts, Appended
  <2>2. TemplateRows[tmpl][k] \in OptRow
    BY <1>1, <2>1
  <2>3. QED
    BY <1>3, <2>2, TimesAssumption DEF LeaseIn, OptRow
<1>4. QED
  BY <1>2, <1>3

LEMMA SignedType ==
    ASSUME NEW w \in Nat
    PROVE  Signed(w) \in Int
  BY TimesAssumption DEF Signed

LEMMA StoredLeaseType ==
    ASSUME leases \in Table, NEW ip \in Ips
    PROVE  StoredLease(ip) \in Int
<1>1. CASE ip \in Leased(leases)
  <2>1. leases[ip].tmpl \in Templates
    BY <1>1 DEF Leased, Table, Row
  <2>2. LeaseIn(leases[ip].tmpl, TRUE) \in Nat
    BY <2>1, LeaseInType
  <2>3. Signed(LeaseIn(leases[ip].tmpl, TRUE)) \in Int
    BY <2>2, SignedType
  <2>4. DefaultLease \in Int
    BY TimesAssumption
  <2>5. StoredLease(ip) \in {Signed(LeaseIn(leases[ip].tmpl, TRUE)), DefaultLease}
    BY Zenon DEF StoredLease
  <2>6. QED
    BY <2>3, <2>4, <2>5
<1>2. CASE ip \notin Leased(leases)
  BY <1>2, TimesAssumption DEF StoredLease
<1>3. QED
  BY <1>1, <1>2

\* A step that changes one child leaves the others as they are.
LEMMA OneChild ==
    ASSUME IndInv, NEW p \in Procs,
           NEW l \in Labels, NEW d \in Datagrams \cup Startup \cup {Nil}, NEW v \in Locals,
           pc' = [pc EXCEPT ![p] = l],
           dg' = [dg EXCEPT ![p] = d],
           loc' = [loc EXCEPT ![p] = v],
           ChildOK(l, d, v)
    PROVE  ChildInv'
<1>1. /\ pc' \in [Procs -> Labels]
      /\ dg' \in [Procs -> Datagrams \cup Startup \cup {Nil}]
      /\ loc' \in [Procs -> Locals]
  BY DEF IndInv, TypeOK
<1>2. ASSUME NEW q \in Procs
      PROVE  ChildOK(pc'[q], dg'[q], loc'[q])
  <2>1. CASE q = p
    BY <2>1 DEF IndInv, TypeOK
  <2>2. CASE q # p
    <3>1. pc'[q] = pc[q] /\ dg'[q] = dg[q] /\ loc'[q] = loc[q]
      BY <2>2 DEF IndInv, TypeOK
    <3>2. ChildOK(pc[q], dg[q], loc[q])
      BY DEF IndInv, ChildrenOK
    <3>3. QED
      BY <3>1, <3>2
  <2>3. QED
    BY <2>1, <2>2
<1>3. QED
  BY <1>1, <1>2 DEF ChildrenOK, ChildInv

\* A child that leaves.
LEMMA ExitKeeps ==
    ASSUME IndInv, NEW p \in Procs, Exit(p)
    PROVE  ChildInv'
<1>1. ChildOK("idle", Nil, NoLocals)
  BY DEF ChildOK, Discovering, Requesting, Common, Offering, Granting
<1>2. "idle" \in Labels
  BY DEF Labels
<1>3. QED
  BY <1>1, <1>2, NoLocalsType, OneChild DEF Exit, Goto

\* A child whose locals go out of scope with its answer decided.
LEMMA ReturnKeeps ==
    ASSUME IndInv, NEW p \in Procs, dg[p] \in Datagrams,
           NEW type \in {"none", "offer", "ack", "nak", "decline"},
           NEW l \in {"opts", "send"},
           Return(p, type, l), UNCHANGED dg
    PROVE  ChildInv'
<1> DEFINE v == [NoLocals EXCEPT !.ip = loc[p].ip, !.reply = type]
<1>1. v \in Locals
  <2>1. loc[p] \in Locals
    BY DEF IndInv, TypeOK
  <2>2. loc[p].ip \in Ips \cup {NoIp}
    BY <2>1 DEF Locals
  <2>3. QED
    BY <2>2, NoLocalsType DEF Locals
<1>2. ChildOK(l, dg[p], v)
  BY DEF ChildOK, Discovering, Requesting, Common, Offering, Granting
<1>3. l \in Labels
  BY DEF Labels
<1>4. dg' = [dg EXCEPT ![p] = dg[p]]
  BY DEF IndInv, TypeOK
<1>5. pc' = [pc EXCEPT ![p] = l] /\ loc' = [loc EXCEPT ![p] = v]
  BY DEF Return, Goto
<1>6. dg[p] \in Datagrams \cup Startup \cup {Nil}
  OBVIOUS
<1>7. QED
  BY <1>1, <1>2, <1>3, <1>4, <1>5, <1>6, OneChild

-------------------------------------------------------------------------------
(* The steps of a child                                                        *)

LEMMA InitOK == Init => IndInv
<1> SUFFICES ASSUME Init
             PROVE  IndInv
  OBVIOUS
<1>1. leases \in Table /\ Leased(leases) = {}
  BY DEF Init, EmptyTable, Table, Leased
<1>2. routes \in [Nas -> [Ips -> Seq(Ifaces)]]
  BY DEF Init
<1>3. \A n \in Nas, ip \in Ips : Devices(routes[n][ip]) = {}
  BY DEF Init, Devices
<1>4. conf \in [Ifaces -> PoolConf \cup {NoConf}] /\ ConfOK
  BY ConfAssumption DEF Init, ConfOK
<1>5. ChildrenOK
  BY DEF Init, ChildrenOK, ChildOK, Discovering, Requesting, Common, Offering, Granting
<1>6. TypeOK
  BY <1>1, <1>2, <1>4, NoLocalsType DEF Init, TypeOK, Labels
<1>7. QED
  BY <1>1, <1>3, <1>4, <1>5, <1>6 DEF IndInv, PoolRespected

LEMMA ForkKeeps ==
    ASSUME IndInv, NEW p \in Procs, NEW d \in Datagrams, Fork(p, d)
    PROVE  IndInv'
<1> DEFINE l == IF d.type = "discover" THEN "conf" ELSE "clrSelect"
           v == [loc[p] EXCEPT !.ip = IF d.type = "request" THEN d.ip ELSE NoIp]
<1>1. d \in Datagram
  BY DatagramsAssumption
<1>2. l \in Labels
  BY DEF Labels, Discovering, Common
<1>3. v \in Locals
  <2>1. loc[p] \in Locals /\ d.ip \in Ips \cup {NoIp}
    BY <1>1 DEF IndInv, TypeOK, Datagram
  <2>2. QED
    BY <2>1 DEF Locals
<1>4. ChildOK(l, d, v)
  BY DEF ChildOK, Discovering, Requesting, Common, Offering, Granting
<1>5. /\ pc' = [pc EXCEPT ![p] = l]
      /\ dg' = [dg EXCEPT ![p] = d]
      /\ loc' = [loc EXCEPT ![p] = v]
  BY DEF Fork, Goto
<1> HIDE DEF l, v
<1>6. ChildInv'
  BY <1>2, <1>3, <1>4, <1>5, OneChild
<1>7. QED
  BY <1>6 DEF ChildInv, IndInv, TypeOK, ConfOK, PoolRespected, Fork

LEMMA ReadConfKeeps ==
    ASSUME IndInv, NEW p \in Procs, ReadConf(p)
    PROVE  IndInv'
<1> DEFINE c == conf[dg[p].iface]
<1>1. dg[p] \in Datagrams /\ dg[p].iface \in Ifaces
  BY DatagramsAssumption
     DEF ReadConf, IndInv, ChildrenOK, ChildOK, Discovering, Datagram
<1>2. CASE c = NoConf
  BY <1>1, <1>2, ReturnKeeps DEF ReadConf, ChildInv, IndInv, TypeOK, ConfOK, PoolRespected
<1>3. CASE c # NoConf
  <2> DEFINE pool == [c EXCEPT !.static = c.static /\ c.ptp]
             v == [loc[p] EXCEPT !.pool = pool]
  <2>1. c \in ConfChoices[dg[p].iface] \ {NoConf} /\ c \in PoolConf
    BY <1>1, <1>3 DEF IndInv, ConfOK, TypeOK
  <2>2. pool \in PoolConf /\ pool.s = c.s /\ pool.e = c.e
    BY <2>1 DEF PoolConf
  <2>3. \A ip \in pool.s..pool.e : InPool(ip, dg[p].iface)
    BY <2>1, <2>2 DEF InPool
  <2>4. v \in Locals /\ v.pool = pool
    BY <2>2 DEF Locals, IndInv, TypeOK
  <2>5. ChildOK("clrSelect", dg[p], v)
    BY <1>1, <2>2, <2>3, <2>4
       DEF ChildOK, Discovering, Requesting, Common, Offering, Granting
  <2>6. /\ pc' = [pc EXCEPT ![p] = "clrSelect"]
        /\ dg' = [dg EXCEPT ![p] = dg[p]]
        /\ loc' = [loc EXCEPT ![p] = v]
    BY <1>3 DEF ReadConf, Goto, IndInv, TypeOK
  <2>7. "clrSelect" \in Labels /\ dg[p] \in Datagrams \cup Startup \cup {Nil}
    BY <1>1 DEF Labels, Common
  <2> HIDE DEF v
  <2>8. ChildInv'
    BY <2>4, <2>5, <2>6, <2>7, OneChild
  <2>9. QED
    BY <2>8 DEF ChildInv, IndInv, TypeOK, ConfOK, PoolRespected, ReadConf
<1>4. QED
  BY <1>2, <1>3

\* dhcpv4_db_clear_leases returns: the child goes on, or main() listens.
LEMMA ClearDoneKeeps ==
    ASSUME IndInv, NEW p \in Procs, pc[p] \in Common, ClearDone(p)
    PROVE  ChildInv' /\ up' \subseteq Nas
<1>1. dg[p] \in Datagrams \cup Startup /\ dg[p].nas \in Nas
  BY DatagramsAssumption DEF IndInv, ChildrenOK, ChildOK, Datagram, Startup
<1>2. CASE dg[p].type = "boot"
  BY <1>1, <1>2, ExitKeeps DEF ClearDone, IndInv, TypeOK
<1>3. CASE dg[p].type # "boot"
  <2> DEFINE l == IF dg[p].type = "discover" THEN "offer" ELSE "find"
             v == [loc[p] EXCEPT !.t = 0, !.todo = {}]
  <2>1. dg[p] \in Datagrams /\ dg[p].type \in {"discover", "request"}
    BY <1>1, <1>3, DatagramsAssumption DEF Startup, Datagram
  <2>2. l \in Labels
    BY DEF Labels, Discovering, Requesting
  <2>3. v \in Locals /\ v.pool = loc[p].pool
    BY DEF Locals, IndInv, TypeOK
  <2>4. ChildOK(pc[p], dg[p], loc[p])
    BY DEF IndInv, ChildrenOK
  <2>5. ChildOK(l, dg[p], v)
    BY <2>1, <2>3, <2>4
       DEF ChildOK, Discovering, Requesting, Common, Offering, Granting
  <2>6. /\ pc' = [pc EXCEPT ![p] = l]
        /\ dg' = [dg EXCEPT ![p] = dg[p]]
        /\ loc' = [loc EXCEPT ![p] = v]
        /\ up' = up
    BY <1>3 DEF ClearDone, Goto, IndInv, TypeOK
  <2>7. QED
    BY <2>1, <2>2, <2>3, <2>5, <2>6, OneChild DEF IndInv, TypeOK
<1>4. QED
  BY <1>2, <1>3

LEMMA ClearSelectKeeps ==
    ASSUME IndInv, NEW p \in Procs, ClearSelect(p)
    PROVE  IndInv'
<1> DEFINE S == {ip \in Expired(leases, dg[p].nas, now) : leases[ip].state = "allocated"}
           v == [loc[p] EXCEPT !.t = now, !.todo = S]
<1>1. S \subseteq Ips
  BY DEF Expired, Leased
<1>2. v \in Locals /\ v.pool = loc[p].pool
  BY <1>1 DEF Locals, IndInv, TypeOK
<1>3. ChildOK(pc[p], dg[p], loc[p]) /\ pc[p] = "clrSelect"
  BY DEF IndInv, ChildrenOK, ClearSelect
<1>4. ChildOK("clrRoutes", dg[p], v) /\ dg[p] \in Datagrams \cup Startup
  BY <1>2, <1>3 DEF ChildOK, Discovering, Requesting, Common, Offering, Granting
<1>5. /\ pc' = [pc EXCEPT ![p] = "clrRoutes"]
      /\ dg' = [dg EXCEPT ![p] = dg[p]]
      /\ loc' = [loc EXCEPT ![p] = v]
  BY DEF ClearSelect, Goto, IndInv, TypeOK
<1>6. "clrRoutes" \in Labels /\ dg[p] \in Datagrams \cup Startup \cup {Nil}
  BY <1>4 DEF Labels, Common
<1> HIDE DEF v
<1>7. ChildInv'
  BY <1>2, <1>4, <1>5, <1>6, OneChild
<1>8. QED
  BY <1>7 DEF ChildInv, IndInv, TypeOK, ConfOK, PoolRespected, ClearSelect

\* A route request of a server for one address leaves the other routes alone.
LEMMA RouteStep ==
    ASSUME IndInv, NEW n \in Nas, NEW ip \in Ips, NEW rs \in Seq(Ifaces),
           \A i \in Devices(rs) : InPool(ip, i),
           routes' = [routes EXCEPT ![n][ip] = rs]
    PROVE  /\ routes' \in [Nas -> [Ips -> Seq(Ifaces)]]
           /\ \A k \in Nas, q \in Ips : \A i \in Devices(routes'[k][q]) : InPool(q, i)
<1>1. routes \in [Nas -> [Ips -> Seq(Ifaces)]]
  BY DEF IndInv, TypeOK
<1>2. routes' \in [Nas -> [Ips -> Seq(Ifaces)]]
  BY <1>1
<1>3. \A k \in Nas, q \in Ips :
        routes'[k][q] = IF k = n /\ q = ip THEN rs ELSE routes[k][q]
  BY <1>1
<1>4. QED
  BY <1>2, <1>3 DEF IndInv, PoolRespected

LEMMA ClearRouteKeeps ==
    ASSUME IndInv, NEW p \in Procs, ClearRoute(p)
    PROVE  IndInv'
<1>1. PICK ip \in loc[p].todo :
        /\ routes' = [routes EXCEPT ![dg[p].nas][ip] = RouteDelete(@)]
        /\ loc' = [loc EXCEPT ![p].todo = @ \ {ip}]
  BY DEF ClearRoute
<1> DEFINE n == dg[p].nas
           v == [loc[p] EXCEPT !.todo = @ \ {ip}]
<1>2. ChildOK(pc[p], dg[p], loc[p]) /\ pc[p] = "clrRoutes"
  BY DEF IndInv, ChildrenOK, ClearRoute
<1>3. dg[p] \in Datagrams \cup Startup /\ n \in Nas
  BY <1>2, DatagramsAssumption DEF ChildOK, Common, Datagram, Startup
<1>4. ip \in Ips /\ v \in Locals /\ v.pool = loc[p].pool
  BY DEF Locals, IndInv, TypeOK
<1>5. ChildOK("clrRoutes", dg[p], v)
  BY <1>2, <1>4 DEF ChildOK, Discovering, Requesting, Common, Offering, Granting
<1>6. /\ pc' = [pc EXCEPT ![p] = "clrRoutes"]
      /\ dg' = [dg EXCEPT ![p] = dg[p]]
      /\ loc' = [loc EXCEPT ![p] = v]
  BY <1>1, <1>2 DEF ClearRoute, IndInv, TypeOK
<1>7. ChildInv'
  BY <1>3, <1>4, <1>5, <1>6, OneChild DEF Labels, Common
<1>8. routes[n][ip] \in Seq(Ifaces) /\ \A i \in Devices(routes[n][ip]) : InPool(ip, i)
  BY <1>3, <1>4 DEF IndInv, TypeOK, PoolRespected
<1>9. /\ routes' \in [Nas -> [Ips -> Seq(Ifaces)]]
      /\ \A k \in Nas, q \in Ips : \A i \in Devices(routes'[k][q]) : InPool(q, i)
  BY <1>1, <1>3, <1>4, <1>8, RouteDeleteType, RouteStep
<1>10. QED
  BY <1>7, <1>9 DEF ChildInv, IndInv, TypeOK, ConfOK, PoolRespected, ClearRoute

LEMMA ClearDeleteKeeps ==
    ASSUME IndInv, NEW p \in Procs, ClearDelete(p)
    PROVE  IndInv'
<1>1. leases \in Table
  BY DEF IndInv, TypeOK
<1>2. leases' \in Table /\ \A ip \in Ips : leases'[ip] \in {NoRow, leases[ip]}
  BY <1>1, ClearExpiredType DEF ClearDelete
<1>3. \A ip \in Leased(leases') : ip \in Leased(leases) /\ leases'[ip] = leases[ip]
  BY <1>2 DEF Leased
<1>4. pc[p] \in Common /\ ClearDone(p)
  BY DEF ClearDelete, Common
<1>5. QED
  BY <1>2, <1>3, <1>4, ClearDoneKeeps
     DEF ChildInv, IndInv, TypeOK, ConfOK, PoolRespected, ClearDelete

LEMMA OfferHeldKeeps ==
    ASSUME IndInv, NEW p \in Procs, OfferHeld(p)
    PROVE  IndInv'
<1> DEFINE pool == loc[p].pool
           held == HeldBy(leases, dg[p].iface, pool.s, pool.e)
<1>1. pc[p] = "offer" /\ ChildOK("offer", dg[p], loc[p])
  BY DEF IndInv, ChildrenOK, OfferHeld
<1>2. dg[p] \in Datagrams /\ dg[p].type = "discover" /\ pool \in PoolConf
      /\ \A ip \in pool.s..pool.e : InPool(ip, dg[p].iface)
  BY <1>1 DEF ChildOK, Discovering, Offering
<1>3. dg' = [dg EXCEPT ![p] = dg[p]]
  BY DEF OfferHeld, IndInv, TypeOK
<1>4. CASE held = {}
  <2>1. pc' = [pc EXCEPT ![p] = "scan"] /\ loc' = [loc EXCEPT ![p] = loc[p]]
    BY <1>4 DEF OfferHeld, Goto, IndInv, TypeOK
  <2>2. ChildOK("scan", dg[p], loc[p])
    BY <1>1 DEF ChildOK, Discovering, Requesting, Common, Offering, Granting
  <2>3. "scan" \in Labels /\ loc[p] \in Locals
    BY DEF Labels, Discovering, IndInv, TypeOK
  <2>4. ChildInv'
    BY <1>2, <1>3, <2>1, <2>2, <2>3, OneChild
  <2>5. QED
    BY <2>4 DEF ChildInv, IndInv, TypeOK, ConfOK, PoolRespected, OfferHeld
<1>5. CASE held # {}
  <2>1. PICK ip \in held : /\ pc' = [pc EXCEPT ![p] = "storeDelete"]
                           /\ loc' = [loc EXCEPT ![p].ip = ip]
    BY <1>5 DEF OfferHeld, Goto
  <2> DEFINE v == [loc[p] EXCEPT !.ip = ip]
  <2>2. ip \in Ips /\ InPool(ip, dg[p].iface)
    BY <1>2 DEF HeldBy, Leased
  <2>3. v \in Locals /\ v.pool = pool /\ v.ip = ip
    BY <2>2 DEF Locals, IndInv, TypeOK
  <2>4. ChildOK("storeDelete", dg[p], v)
    BY <1>2, <2>2, <2>3 DEF ChildOK, Discovering, Requesting, Common, Offering, Granting
  <2>5. loc' = [loc EXCEPT ![p] = v] /\ "storeDelete" \in Labels
    BY <2>1 DEF Labels, Discovering
  <2> HIDE DEF v
  <2>6. ChildInv'
    BY <1>2, <1>3, <2>1, <2>3, <2>4, <2>5, OneChild
  <2>7. QED
    BY <2>6 DEF ChildInv, IndInv, TypeOK, ConfOK, PoolRespected, OfferHeld
<1>6. QED
  BY <1>4, <1>5

LEMMA ScanKeeps ==
    ASSUME IndInv, NEW p \in Procs, Scan(p)
    PROVE  IndInv'
<1> DEFINE pool == loc[p].pool
           ip == DynIp(leases, pool.s, pool.e)
           v == [loc[p] EXCEPT !.ip = ip]
<1>1. pc[p] = "scan" /\ ChildOK("scan", dg[p], loc[p])
  BY DEF IndInv, ChildrenOK, Scan
<1>2. dg[p] \in Datagrams /\ dg[p].type = "discover" /\ pool \in PoolConf
      /\ \A q \in pool.s..pool.e : InPool(q, dg[p].iface)
  BY <1>1 DEF ChildOK, Discovering, Offering
<1>3. CASE ip = NoIp
  <2>1. ChildInv'
    BY <1>3, ExitKeeps DEF Scan
  <2>2. QED
    BY <2>1 DEF ChildInv, IndInv, TypeOK, ConfOK, PoolRespected, Scan
<1>4. CASE ip # NoIp
  <2>1. pool.s \in Nat /\ pool.e \in Nat /\ leases \in Table
    BY <1>2 DEF PoolConf, IndInv, TypeOK
  <2>2. ip \in pool.s..pool.e
    BY <1>4, <2>1, ScanFindsFree
  <2>3. dg[p].iface \in Ifaces
    BY <1>2, DatagramsAssumption DEF Datagram
  <2>4. InPool(ip, dg[p].iface) /\ ip \in Ips
    BY <1>2, <2>2, <2>3, PoolInIps
  <2> HIDE DEF ip
  <2>5. v \in Locals /\ v.pool = pool /\ v.ip = ip
    BY <2>4 DEF Locals, IndInv, TypeOK
  <2>6. ChildOK("storeDelete", dg[p], v)
    BY <1>2, <2>4, <2>5 DEF ChildOK, Discovering, Requesting, Common, Offering, Granting
  <2>7. /\ pc' = [pc EXCEPT ![p] = "storeDelete"]
        /\ dg' = [dg EXCEPT ![p] = dg[p]]
        /\ loc' = [loc EXCEPT ![p] = v]
    BY <1>4 DEF Scan, Goto, IndInv, TypeOK, ip
  <2>8. "storeDelete" \in Labels
    BY DEF Labels, Discovering
  <2> HIDE DEF v
  <2>9. ChildInv'
    BY <1>2, <2>5, <2>6, <2>7, <2>8, OneChild
  <2>10. QED
    BY <2>9, <1>4 DEF ChildInv, IndInv, TypeOK, ConfOK, PoolRespected, Scan, ip
<1>5. QED
  BY <1>3, <1>4

LEMMA StoreDeleteKeeps ==
    ASSUME IndInv, NEW p \in Procs, StoreDelete(p)
    PROVE  IndInv'
<1> DEFINE v == [loc[p] EXCEPT !.till = now + OfferTime]
<1>1. pc[p] = "storeDelete" /\ ChildOK("storeDelete", dg[p], loc[p])
  BY DEF IndInv, ChildrenOK, StoreDelete
<1>2. v \in Locals /\ v.pool = loc[p].pool /\ v.ip = loc[p].ip
  <2>1. now + OfferTime \in Nat /\ loc[p] \in Locals
    BY TimesAssumption DEF IndInv, TypeOK
  <2>2. QED
    BY <2>1 DEF Locals
<1>3. ChildOK("storeInsert", dg[p], v) /\ dg[p] \in Datagrams
  BY <1>1, <1>2 DEF ChildOK, Discovering, Requesting, Common, Offering, Granting
<1>4. /\ pc' = [pc EXCEPT ![p] = "storeInsert"]
      /\ dg' = [dg EXCEPT ![p] = dg[p]]
      /\ loc' = [loc EXCEPT ![p] = v]
  BY DEF StoreDelete, Goto, IndInv, TypeOK
<1>5. "storeInsert" \in Labels
  BY DEF Labels, Discovering
<1> HIDE DEF v
<1>6. ChildInv'
  BY <1>2, <1>3, <1>4, <1>5, OneChild
<1>7. leases \in Table
  BY DEF IndInv, TypeOK
<1>8. leases' \in Table
      /\ \A q \in Ips : leases'[q] = IF q = loc[p].ip THEN NoRow ELSE leases[q]
  BY <1>7, DeleteIpType DEF StoreDelete
<1>9. \A q \in Leased(leases') : q \in Leased(leases) /\ leases'[q] = leases[q]
  BY <1>8 DEF Leased
<1>10. QED
  BY <1>6, <1>8, <1>9 DEF ChildInv, IndInv, TypeOK, ConfOK, PoolRespected, StoreDelete

LEMMA StoreInsertKeeps ==
    ASSUME IndInv, NEW p \in Procs, StoreInsert(p)
    PROVE  IndInv'
<1> DEFINE ip == loc[p].ip
           row == OfferedRow(p)
<1>1. pc[p] = "storeInsert" /\ ChildOK("storeInsert", dg[p], loc[p])
  BY DEF IndInv, ChildrenOK, StoreInsert
<1>2. /\ dg[p] \in Datagrams /\ loc[p].pool \in PoolConf
      /\ ip \in Ips /\ InPool(ip, dg[p].iface)
  BY <1>1 DEF ChildOK, Discovering, Offering
<1>3. CASE CanInsert(leases, ip, row)
  <2>1. ChildInv'
    BY <1>2, <1>3, ReturnKeeps DEF StoreInsert
  <2>2. row \in Row /\ row.iface = dg[p].iface
    <3>1. dg[p] \in Datagram /\ loc[p] \in Locals
      BY <1>2, DatagramsAssumption DEF IndInv, TypeOK
    <3>2. QED
      BY <3>1, <1>2 DEF OfferedRow, Row, Datagram, Locals, PoolConf
  <2>3. leases' = [leases EXCEPT ![ip] = row]
    BY <1>3 DEF StoreInsert
  <2> HIDE DEF row
  <2>4. leases \in Table
    BY DEF IndInv, TypeOK
  <2>5. leases' \in Table /\ \A q \in Ips : leases'[q] = IF q = ip THEN row ELSE leases[q]
    BY <2>2, <2>3, <2>4 DEF Table
  <2>6. \A q \in Leased(leases') : InPool(q, leases'[q].iface)
    BY <1>2, <2>2, <2>5 DEF Leased, IndInv, PoolRespected
  <2>7. QED
    BY <2>1, <2>5, <2>6
       DEF ChildInv, IndInv, TypeOK, ConfOK, PoolRespected, StoreInsert
<1>4. CASE ~CanInsert(leases, ip, row)
  <2>1. ChildInv' /\ UNCHANGED leases
    BY <1>4, ExitKeeps DEF StoreInsert
  <2>2. QED
    BY <2>1 DEF ChildInv, IndInv, TypeOK, ConfOK, PoolRespected, StoreInsert
<1>5. QED
  BY <1>3, <1>4

LEMMA FindKeeps ==
    ASSUME IndInv, NEW p \in Procs, Find(p)
    PROVE  IndInv'
<1> DEFINE ip == loc[p].ip
           v == [loc[p] EXCEPT !.static = leases[ip].static, !.routed = leases[ip].routed]
<1>1. pc[p] = "find" /\ dg[p] \in Datagrams
  BY DEF IndInv, ChildrenOK, ChildOK, Requesting, Find
<1>2. CASE HasRow(leases, dg[p].iface, ip)
  <2>1. ip \in Ips /\ leases[ip] \in Row /\ InPool(ip, dg[p].iface)
    BY <1>2 DEF HasRow, Leased, Table, IndInv, TypeOK, PoolRespected
  <2>2. v \in Locals /\ v.pool = loc[p].pool /\ v.ip = ip
    <3>1. leases[ip].static \in BOOLEAN /\ leases[ip].routed \in BOOLEAN /\ loc[p] \in Locals
      BY <2>1 DEF Row, IndInv, TypeOK
    <3>2. QED
      BY <3>1 DEF Locals
  <2>3. ChildOK("lease", dg[p], v)
    BY <1>1, <2>1, <2>2
       DEF ChildOK, Discovering, Requesting, Common, Offering, Granting
  <2>4. /\ pc' = [pc EXCEPT ![p] = "lease"]
        /\ dg' = [dg EXCEPT ![p] = dg[p]]
        /\ loc' = [loc EXCEPT ![p] = v]
    BY <1>2 DEF Find, Goto, IndInv, TypeOK
  <2>5. "lease" \in Labels
    BY DEF Labels, Requesting
  <2> HIDE DEF v
  <2>6. ChildInv'
    BY <1>1, <2>2, <2>3, <2>4, <2>5, OneChild
  <2>7. QED
    BY <2>6 DEF ChildInv, IndInv, TypeOK, ConfOK, PoolRespected, Find
<1>3. CASE ~HasRow(leases, dg[p].iface, ip)
  <2>1. ChildInv'
    BY <1>1, <1>3, ReturnKeeps DEF Find
  <2>2. QED
    BY <2>1 DEF ChildInv, IndInv, TypeOK, ConfOK, PoolRespected, Find
<1>4. QED
  BY <1>2, <1>3

\* A child of a REQUEST that goes from one label to the next with a new till.
LEMMA GrantStep ==
    ASSUME IndInv, NEW p \in Procs, pc[p] \in Granting, NEW l \in Granting,
           NEW till \in Int,
           pc' = [pc EXCEPT ![p] = l],
           UNCHANGED dg,
           loc' = [loc EXCEPT ![p].till = till]
    PROVE  ChildInv'
<1> DEFINE v == [loc[p] EXCEPT !.till = till]
<1>1. v \in Locals /\ v.pool = loc[p].pool /\ v.ip = loc[p].ip
  BY DEF Locals, IndInv, TypeOK
<1>2. ChildOK(pc[p], dg[p], loc[p])
  BY DEF IndInv, ChildrenOK
<1>3. ChildOK(l, dg[p], v) /\ dg[p] \in Datagrams
  BY <1>1, <1>2 DEF ChildOK, Discovering, Requesting, Common, Offering, Granting
<1>4. /\ dg' = [dg EXCEPT ![p] = dg[p]]
      /\ loc' = [loc EXCEPT ![p] = v]
  BY DEF IndInv, TypeOK
<1>5. l \in Labels
  BY DEF Labels, Requesting, Granting
<1> HIDE DEF v
<1>6. QED
  BY <1>1, <1>3, <1>4, <1>5, OneChild

LEMMA GrantFacts ==
    ASSUME IndInv, NEW p \in Procs, pc[p] \in Granting
    PROVE  /\ dg[p] \in Datagrams /\ dg[p] \in Datagram
           /\ loc[p] \in Locals
           /\ loc[p].ip \in Ips /\ InPool(loc[p].ip, dg[p].iface)
<1>1. ChildOK(pc[p], dg[p], loc[p])
  BY DEF IndInv, ChildrenOK
<1>2. QED
  BY <1>1, DatagramsAssumption DEF ChildOK, Requesting, Granting, IndInv, TypeOK

LEMMA ReadLeaseKeeps ==
    ASSUME IndInv, NEW p \in Procs, ReadLease(p)
    PROVE  IndInv'
<1> DEFINE till == now + StoredLease(loc[p].ip)
<1>1. pc[p] \in Granting
  BY DEF ReadLease, Granting
<1>2. leases \in Table /\ now \in Nat
  BY DEF IndInv, TypeOK
<1>3. loc[p].ip \in Ips /\ StoredLease(loc[p].ip) \in Int
  BY <1>1, <1>2, GrantFacts, StoredLeaseType
<1>4. till \in Int
  BY <1>2, <1>3
<1>5. CASE Exit(p)
  BY <1>5, ExitKeeps
     DEF ChildInv, IndInv, TypeOK, ConfOK, PoolRespected, ReadLease
<1>6. CASE Goto(p, "update") /\ loc' = [loc EXCEPT ![p].till = till] /\ UNCHANGED dg
  <2> HIDE DEF till
  <2>1. ChildInv'
    BY <1>1, <1>4, <1>6, GrantStep DEF Goto, Granting
  <2>2. QED
    BY <2>1 DEF ChildInv, IndInv, TypeOK, ConfOK, PoolRespected, ReadLease
<1>7. QED
  BY <1>5, <1>6 DEF ReadLease

LEMMA UpdateKeeps ==
    ASSUME IndInv, NEW p \in Procs, Update(p)
    PROVE  IndInv'
<1>1. PICK r \in Confirm(leases, dg[p].iface, dg[p].mac, loc[p].till) :
        /\ leases' = r.table
        /\ IF r.ok THEN Goto(p, "rtDelete") /\ UNCHANGED loc
                   ELSE Return(p, "decline", "send")
  BY DEF Update
<1>2. pc[p] \in Granting
  BY DEF Update, Granting
<1>3. /\ dg[p] \in Datagrams
      /\ dg[p].iface \in Ifaces /\ dg[p].mac \in Macs /\ loc[p].till \in Int
      /\ loc[p] \in Locals
  BY <1>2, GrantFacts DEF Datagram, Locals
<1>4. leases \in Table
  BY DEF IndInv, TypeOK
<1>5. /\ leases' \in Table
      /\ Leased(leases') = Leased(leases)
      /\ \A ip \in Leased(leases) : leases'[ip].iface = leases[ip].iface
  BY <1>1, <1>3, <1>4, ConfirmType
<1>6. CASE r.ok
  <2>1. pc' = [pc EXCEPT ![p] = "rtDelete"] /\ UNCHANGED dg
    BY <1>1, <1>6 DEF Goto, Update
  <2>2. loc' = [loc EXCEPT ![p].till = loc[p].till]
    BY <1>1, <1>3, <1>6 DEF IndInv, TypeOK, Locals
  <2>3. ChildInv'
    BY <1>2, <1>3, <2>1, <2>2, GrantStep DEF Granting
  <2>4. QED
    BY <1>5, <2>3 DEF ChildInv, IndInv, TypeOK, ConfOK, PoolRespected, Update
<1>7. CASE ~r.ok
  <2>1. ChildInv'
    BY <1>1, <1>3, <1>7, ReturnKeeps DEF Update
  <2>2. QED
    BY <1>5, <2>1 DEF ChildInv, IndInv, TypeOK, ConfOK, PoolRespected, Update
<1>8. QED
  BY <1>6, <1>7

LEMMA RequestRouteDeleteKeeps ==
    ASSUME IndInv, NEW p \in Procs, RequestRouteDelete(p)
    PROVE  IndInv'
<1> DEFINE n == dg[p].nas
           ip == loc[p].ip
<1>1. pc[p] \in Granting
  BY DEF RequestRouteDelete, Granting
<1>2. dg[p] \in Datagrams /\ n \in Nas /\ ip \in Ips /\ loc[p] \in Locals
  BY <1>1, GrantFacts DEF Datagram
<1>3. loc[p].till \in Int /\ loc' = [loc EXCEPT ![p].till = loc[p].till]
  BY <1>2 DEF Locals, RequestRouteDelete, IndInv, TypeOK
<1>4. pc' = [pc EXCEPT ![p] = "rtAdd"] /\ UNCHANGED dg
  BY DEF RequestRouteDelete, Goto
<1>5. ChildInv'
  BY <1>1, <1>3, <1>4, GrantStep DEF Granting
<1>6. CASE routes' = routes
  BY <1>5, <1>6
     DEF ChildInv, IndInv, TypeOK, ConfOK, PoolRespected, RequestRouteDelete
<1>7. CASE routes' = [routes EXCEPT ![n][ip] = RouteDelete(@)]
  <2>1. routes[n][ip] \in Seq(Ifaces) /\ \A i \in Devices(routes[n][ip]) : InPool(ip, i)
    BY <1>2 DEF IndInv, TypeOK, PoolRespected
  <2>2. /\ routes' \in [Nas -> [Ips -> Seq(Ifaces)]]
        /\ \A k \in Nas, q \in Ips : \A i \in Devices(routes'[k][q]) : InPool(q, i)
    BY <1>2, <1>7, <2>1, RouteDeleteType, RouteStep
  <2>3. QED
    BY <1>5, <2>2
       DEF ChildInv, IndInv, TypeOK, ConfOK, PoolRespected, RequestRouteDelete
<1>8. QED
  BY <1>6, <1>7 DEF RequestRouteDelete

LEMMA RequestRouteAddKeeps ==
    ASSUME IndInv, NEW p \in Procs, RequestRouteAdd(p)
    PROVE  IndInv'
<1> DEFINE n == dg[p].nas
           ip == loc[p].ip
           dev == dg[p].iface
<1>1. pc[p] \in Granting
  BY DEF RequestRouteAdd, Granting
<1>2. /\ dg[p] \in Datagrams /\ n \in Nas /\ ip \in Ips
      /\ dev \in Ifaces /\ InPool(ip, dev)
  BY <1>1, GrantFacts DEF Datagram
<1>3. ChildInv'
  BY <1>2, ReturnKeeps DEF RequestRouteAdd
<1>4. CASE routes' = routes
  BY <1>3, <1>4
     DEF ChildInv, IndInv, TypeOK, ConfOK, PoolRespected, RequestRouteAdd
<1>5. CASE routes' = [routes EXCEPT ![n][ip] = RouteAdd(@, dev)]
  <2>1. routes[n][ip] \in Seq(Ifaces) /\ \A i \in Devices(routes[n][ip]) : InPool(ip, i)
    BY <1>2 DEF IndInv, TypeOK, PoolRespected
  <2>2. /\ routes' \in [Nas -> [Ips -> Seq(Ifaces)]]
        /\ \A k \in Nas, q \in Ips : \A i \in Devices(routes'[k][q]) : InPool(q, i)
    <3>1. /\ RouteAdd(routes[n][ip], dev) \in Seq(Ifaces)
          /\ Devices(RouteAdd(routes[n][ip], dev)) \subseteq Devices(routes[n][ip]) \cup {dev}
      BY <1>2, <2>1, RouteAddType
    <3>2. \A i \in Devices(RouteAdd(routes[n][ip], dev)) : InPool(ip, i)
      BY <1>2, <2>1, <3>1
    <3>3. QED
      BY <1>2, <1>5, <3>1, <3>2, RouteStep
  <2>3. QED
    BY <1>3, <2>2
       DEF ChildInv, IndInv, TypeOK, ConfOK, PoolRespected, RequestRouteAdd
<1>6. QED
  BY <1>4, <1>5 DEF RequestRouteAdd

LEMMA ReadOptionsKeeps ==
    ASSUME IndInv, NEW p \in Procs, ReadOptions(p)
    PROVE  IndInv'
<1> DEFINE ip == loc[p].ip
           v == IF ip \in Leased(leases)
                THEN [loc[p] EXCEPT !.told = LeaseIn(leases[ip].tmpl, FALSE)]
                ELSE [loc[p] EXCEPT !.reply = "none"]
<1>1. pc[p] = "opts" /\ dg[p] \in Datagrams /\ loc[p] \in Locals
  BY DEF IndInv, TypeOK, ChildrenOK, ChildOK, ReadOptions
<1>2. v \in Locals
  <2>1. CASE ip \in Leased(leases)
    <3>1. leases[ip].tmpl \in Templates
      BY <2>1 DEF Leased, Table, Row, IndInv, TypeOK
    <3>2. LeaseIn(leases[ip].tmpl, FALSE) \in Nat
      BY <3>1, LeaseInType
    <3>3. QED
      BY <1>1, <2>1, <3>2 DEF Locals
  <2>2. CASE ip \notin Leased(leases)
    BY <1>1, <2>2 DEF Locals
  <2>3. QED
    BY <2>1, <2>2
<1>3. loc' = [loc EXCEPT ![p] = v]
  <2>1. CASE ip \in Leased(leases)
    BY <2>1 DEF ReadOptions
  <2>2. CASE ip \notin Leased(leases)
    BY <2>2 DEF ReadOptions
  <2>3. QED
    BY <2>1, <2>2
<1> HIDE DEF v
<1>4. ChildOK("send", dg[p], v)
  BY <1>1 DEF ChildOK, Discovering, Requesting, Common, Offering, Granting
<1>5. /\ pc' = [pc EXCEPT ![p] = "send"]
      /\ dg' = [dg EXCEPT ![p] = dg[p]]
  BY DEF ReadOptions, Goto, IndInv, TypeOK
<1>6. "send" \in Labels
  BY DEF Labels
<1>7. ChildInv'
  BY <1>1, <1>2, <1>3, <1>4, <1>5, <1>6, OneChild
<1>8. QED
  BY <1>7 DEF ChildInv, IndInv, TypeOK, ConfOK, PoolRespected, ReadOptions

LEMMA QueryFailsKeeps ==
    ASSUME IndInv, NEW p \in Procs, QueryFails(p)
    PROVE  IndInv'
<1>1. ChildOK(pc[p], dg[p], loc[p])
  BY DEF IndInv, ChildrenOK
<1>2. CASE Exit(p) /\ UNCHANGED up
  BY <1>2, ExitKeeps
     DEF ChildInv, IndInv, TypeOK, ConfOK, PoolRespected, QueryFails
<1>3. CASE pc[p] \in Common /\ ClearDone(p)
  BY <1>3, ClearDoneKeeps
     DEF ChildInv, IndInv, TypeOK, ConfOK, PoolRespected, QueryFails
<1>4. CASE pc[p] \in {"find", "update"} /\ Return(p, "decline", "send") /\ UNCHANGED <<up, dg>>
  <2>1. dg[p] \in Datagrams
    BY <1>1, <1>4 DEF ChildOK, Requesting
  <2>2. ChildInv'
    BY <1>4, <2>1, ReturnKeeps
  <2>3. QED
    BY <1>4, <2>2 DEF ChildInv, IndInv, TypeOK, ConfOK, PoolRespected, QueryFails
<1>5. CASE /\ pc[p] = "lease" /\ Goto(p, "update")
           /\ loc' = [loc EXCEPT ![p].till = now + DefaultLease]
           /\ UNCHANGED <<up, dg>>
  <2>1. now + DefaultLease \in Int
    BY TimesAssumption DEF IndInv, TypeOK
  <2>2. ChildInv'
    BY <1>5, <2>1, GrantStep DEF Goto, Granting
  <2>3. QED
    BY <1>5, <2>2 DEF ChildInv, IndInv, TypeOK, ConfOK, PoolRespected, QueryFails
<1>6. CASE pc[p] = "opts" /\ Return(p, "none", "send") /\ UNCHANGED <<up, dg>>
  <2>1. dg[p] \in Datagrams
    BY <1>1, <1>6 DEF ChildOK
  <2>2. ChildInv'
    BY <1>6, <2>1, ReturnKeeps
  <2>3. QED
    BY <1>6, <2>2 DEF ChildInv, IndInv, TypeOK, ConfOK, PoolRespected, QueryFails
<1>7. QED
  BY <1>2, <1>3, <1>4, <1>5, <1>6 DEF QueryFails, Common

\* A child that goes from one label to the next with other locals, the pool and the
\* address untouched.
LEMMA LocalsStep ==
    ASSUME IndInv, NEW p \in Procs, dg[p] \in Datagrams \cup Startup,
           NEW l \in Labels, NEW v \in Locals,
           v.pool = loc[p].pool, v.ip = loc[p].ip,
           ChildOK(l, dg[p], loc[p]),
           pc' = [pc EXCEPT ![p] = l],
           UNCHANGED dg,
           loc' = [loc EXCEPT ![p] = v]
    PROVE  ChildInv'
<1>1. ChildOK(l, dg[p], v)
  BY DEF ChildOK
<1>2. dg' = [dg EXCEPT ![p] = dg[p]]
  BY DEF IndInv, TypeOK
<1>3. QED
  BY <1>1, <1>2, OneChild

LEMMA AnswerBreaksKeeps ==
    ASSUME IndInv, NEW p \in Procs, AnswerBreaks(p)
    PROVE  IndInv'
<1>1. ChildOK(pc[p], dg[p], loc[p]) /\ loc[p] \in Locals /\ now \in Nat
  BY DEF IndInv, TypeOK, ChildrenOK
<1>2. UNCHANGED <<leases, routes, conf, now, up, dg>>
  BY DEF AnswerBreaks
<1>3. ASSUME ChildInv'
      PROVE  IndInv'
  BY <1>2, <1>3 DEF ChildInv, IndInv, TypeOK, ConfOK, PoolRespected
<1>4. CASE pc[p] = "conf" /\ Return(p, "offer", "opts")
  BY <1>1, <1>2, <1>3, <1>4, ReturnKeeps DEF ChildOK, Discovering
<1>5. CASE /\ pc[p] = "clrSelect"
           /\ Goto(p, "clrRoutes")
           /\ \E seen \in SUBSET {ip \in Expired(leases, dg[p].nas, now) :
                                     leases[ip].state = "allocated"} :
                loc' = [loc EXCEPT ![p].t = now, ![p].todo = seen]
  <2>1. PICK seen \in SUBSET Ips : loc' = [loc EXCEPT ![p].t = now, ![p].todo = seen]
    BY <1>5 DEF Expired, Leased
  <2> DEFINE v == [loc[p] EXCEPT !.t = now, !.todo = seen]
  <2>2. v \in Locals /\ v.pool = loc[p].pool /\ v.ip = loc[p].ip
    BY <1>1 DEF Locals
  <2>3. loc' = [loc EXCEPT ![p] = v] /\ pc' = [pc EXCEPT ![p] = "clrRoutes"]
    BY <1>5, <2>1 DEF Goto
  <2>4. ChildOK("clrRoutes", dg[p], loc[p]) /\ dg[p] \in Datagrams \cup Startup
    BY <1>1, <1>5 DEF ChildOK, Discovering, Requesting, Common, Offering, Granting
  <2>5. "clrRoutes" \in Labels
    BY DEF Labels, Common
  <2> HIDE DEF v
  <2>6. QED
    BY <1>2, <1>3, <2>2, <2>3, <2>4, <2>5, LocalsStep
<1>6. CASE pc[p] = "offer" /\ Goto(p, "scan") /\ loc' = [loc EXCEPT ![p].cut = TRUE]
  <2> DEFINE v == [loc[p] EXCEPT !.cut = TRUE]
  <2>1. v \in Locals /\ v.pool = loc[p].pool /\ v.ip = loc[p].ip
    BY <1>1 DEF Locals
  <2>2. loc' = [loc EXCEPT ![p] = v] /\ pc' = [pc EXCEPT ![p] = "scan"]
    BY <1>6 DEF Goto
  <2>3. ChildOK("scan", dg[p], loc[p]) /\ dg[p] \in Datagrams \cup Startup
    BY <1>1, <1>6 DEF ChildOK, Discovering, Requesting, Common, Offering, Granting
  <2>4. "scan" \in Labels
    BY DEF Labels, Discovering
  <2> HIDE DEF v
  <2>5. QED
    BY <1>2, <1>3, <2>1, <2>2, <2>3, <2>4, LocalsStep
<1>7. CASE pc[p] = "find" /\ Return(p, "nak", "send")
  BY <1>1, <1>2, <1>3, <1>7, ReturnKeeps DEF ChildOK, Requesting
<1>8. CASE /\ pc[p] = "lease" /\ Goto(p, "update")
           /\ loc' = [loc EXCEPT ![p].till = now + DefaultLease]
  <2>1. now + DefaultLease \in Int
    BY <1>1, TimesAssumption
  <2>2. QED
    BY <1>2, <1>3, <1>8, <2>1, GrantStep DEF Goto, Granting
<1>9. CASE /\ pc[p] = "opts" /\ Goto(p, "send")
           /\ loc' = [loc EXCEPT ![p].reply = "none"] \/ UNCHANGED loc
  <2> DEFINE v == [loc[p] EXCEPT !.reply = "none"]
  <2>1. v \in Locals /\ v.pool = loc[p].pool /\ v.ip = loc[p].ip
    BY <1>1 DEF Locals
  <2>2. pc' = [pc EXCEPT ![p] = "send"] /\ "send" \in Labels
    BY <1>9 DEF Goto, Labels
  <2>3. ChildOK("send", dg[p], loc[p]) /\ dg[p] \in Datagrams \cup Startup
    BY <1>1, <1>9 DEF ChildOK, Discovering, Requesting, Common, Offering, Granting
  <2>4. \/ loc' = [loc EXCEPT ![p] = v]
        \/ loc' = [loc EXCEPT ![p] = loc[p]]
    BY <1>9 DEF IndInv, TypeOK
  <2> HIDE DEF v
  <2>5. QED
    BY <1>1, <1>2, <1>3, <2>1, <2>2, <2>3, <2>4, LocalsStep
<1>10. QED
  BY <1>4, <1>5, <1>6, <1>7, <1>8, <1>9 DEF AnswerBreaks

LEMMA ScanBreaksKeeps ==
    ASSUME IndInv, NEW p \in Procs, ScanBreaks(p)
    PROVE  IndInv'
<1> DEFINE pool == loc[p].pool
<1>1. PICK k \in (pool.s - 1)..pool.e :
        LET ip == FreeAddress(Leased(leases) \cap (pool.s..k), pool.s, pool.e) IN
        IF ip = NoIp
        THEN Exit(p)
        ELSE /\ Goto(p, "storeDelete")
             /\ loc' = [loc EXCEPT ![p].ip = ip, ![p].cut = TRUE]
             /\ UNCHANGED dg
  BY DEF ScanBreaks
<1> DEFINE ip == FreeAddress(Leased(leases) \cap (pool.s..k), pool.s, pool.e)
           v == [loc[p] EXCEPT !.ip = ip, !.cut = TRUE]
<1>2. pc[p] = "scan" /\ ChildOK("scan", dg[p], loc[p])
  BY DEF IndInv, ChildrenOK, ScanBreaks
<1>3. dg[p] \in Datagrams /\ dg[p].type = "discover" /\ pool \in PoolConf
      /\ \A q \in pool.s..pool.e : InPool(q, dg[p].iface)
  BY <1>2 DEF ChildOK, Discovering, Offering
<1>4. UNCHANGED <<leases, routes, conf, now, up>>
  BY DEF ScanBreaks
<1>5. ASSUME ChildInv'
      PROVE  IndInv'
  BY <1>4, <1>5 DEF ChildInv, IndInv, TypeOK, ConfOK, PoolRespected
<1>6. CASE ip = NoIp
  BY <1>1, <1>5, <1>6, ExitKeeps
<1>7. CASE ip # NoIp
  <2>1. pool.s \in Nat /\ pool.e \in Nat
    BY <1>3 DEF PoolConf
  <2>2. ip \in pool.s..pool.e
    BY <1>7, <2>1, CutScanInList
  <2>3. dg[p].iface \in Ifaces
    BY <1>3, DatagramsAssumption DEF Datagram
  <2>4. InPool(ip, dg[p].iface) /\ ip \in Ips
    BY <1>3, <2>2, <2>3, PoolInIps
  <2>5. /\ pc' = [pc EXCEPT ![p] = "storeDelete"]
        /\ dg' = [dg EXCEPT ![p] = dg[p]]
        /\ loc' = [loc EXCEPT ![p] = v]
    BY <1>1, <1>7 DEF Goto, IndInv, TypeOK
  <2> HIDE DEF ip
  <2>6. v \in Locals /\ v.pool = pool /\ v.ip = ip
    BY <2>4 DEF Locals, IndInv, TypeOK
  <2>7. ChildOK("storeDelete", dg[p], v)
    BY <1>3, <2>4, <2>6 DEF ChildOK, Discovering, Requesting, Common, Offering, Granting
  <2>8. "storeDelete" \in Labels
    BY DEF Labels, Discovering
  <2> HIDE DEF v
  <2>9. QED
    BY <1>3, <1>5, <2>5, <2>6, <2>7, <2>8, OneChild
<1>8. QED
  BY <1>6, <1>7

-------------------------------------------------------------------------------
(* The rest of the world                                                       *)

LEMMA RebootKeeps ==
    ASSUME IndInv, NEW n \in Nas, Reboot(n)
    PROVE  IndInv'
<1> DEFINE dead == {p \in Procs : pc[p] # "idle" /\ dg[p].nas = n}
<1>1. /\ pc' \in [Procs -> Labels]
      /\ dg' \in [Procs -> Datagrams \cup Startup \cup {Nil}]
      /\ loc' \in [Procs -> Locals]
  BY NoLocalsType DEF Reboot, IndInv, TypeOK, Labels
<1>2. ASSUME NEW p \in Procs
      PROVE  ChildOK(pc'[p], dg'[p], loc'[p])
  <2>1. CASE p \in dead
    <3>1. pc'[p] = "idle"
      BY <2>1 DEF Reboot
    <3>2. QED
      BY <3>1 DEF ChildOK, Discovering, Requesting, Common, Offering, Granting
  <2>2. CASE p \notin dead
    <3>1. pc'[p] = pc[p] /\ dg'[p] = dg[p] /\ loc'[p] = loc[p]
      BY <2>2 DEF Reboot
    <3>2. ChildOK(pc[p], dg[p], loc[p])
      BY DEF IndInv, ChildrenOK
    <3>3. QED
      BY <3>1, <3>2
  <2>3. QED
    BY <2>1, <2>2
<1>3. routes' \in [Nas -> [Ips -> Seq(Ifaces)]]
      /\ \A k \in Nas, q \in Ips : routes'[k][q] = IF k = n THEN <<>> ELSE routes[k][q]
  BY DEF Reboot, IndInv, TypeOK
<1>4. \A k \in Nas, q \in Ips : \A i \in Devices(routes'[k][q]) : InPool(q, i)
  <2>1. Devices(<<>>) = {}
    BY DEF Devices
  <2>2. \A k \in Nas, q \in Ips : Devices(routes'[k][q]) \subseteq Devices(routes[k][q])
    BY <1>3, <2>1
  <2>3. QED
    BY <2>2 DEF IndInv, PoolRespected
<1>5. up' \subseteq Nas
  BY DEF Reboot, IndInv, TypeOK
<1>6. ChildrenOK'
  BY <1>2 DEF ChildrenOK
<1>7. QED
  BY <1>1, <1>3, <1>4, <1>5, <1>6 DEF IndInv, TypeOK, ConfOK, PoolRespected, Reboot

LEMMA BootKeeps ==
    ASSUME IndInv, NEW n \in Nas, NEW p \in Procs, Boot(n, p)
    PROVE  IndInv'
<1> DEFINE d == [type |-> "boot", nas |-> n]
<1>1. d \in Startup
  BY DEF Startup
<1>2. ChildOK("clrSelect", d, loc[p])
  BY <1>1 DEF ChildOK, Discovering, Requesting, Common, Offering, Granting
<1>3. /\ pc' = [pc EXCEPT ![p] = "clrSelect"]
      /\ dg' = [dg EXCEPT ![p] = d]
      /\ loc' = [loc EXCEPT ![p] = loc[p]]
  BY DEF Boot, Goto, IndInv, TypeOK
<1>4. "clrSelect" \in Labels /\ loc[p] \in Locals
  BY DEF Labels, Common, IndInv, TypeOK
<1> HIDE DEF d
<1>5. ChildInv'
  BY <1>1, <1>2, <1>3, <1>4, OneChild
<1>6. QED
  BY <1>5 DEF ChildInv, IndInv, TypeOK, ConfOK, PoolRespected, Boot

LEMMA SendKeeps ==
    ASSUME IndInv, NEW p \in Procs, Send(p)
    PROVE  IndInv'
  BY ExitKeeps DEF Send, ChildInv, IndInv, TypeOK, ConfOK, PoolRespected

LEMMA EnvironmentKeeps ==
    ASSUME IndInv, Environment
    PROVE  IndInv'
<1>1. CASE Tick
  BY <1>1 DEF Tick, IndInv, TypeOK, ConfOK, PoolRespected, ChildrenOK
<1>2. ASSUME NEW i \in Ifaces, Reconfigure(i)
      PROVE  IndInv'
  <2>1. PICK c \in ConfChoices[i] : conf' = [conf EXCEPT ![i] = c]
    BY <1>2 DEF Reconfigure
  <2>2. c \in PoolConf \cup {NoConf}
    BY ConfAssumption
  <2>3. conf' \in [Ifaces -> PoolConf \cup {NoConf}] /\ ConfOK'
    BY <2>1, <2>2 DEF IndInv, TypeOK, ConfOK
  <2>4. QED
    BY <1>2, <2>3 DEF Reconfigure, IndInv, TypeOK, PoolRespected, ChildrenOK
<1>3. ASSUME NEW n \in Nas, Stop(n)
      PROVE  IndInv'
  BY <1>3 DEF Stop, IndInv, TypeOK, ConfOK, PoolRespected, ChildrenOK
<1>4. QED
  BY <1>1, <1>2, <1>3, RebootKeeps DEF Environment

-------------------------------------------------------------------------------
(* Theorems                                                                    *)

LEMMA NextKeeps == IndInv /\ [Next]_vars => IndInv'
<1> SUFFICES ASSUME IndInv, [Next]_vars
             PROVE  IndInv'
  OBVIOUS
<1>1. ASSUME NEW p \in Procs, Step(p)
      PROVE  IndInv'
  BY <1>1, ReadConfKeeps, ClearSelectKeeps, ClearRouteKeeps, ClearDeleteKeeps,
     OfferHeldKeeps, ScanKeeps, StoreDeleteKeeps, StoreInsertKeeps, FindKeeps,
     ReadLeaseKeeps, UpdateKeeps, RequestRouteDeleteKeeps, RequestRouteAddKeeps,
     ReadOptionsKeeps, SendKeeps, QueryFailsKeeps, AnswerBreaksKeeps, ScanBreaksKeeps
     DEF Step
<1>2. CASE UNCHANGED vars
  BY <1>2 DEF vars, IndInv, TypeOK, ConfOK, PoolRespected, ChildrenOK
<1>3. QED
  BY <1>1, <1>2, ForkKeeps, BootKeeps, EnvironmentKeeps DEF Next

LEMMA Invariance == Spec => []IndInv
  BY InitOK, NextKeeps, PTL DEF Spec

\* Type correctness, with any number of children, servers, interfaces and addresses.
THEOREM TypeCorrect == Spec => []TypeOK
<1>1. IndInv => TypeOK
  BY DEF IndInv
<1>2. QED
  BY <1>1, Invariance, PTL

\* However the children interleave and whatever fails, rows and routes stay inside
\* the lists of their interfaces.
THEOREM PoolsHold == Spec => []PoolRespected
<1>1. IndInv => PoolRespected
  BY DEF IndInv
<1>2. QED
  BY <1>1, Invariance, PTL

-------------------------------------------------------------------------------
(* Rows that leave the table                                                   *)

\* The clock a child compares with is not ahead of the clock.
ClockOK == \A p \in Procs : pc[p] = "clrRoutes" => loc[p].t <= now

ClockInv == IndInv /\ ClockOK

\* Every child that is not the one that moves keeps what ClockOK says of it.
LEMMA ClockOfChild ==
    ASSUME ClockInv, NEW p \in Procs,
           now' = now,
           \A q \in Procs \ {p} : pc'[q] = pc[q] /\ loc'[q] = loc[q],
           pc'[p] = "clrRoutes" => loc'[p].t <= now
    PROVE  ClockOK'
  BY DEF ClockInv, ClockOK

\* What a step of one child leaves as it is.
LEMMA OthersUntouched ==
    ASSUME IndInv, NEW p \in Procs,
           \/ Step(p)
           \/ \E d \in Datagrams : Fork(p, d)
           \/ \E n \in Nas : Boot(n, p)
    PROVE  /\ now' = now
           /\ \A q \in Procs \ {p} : pc'[q] = pc[q] /\ loc'[q] = loc[q] /\ dg'[q] = dg[q]
<1> USE DEF IndInv, TypeOK, Goto, Exit, Return, ClearDone
<1>1. ASSUME NEW d \in Datagrams, Fork(p, d)
      PROVE  /\ now' = now
             /\ \A q \in Procs \ {p} : pc'[q] = pc[q] /\ loc'[q] = loc[q] /\ dg'[q] = dg[q]
  BY <1>1 DEF Fork
<1>2. ASSUME NEW n \in Nas, Boot(n, p)
      PROVE  /\ now' = now
             /\ \A q \in Procs \ {p} : pc'[q] = pc[q] /\ loc'[q] = loc[q] /\ dg'[q] = dg[q]
  BY <1>2 DEF Boot
<1>3. CASE ReadConf(p)
  BY <1>3 DEF ReadConf
<1>4. CASE ClearSelect(p) \/ ClearRoute(p) \/ ClearDelete(p)
  BY <1>4 DEF ClearSelect, ClearRoute, ClearDelete
<1>5. CASE OfferHeld(p) \/ Scan(p)
  BY <1>5 DEF OfferHeld, Scan
<1>6. CASE StoreDelete(p) \/ StoreInsert(p)
  BY <1>6 DEF StoreDelete, StoreInsert
<1>7. CASE Find(p) \/ ReadLease(p) \/ Update(p)
  BY <1>7 DEF Find, ReadLease, Update
<1>8. CASE RequestRouteDelete(p) \/ RequestRouteAdd(p)
  BY <1>8 DEF RequestRouteDelete, RequestRouteAdd
<1>9. CASE ReadOptions(p) \/ Send(p)
  BY <1>9 DEF ReadOptions, Send
<1>10. CASE QueryFails(p)
  BY <1>10 DEF QueryFails
<1>11. CASE AnswerBreaks(p)
  BY <1>11 DEF AnswerBreaks
<1>12. CASE ScanBreaks(p)
  BY <1>12 DEF ScanBreaks
<1>13. QED
  BY <1>1, <1>2, <1>3, <1>4, <1>5, <1>6, <1>7, <1>8, <1>9, <1>10, <1>11, <1>12 DEF Step

\* Only the select of clear_leases, read to its end or not, brings a child to the
\* label where the clock matters.
LEMMA ReachesClrRoutes ==
    ASSUME IndInv, NEW p \in Procs,
           \/ Step(p)
           \/ \E d \in Datagrams : Fork(p, d)
           \/ \E n \in Nas : Boot(n, p),
           pc'[p] = "clrRoutes"
    PROVE  \/ loc'[p].t = now
           \/ pc[p] = "clrRoutes" /\ loc'[p].t = loc[p].t
<1> USE DEF IndInv, TypeOK, Goto, Exit, Return, ClearDone, Locals
<1>1. CASE ClearSelect(p)
  BY <1>1 DEF ClearSelect
<1>2. CASE ClearRoute(p)
  BY <1>2 DEF ClearRoute
<1>3. ASSUME NEW d \in Datagrams, Fork(p, d)
      PROVE  FALSE
  BY <1>3 DEF Fork
<1>4. ASSUME NEW n \in Nas, Boot(n, p)
      PROVE  FALSE
  BY <1>4 DEF Boot
<1>5. CASE ReadConf(p) \/ ClearDelete(p) \/ OfferHeld(p) \/ Scan(p) \/ StoreDelete(p)
  BY <1>5 DEF ReadConf, ClearDelete, OfferHeld, Scan, StoreDelete
<1>6. CASE StoreInsert(p) \/ Find(p) \/ ReadLease(p) \/ Update(p)
  BY <1>6 DEF StoreInsert, Find, ReadLease, Update
<1>7. CASE RequestRouteDelete(p) \/ RequestRouteAdd(p) \/ ReadOptions(p) \/ Send(p)
  BY <1>7 DEF RequestRouteDelete, RequestRouteAdd, ReadOptions, Send
<1>8. CASE QueryFails(p)
  BY <1>8 DEF QueryFails
<1>9. CASE AnswerBreaks(p)
  BY <1>9 DEF AnswerBreaks
<1>10. CASE ScanBreaks(p)
  BY <1>10 DEF ScanBreaks
<1>11. QED
  BY <1>1, <1>2, <1>3, <1>4, <1>5, <1>6, <1>7, <1>8, <1>9, <1>10 DEF Step

LEMMA ClockInvariance == Spec => []ClockInv
<1>1. Init => ClockInv
  BY InitOK DEF Init, ClockInv, ClockOK
<1>2. ClockInv /\ [Next]_vars => ClockInv'
  <2> SUFFICES ASSUME ClockInv, [Next]_vars
               PROVE  ClockInv'
    OBVIOUS
  <2>1. IndInv /\ IndInv'
    BY NextKeeps DEF ClockInv
  <2>2. ASSUME NEW p \in Procs,
               \/ Step(p)
               \/ \E d \in Datagrams : Fork(p, d)
               \/ \E n \in Nas : Boot(n, p)
        PROVE  ClockOK'
    <3>1. /\ now' = now
          /\ \A q \in Procs \ {p} : pc'[q] = pc[q] /\ loc'[q] = loc[q]
      BY <2>1, <2>2, OthersUntouched
    <3>2. now \in Nat
      BY <2>1 DEF IndInv, TypeOK
    <3>3. pc'[p] = "clrRoutes" => loc'[p].t <= now
      BY <2>1, <2>2, <3>2, ReachesClrRoutes DEF ClockInv, ClockOK
    <3>4. QED
      BY <3>1, <3>3, ClockOfChild
  <2>3. ASSUME Environment
        PROVE  ClockOK'
    <3>1. now \in Nat /\ loc \in [Procs -> Locals]
      BY <2>1 DEF IndInv, TypeOK
    <3>2. CASE Tick
      BY <3>1, <3>2 DEF Tick, ClockInv, ClockOK, Locals
    <3>3. ASSUME NEW i \in Ifaces, Reconfigure(i)
          PROVE  ClockOK'
      BY <3>3 DEF Reconfigure, ClockInv, ClockOK
    <3>4. ASSUME NEW n \in Nas, Stop(n) \/ Reboot(n)
          PROVE  ClockOK'
      BY <3>4 DEF Stop, Reboot, ClockInv, ClockOK
    <3>5. QED
      BY <2>3, <3>2, <3>3, <3>4 DEF Environment
  <2>4. ASSUME UNCHANGED vars
        PROVE  ClockOK'
    BY <2>4 DEF vars, ClockInv, ClockOK
  <2>5. QED
    BY <2>1, <2>2, <2>3, <2>4 DEF Next, ClockInv
<1>3. QED
  BY <1>1, <1>2, PTL DEF Spec

\* The steps that write the table.
LEMMA Writers ==
    ASSUME [Next]_vars, leases' # leases
    PROVE  \E p \in Procs : ClearDelete(p) \/ StoreDelete(p) \/ StoreInsert(p) \/ Update(p)
<1>1. ASSUME NEW p \in Procs, Step(p)
      PROVE  ClearDelete(p) \/ StoreDelete(p) \/ StoreInsert(p) \/ Update(p)
  BY <1>1 DEF Step, ReadConf, ClearSelect, ClearRoute, OfferHeld, Scan, Find, ReadLease,
     RequestRouteDelete, RequestRouteAdd, ReadOptions, Send, QueryFails, AnswerBreaks, ScanBreaks
<1>2. Environment => leases' = leases
  BY DEF Environment, Tick, Reconfigure, Stop, Reboot
<1>3. QED
  BY <1>1, <1>2 DEF Next, Fork, Boot, vars

\* A live lease is never cleared, however children of any number of servers
\* interleave between the select, the route requests and the delete.
THEOREM LiveLeasesStay == Spec => NoLiveLeaseCleared
<1>1. ClockInv /\ [Next]_vars => ClearsOnlyExpired
  <2> SUFFICES ASSUME ClockInv, [Next]_vars,
                      NEW ip \in Leased(leases),
                      Live(leases[ip], now), leases'[ip] = NoRow
               PROVE  \E p \in Procs : pc[p] = "storeDelete" /\ loc[p].ip = ip
    BY DEF ClearsOnlyExpired
  <2>1. /\ leases \in Table /\ now \in Nat /\ loc \in [Procs -> Locals]
        /\ ip \in Ips /\ leases[ip] # NoRow /\ leases[ip] \in Row
    BY DEF ClockInv, IndInv, TypeOK, Leased, Table
  <2>2. PICK p \in Procs : ClearDelete(p) \/ StoreDelete(p) \/ StoreInsert(p) \/ Update(p)
    BY <2>1, Writers
  <2>3. CASE ClearDelete(p)
    <3>1. ~leases[ip].static /\ leases[ip].till < loc[p].t
      BY <2>1, <2>3, ClearExpiredKeepsLive DEF ClearDelete
    <3>2. loc[p].t <= now /\ loc[p].t \in Nat /\ leases[ip].till \in Int
      BY <2>1, <2>3 DEF ClockInv, ClockOK, ClearDelete, Locals, Row
    <3>3. QED
      BY <2>1, <3>1, <3>2 DEF Live
  <2>4. CASE StoreDelete(p)
    <3>1. \A q \in Ips : leases'[q] = IF q = loc[p].ip THEN NoRow ELSE leases[q]
      BY <2>1, <2>4, DeleteIpType DEF StoreDelete
    <3>2. loc[p].ip = ip
      BY <2>1, <3>1
    <3>3. QED
      BY <2>4, <3>2 DEF StoreDelete
  <2>5. CASE StoreInsert(p)
    <3>1. \/ leases' = leases
          \/ /\ CanInsert(leases, loc[p].ip, OfferedRow(p))
             /\ leases' = [leases EXCEPT ![loc[p].ip] = OfferedRow(p)]
      BY <2>5 DEF StoreInsert
    <3>2. leases'[ip] = leases[ip]
      BY <2>1, <3>1 DEF CanInsert, Table
    <3>3. QED
      BY <2>1, <3>2
  <2>6. CASE Update(p)
    <3>1. pc[p] \in Granting
      BY <2>6 DEF Update, Granting
    <3>2. dg[p].iface \in Ifaces /\ dg[p].mac \in Macs /\ loc[p].till \in Int
      BY <3>1, GrantFacts DEF Datagram, Locals, ClockInv
    <3>3. Leased(leases') = Leased(leases)
      BY <2>1, <2>6, <3>2, ConfirmType DEF Update
    <3>4. QED
      BY <2>1, <3>3 DEF Leased
  <2>7. QED
    BY <2>2, <2>3, <2>4, <2>5, <2>6
<1>2. QED
  BY <1>1, ClockInvariance, PTL DEF Spec, NoLiveLeaseCleared

-------------------------------------------------------------------------------
(* Children that do not overlap                                                *)

\* The offer a child is about to store replaces no row of another interface, or it
\* comes from an answer that broke off.
TargetOK ==
    \A p \in Procs :
        pc[p] = "storeDelete" /\ loc[p].ip \in Leased(leases) =>
            leases[loc[p].ip].iface = dg[p].iface \/ loc[p].cut

SerialInv == ClockInv /\ TargetOK

\* A child gets to store an offer from offer_ip or from the scan.
LEMMA ReachesStoreDelete ==
    ASSUME IndInv, NEW p \in Procs,
           \/ Step(p)
           \/ \E d \in Datagrams : Fork(p, d)
           \/ \E n \in Nas : Boot(n, p),
           pc'[p] = "storeDelete"
    PROVE  OfferHeld(p) \/ Scan(p) \/ ScanBreaks(p)
<1> USE DEF IndInv, TypeOK, Goto, Exit, Return, ClearDone
<1>1. ASSUME NEW d \in Datagrams, Fork(p, d)
      PROVE  FALSE
  BY <1>1 DEF Fork
<1>2. ASSUME NEW n \in Nas, Boot(n, p)
      PROVE  FALSE
  BY <1>2 DEF Boot
<1>3. CASE ReadConf(p) \/ ClearSelect(p) \/ ClearRoute(p) \/ ClearDelete(p) \/ StoreDelete(p)
  BY <1>3 DEF ReadConf, ClearSelect, ClearRoute, ClearDelete, StoreDelete
<1>4. CASE StoreInsert(p) \/ Find(p) \/ ReadLease(p) \/ Update(p)
  BY <1>4 DEF StoreInsert, Find, ReadLease, Update
<1>5. CASE RequestRouteDelete(p) \/ RequestRouteAdd(p) \/ ReadOptions(p) \/ Send(p)
  BY <1>5 DEF RequestRouteDelete, RequestRouteAdd, ReadOptions, Send
<1>6. CASE QueryFails(p) \/ AnswerBreaks(p)
  BY <1>6 DEF QueryFails, AnswerBreaks
<1>7. QED
  BY <1>1, <1>2, <1>3, <1>4, <1>5, <1>6 DEF Step

LEMMA TargetChosen ==
    ASSUME IndInv, NEW p \in Procs, OfferHeld(p) \/ Scan(p), pc'[p] = "storeDelete",
           loc'[p].ip \in Leased(leases)
    PROVE  leases'[loc'[p].ip].iface = dg'[p].iface
<1> DEFINE pool == loc[p].pool
<1>1. (leases' = leases /\ dg' = dg) \/ Exit(p)
  BY DEF OfferHeld, Scan
<1>2. ~Exit(p)
  BY DEF Exit, Goto, IndInv, TypeOK
<1>3. CASE OfferHeld(p)
  <2>1. HeldBy(leases, dg[p].iface, pool.s, pool.e) # {}
    BY <1>3 DEF OfferHeld, Goto, IndInv, TypeOK
  <2>2. loc'[p].ip \in HeldBy(leases, dg[p].iface, pool.s, pool.e)
    BY <1>3, <2>1 DEF OfferHeld, IndInv, TypeOK, Locals
  <2>3. QED
    BY <1>1, <1>2, <2>2 DEF HeldBy
<1>4. CASE Scan(p)
  <2>1. pool \in PoolConf /\ pool.s \in Nat /\ pool.e \in Nat /\ leases \in Table
    BY <1>4 DEF Scan, IndInv, TypeOK, ChildrenOK, ChildOK, Offering, PoolConf
  <2>2. DynIp(leases, pool.s, pool.e) # NoIp
    BY <1>2, <1>4 DEF Scan
  <2>3. DynIp(leases, pool.s, pool.e) \notin Leased(leases)
    BY <2>1, <2>2, ScanFindsFree
  <2>4. loc'[p].ip = DynIp(leases, pool.s, pool.e)
    BY <1>4, <2>2 DEF Scan, IndInv, TypeOK, Locals
  <2>5. QED
    BY <2>3, <2>4
<1>5. QED
  BY <1>3, <1>4

\* A scan that saw only some rows leaves its mark.
LEMMA TargetMarked ==
    ASSUME IndInv, NEW p \in Procs, ScanBreaks(p), pc'[p] = "storeDelete"
    PROVE  loc'[p].cut /\ leases' = leases
<1>1. ~Exit(p)
  BY DEF Exit, Goto, IndInv, TypeOK
<1>2. PICK ip : loc' = [loc EXCEPT ![p].ip = ip, ![p].cut = TRUE]
  BY <1>1 DEF ScanBreaks
<1>3. loc \in [Procs -> Locals]
  BY DEF IndInv, TypeOK
<1>4. QED
  BY <1>2, <1>3 DEF ScanBreaks, Locals

LEMMA SerialInvariance ==
    ASSUME \A p, q \in Procs : p = q
    PROVE  Spec => []SerialInv
<1>1. Init => SerialInv
  BY InitOK DEF Init, SerialInv, ClockInv, ClockOK, TargetOK
<1>2. SerialInv /\ ClockInv' /\ [Next]_vars => SerialInv'
  <2> SUFFICES ASSUME SerialInv, [Next]_vars,
                      NEW p \in Procs,
                      pc'[p] = "storeDelete", loc'[p].ip \in Leased(leases')
               PROVE  leases'[loc'[p].ip].iface = dg'[p].iface \/ loc'[p].cut
    BY DEF SerialInv, TargetOK
  <2>1. IndInv
    BY DEF SerialInv, ClockInv
  <2>2. CASE \/ Step(p)
             \/ \E d \in Datagrams : Fork(p, d)
             \/ \E n \in Nas : Boot(n, p)
    <3>1. OfferHeld(p) \/ Scan(p) \/ ScanBreaks(p)
      BY <2>1, <2>2, ReachesStoreDelete
    <3>2. CASE OfferHeld(p) \/ Scan(p)
      <4>1. leases' = leases
        BY <3>2 DEF OfferHeld, Scan
      <4>2. QED
        BY <2>1, <3>2, <4>1, TargetChosen
    <3>3. CASE ScanBreaks(p)
      BY <2>1, <3>3, TargetMarked
    <3>4. QED
      BY <3>1, <3>2, <3>3
  <2>3. CASE Environment \/ UNCHANGED vars
    <3>1. leases' = leases /\ pc'[p] = pc[p] /\ loc'[p] = loc[p] /\ dg'[p] = dg[p]
      BY <2>3 DEF Environment, Tick, Reconfigure, Stop, Reboot, vars
    <3>2. QED
      BY <3>1 DEF SerialInv, TargetOK
  <2>4. QED
    BY <2>2, <2>3 DEF Next
<1>3. QED
  BY <1>1, <1>2, ClockInvariance, PTL DEF Spec

\* While children do not overlap, an address with a live lease leaves its
\* interface only at that interface's own request, or by a child whose own look-up
\* or scan was cut short.
THEOREM OwnersKeepAddresses ==
    ASSUME \A p, q \in Procs : p = q
    PROVE  Spec => OwnerKeepsAddress
<1>1. SerialInv /\ [Next]_vars => OnlyOwnerTakes
  <2> SUFFICES ASSUME SerialInv, [Next]_vars,
                      NEW ip \in Leased(leases),
                      Live(leases[ip], now),
                      leases'[ip] = NoRow \/ leases'[ip].iface # leases[ip].iface
               PROVE  \E p \in Procs :
                         pc[p] = "storeDelete" /\ (dg[p].iface = leases[ip].iface \/ loc[p].cut)
    BY DEF OnlyOwnerTakes
  <2>1. /\ IndInv /\ ClockOK /\ TargetOK
        /\ leases \in Table /\ now \in Nat /\ loc \in [Procs -> Locals]
        /\ ip \in Ips /\ leases[ip] # NoRow /\ leases[ip] \in Row
    BY DEF SerialInv, ClockInv, IndInv, TypeOK, Leased, Table
  <2>2. leases'[ip] # leases[ip]
    BY <2>1
  <2>3. PICK p \in Procs : ClearDelete(p) \/ StoreDelete(p) \/ StoreInsert(p) \/ Update(p)
    BY <2>2, Writers
  <2>4. CASE ClearDelete(p)
    <3>1. leases'[ip] = NoRow
      BY <2>1, <2>2, <2>4, ClearExpiredType DEF ClearDelete
    <3>2. ~leases[ip].static /\ leases[ip].till < loc[p].t
      BY <2>1, <2>4, <3>1, ClearExpiredKeepsLive DEF ClearDelete
    <3>3. loc[p].t <= now /\ loc[p].t \in Nat /\ leases[ip].till \in Int
      BY <2>1, <2>4 DEF ClockOK, ClearDelete, Locals, Row
    <3>4. QED
      BY <2>1, <3>2, <3>3 DEF Live
  <2>5. CASE StoreDelete(p)
    <3>1. \A q \in Ips : leases'[q] = IF q = loc[p].ip THEN NoRow ELSE leases[q]
      BY <2>1, <2>5, DeleteIpType DEF StoreDelete
    <3>2. loc[p].ip = ip
      BY <2>1, <2>2, <3>1
    <3>3. QED
      BY <2>1, <2>5, <3>2 DEF StoreDelete, TargetOK
  <2>6. CASE StoreInsert(p)
    <3>1. /\ CanInsert(leases, loc[p].ip, OfferedRow(p))
          /\ leases' = [leases EXCEPT ![loc[p].ip] = OfferedRow(p)]
      BY <2>2, <2>6 DEF StoreInsert
    <3>2. leases'[ip] = leases[ip]
      BY <2>1, <3>1 DEF CanInsert, Table
    <3>3. QED
      BY <2>2, <3>2
  <2>7. CASE Update(p)
    <3>1. pc[p] \in Granting
      BY <2>7 DEF Update, Granting
    <3>2. dg[p].iface \in Ifaces /\ dg[p].mac \in Macs /\ loc[p].till \in Int
      BY <2>1, <3>1, GrantFacts DEF Datagram, Locals
    <3>3. Leased(leases') = Leased(leases) /\ leases'[ip].iface = leases[ip].iface
      BY <2>1, <2>7, <3>2, ConfirmType DEF Update
    <3>4. QED
      BY <2>1, <3>3 DEF Leased
  <2>8. QED
    BY <2>3, <2>4, <2>5, <2>6, <2>7
<1>2. QED
  BY <1>1, SerialInvariance, PTL DEF Spec, OwnerKeepsAddress
===============================================================================
