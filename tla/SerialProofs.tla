----------------------------- MODULE SerialProofs ------------------------------
(* What holds while children do not overlap, for every set of interfaces,       *)
(* addresses, servers, configurations and templates.  Seriality is the          *)
(* hypothesis \A p, q \in Procs : p = q: there is one child at a time.           *)
EXTENDS LeaseServerProofs, LeaseHistory

\* A step of a child, as opposed to one of the environment.
ChildStep(p) ==
    \/ Step(p)
    \/ \E d \in Datagrams : Fork(p, d)
    \/ \E n \in Nas : Boot(n, p)

\* What the lemmas on single steps need of the types.
LEMMA TypesOf ==
    ASSUME IndInv, NEW p \in Procs
    PROVE  /\ leases \in Table /\ now \in Nat
           /\ pc \in [Procs -> Labels] /\ pc[p] \in Labels
           /\ dg \in [Procs -> Datagrams \cup Startup \cup {Nil}]
           /\ loc \in [Procs -> Locals] /\ loc[p] \in Locals
           /\ ChildOK(pc[p], dg[p], loc[p])
  BY DEF IndInv, TypeOK, ChildrenOK

\* The row an offer is stored as.
LEMMA OfferedRowType ==
    ASSUME IndInv, NEW p \in Procs, pc[p] \in {"storeDelete", "storeInsert"}
    PROVE  /\ loc[p].ip \in Ips /\ OfferedRow(p) \in Row
           /\ dg[p] \in Datagrams /\ dg[p] \in Datagram
           /\ loc[p].pool \in PoolConf
<1>1. ChildOK(pc[p], dg[p], loc[p]) /\ loc[p] \in Locals
  BY TypesOf
<1>2. /\ dg[p] \in Datagrams /\ dg[p] \in Datagram
      /\ loc[p].pool \in PoolConf /\ loc[p].ip \in Ips
  BY <1>1, DatagramsAssumption DEF ChildOK, Discovering, Offering
<1>3. QED
  BY <1>1, <1>2 DEF OfferedRow, Row, Datagram, Locals, PoolConf

\* An update that succeeds confirms the one row of the interface.
LEMMA ConfirmedRow ==
    ASSUME NEW T \in Table, NEW i, NEW m, NEW till, NEW ip, HasRow(T, i, ip),
           NEW r \in Confirm(T, i, m, till), r.ok
    PROVE  /\ \A q \in Ips : r.table[q] = IF q = ip THEN Allocated(T[ip], m, till) ELSE T[q]
           /\ \A q \in Leased(T) : T[q].iface = i => q = ip
           /\ ~MacElsewhere(T, ip, m)
<1> DEFINE mine == {q \in Leased(T) : T[q].iface = i}
<1>1. ip \in mine
  BY DEF HasRow
<1>2. PICK q \in mine :
        r = IF MacElsewhere(T, q, m)
            THEN [table |-> T, ok |-> FALSE]
            ELSE [table |-> [T EXCEPT ![q] = Allocated(@, m, till)], ok |-> mine = {q}]
  BY <1>1 DEF Confirm
<1>3. ~MacElsewhere(T, q, m)
  BY <1>2
<1>4. r.table = [T EXCEPT ![q] = Allocated(@, m, till)] /\ mine = {q}
  BY <1>2, <1>3
<1>5. \A k \in Ips : r.table[k] = IF k = q THEN Allocated(T[q], m, till) ELSE T[k]
  BY <1>4 DEF Table
<1>6. QED
  BY <1>1, <1>3, <1>4, <1>5

\* What an update leaves behind, whether it succeeds or not.
LEMMA ConfirmCases ==
    ASSUME NEW T \in Table, NEW i, NEW m, NEW till, NEW r \in Confirm(T, i, m, till)
    PROVE  \/ r.table = T
           \/ \E ip \in Leased(T) :
                /\ T[ip].iface = i
                /\ ~MacElsewhere(T, ip, m)
                /\ \A q \in Ips : r.table[q] = IF q = ip THEN Allocated(T[ip], m, till)
                                                      ELSE T[q]
<1> DEFINE mine == {ip \in Leased(T) : T[ip].iface = i}
<1>1. CASE mine = {}
  BY <1>1 DEF Confirm
<1>2. CASE mine # {}
  <2>1. PICK ip \in mine :
          r = IF MacElsewhere(T, ip, m)
              THEN [table |-> T, ok |-> FALSE]
              ELSE [table |-> [T EXCEPT ![ip] = Allocated(@, m, till)],
                    ok    |-> mine = {ip}]
    BY <1>2 DEF Confirm
  <2>2. CASE MacElsewhere(T, ip, m)
    BY <2>1, <2>2
  <2>3. CASE ~MacElsewhere(T, ip, m)
    BY <2>1, <2>3 DEF Table
  <2>4. QED
    BY <2>2, <2>3
<1>3. QED
  BY <1>1, <1>2

\* A restart ends children or leaves them as they are.
LEMMA RebootEnds ==
    ASSUME NEW n \in Nas, Reboot(n), NEW p \in Procs
    PROVE  \/ pc'[p] = "idle"
           \/ pc'[p] = pc[p] /\ dg'[p] = dg[p] /\ loc'[p] = loc[p]
  BY DEF Reboot

-------------------------------------------------------------------------------
(* Answers                                                                     *)

\* The row of ip is that of the client of datagram d, in the given state.
StandsAs(T, d, ip, state) ==
    /\ ip \in Leased(T)
    /\ T[ip].iface = d.iface
    /\ T[ip].mac = d.mac
    /\ T[ip].state = state

Told(reply) == IF reply = "offer" THEN "offered" ELSE "allocated"

\* What a child has established about the address of its answer.
Grounded(T, l, d, v) ==
    /\ l = "conf" => v.ip = NoIp
    /\ l \in {"lease", "update"} => HasRow(T, d.iface, v.ip)
    /\ l \in {"rtDelete", "rtAdd"} => StandsAs(T, d, v.ip, "allocated")
    /\ l = "opts" /\ v.reply \in {"offer", "ack"} /\ v.ip \in Leased(T)
         => StandsAs(T, d, v.ip, Told(v.reply))
    /\ l = "send" /\ v.reply \in {"offer", "ack"} => StandsAs(T, d, v.ip, Told(v.reply))

AnswersGrounded == \A p \in Procs : Grounded(leases, pc[p], dg[p], loc[p])

AnswerInv == IndInv /\ AnswersGrounded

LEMMA AnswerChildStep ==
    ASSUME AnswerInv, NEW p \in Procs, ChildStep(p)
    PROVE  Grounded(leases', pc'[p], dg'[p], loc'[p])
<1>1. /\ leases \in Table
      /\ pc \in [Procs -> Labels]
      /\ dg \in [Procs -> Datagrams \cup Startup \cup {Nil}]
      /\ loc \in [Procs -> Locals] /\ loc[p] \in Locals
      /\ ChildOK(pc[p], dg[p], loc[p])
      /\ Grounded(leases, pc[p], dg[p], loc[p])
  BY TypesOf DEF AnswerInv, AnswersGrounded
<1> USE DEF Grounded, Goto
<1>2. ASSUME Exit(p)
      PROVE  Grounded(leases', pc'[p], dg'[p], loc'[p])
  BY <1>1, <1>2 DEF Exit
<1>3. ASSUME NEW type \in {"none", "nak", "decline"}, Return(p, type, "send")
      PROVE  Grounded(leases', pc'[p], dg'[p], loc'[p])
  BY <1>1, <1>3 DEF Return, NoLocals
<1>4. ASSUME pc[p] \in Common, ClearDone(p)
      PROVE  Grounded(leases', pc'[p], dg'[p], loc'[p])
  BY <1>1, <1>2, <1>4 DEF ClearDone
<1>5. ASSUME NEW d \in Datagrams, Fork(p, d)
      PROVE  Grounded(leases', pc'[p], dg'[p], loc'[p])
  <2>1. d \in Datagram
    BY DatagramsAssumption
  <2>2. QED
    BY <1>1, <1>5, <2>1 DEF Fork, Datagram, Locals
<1>6. ASSUME NEW n \in Nas, Boot(n, p)
      PROVE  Grounded(leases', pc'[p], dg'[p], loc'[p])
  BY <1>1, <1>6 DEF Boot
<1>7. ASSUME ReadConf(p)
      PROVE  Grounded(leases', pc'[p], dg'[p], loc'[p])
  <2>1. NoIp \notin Leased(leases) /\ leases' = leases /\ loc[p].ip = NoIp
    BY <1>1, <1>7, NoIpFree DEF Leased, ReadConf
  <2>2. CASE Return(p, "offer", "opts")
    <3>1. pc'[p] = "opts" /\ loc'[p].ip = NoIp
      BY <1>1, <2>1, <2>2 DEF Return, NoLocals
    <3>2. QED
      BY <2>1, <3>1
  <2>3. CASE Goto(p, "clrSelect")
    BY <1>1, <2>3
  <2>4. QED
    BY <1>7, <2>2, <2>3 DEF ReadConf
<1>8. CASE ClearSelect(p) \/ ClearRoute(p)
  BY <1>1, <1>8 DEF ClearSelect, ClearRoute
<1>9. CASE ClearDelete(p)
  BY <1>4, <1>9 DEF ClearDelete, Common
<1>10. CASE OfferHeld(p) \/ Scan(p) \/ StoreDelete(p)
  BY <1>1, <1>2, <1>10 DEF OfferHeld, Scan, StoreDelete
<1>11. CASE StoreInsert(p)
  <2>1. CASE ~CanInsert(leases, loc[p].ip, OfferedRow(p))
    BY <1>2, <1>11, <2>1 DEF StoreInsert
  <2>2. CASE CanInsert(leases, loc[p].ip, OfferedRow(p))
    <3>1. loc[p].ip \in Ips /\ OfferedRow(p) \in Row
      BY <1>11, OfferedRowType DEF AnswerInv, StoreInsert
    <3>2. leases'[loc[p].ip] = OfferedRow(p) /\ loc[p].ip \in Leased(leases')
      BY <1>1, <1>11, <2>2, <3>1, NoRowAssumption DEF StoreInsert, Table, Leased
    <3>3. StandsAs(leases', dg[p], loc[p].ip, "offered")
      BY <3>2 DEF StandsAs, OfferedRow
    <3>4. pc'[p] = "opts" /\ dg'[p] = dg[p] /\ loc'[p].ip = loc[p].ip /\ loc'[p].reply = "offer"
      BY <1>1, <1>11, <2>2 DEF StoreInsert, Return, NoLocals
    <3>5. QED
      BY <3>3, <3>4 DEF Told
  <2>3. QED
    BY <2>1, <2>2
<1>12. CASE Find(p)
  BY <1>1, <1>3, <1>12 DEF Find, Locals
<1>13. CASE ReadLease(p)
  BY <1>1, <1>2, <1>13 DEF ReadLease, Locals
<1>14. CASE Update(p)
  <2>1. PICK r \in Confirm(leases, dg[p].iface, dg[p].mac, loc[p].till) :
          /\ leases' = r.table
          /\ IF r.ok THEN Goto(p, "rtDelete") /\ UNCHANGED loc
                     ELSE Return(p, "decline", "send")
    BY <1>14 DEF Update
  <2>2. CASE ~r.ok
    BY <1>3, <2>1, <2>2
  <2>3. CASE r.ok
    <3>1. HasRow(leases, dg[p].iface, loc[p].ip)
      BY <1>1, <1>14 DEF Update
    <3>2. pc[p] \in Granting
      BY <1>14 DEF Update, Granting
    <3>3. dg[p].iface \in Ifaces /\ dg[p].mac \in Macs /\ loc[p].till \in Int
      BY <3>2, GrantFacts DEF AnswerInv, Datagram, Locals
    <3>4. \A q \in Ips : leases'[q] = IF q = loc[p].ip
                                        THEN Allocated(leases[q], dg[p].mac, loc[p].till)
                                        ELSE leases[q]
      BY <1>1, <2>1, <2>3, <3>1, ConfirmedRow
    <3>5. StandsAs(leases', dg[p], loc[p].ip, "allocated")
      <4>1. loc[p].ip \in Ips /\ leases[loc[p].ip] \in Row /\ leases[loc[p].ip].iface = dg[p].iface
        BY <1>1, <3>1 DEF HasRow, Leased, Table
      <4>2. Allocated(leases[loc[p].ip], dg[p].mac, loc[p].till) \in Row
        BY <3>3, <4>1 DEF Allocated, Row
      <4>3. leases'[loc[p].ip] = Allocated(leases[loc[p].ip], dg[p].mac, loc[p].till)
        BY <3>4, <4>1
      <4>4. loc[p].ip \in Leased(leases')
        BY <4>1, <4>2, <4>3, NoRowAssumption DEF Leased
      <4>5. QED
        BY <4>1, <4>3, <4>4 DEF StandsAs, Allocated, Row
    <3>6. pc'[p] = "rtDelete" /\ dg'[p] = dg[p] /\ loc'[p] = loc[p]
      BY <1>1, <1>14, <2>1, <2>3 DEF Update
    <3>7. QED
      BY <3>5, <3>6
  <2>4. QED
    BY <2>2, <2>3
<1>15. CASE RequestRouteDelete(p)
  BY <1>1, <1>15 DEF RequestRouteDelete
<1>16. CASE RequestRouteAdd(p)
  BY <1>1, <1>16 DEF RequestRouteAdd, Return, NoLocals, Told
<1>17. CASE ReadOptions(p)
  BY <1>1, <1>17 DEF ReadOptions, Locals
<1>18. CASE Send(p)
  BY <1>2, <1>18 DEF Send
<1>19. CASE QueryFails(p)
  BY <1>1, <1>2, <1>3, <1>4, <1>19 DEF QueryFails, Common, Locals
<1>20. CASE AnswerBreaks(p)
  <2>1. leases' = leases /\ dg' = dg /\ NoIp \notin Leased(leases)
    BY <1>1, <1>20, NoIpFree DEF AnswerBreaks, Leased
  <2>2. CASE pc[p] = "conf"
    <3>1. loc[p].ip = NoIp /\ Return(p, "offer", "opts")
      BY <1>1, <1>20, <2>2 DEF AnswerBreaks
    <3>2. pc'[p] = "opts" /\ loc'[p].ip = NoIp
      BY <1>1, <3>1 DEF Return, NoLocals
    <3>3. QED
      BY <2>1, <3>2
  <2>3. CASE pc[p] = "find"
    BY <1>3, <1>20, <2>3 DEF AnswerBreaks
  <2>4. CASE pc[p] \in {"clrSelect", "offer"}
    BY <1>1, <1>20, <2>4 DEF AnswerBreaks
  <2>5. CASE pc[p] \in {"lease", "opts"}
    BY <1>1, <1>20, <2>1, <2>5 DEF AnswerBreaks, Locals
  <2>6. QED
    BY <1>20, <2>2, <2>3, <2>4, <2>5 DEF AnswerBreaks
<1>21. CASE ScanBreaks(p)
  BY <1>1, <1>2, <1>21 DEF ScanBreaks
<1>22. QED
  BY <1>5, <1>6, <1>7, <1>8, <1>9, <1>10, <1>11, <1>12, <1>13, <1>14, <1>15, <1>16,
     <1>17, <1>18, <1>19, <1>20, <1>21 DEF ChildStep, Step

LEMMA AnswerInvariance ==
    ASSUME \A p, q \in Procs : p = q
    PROVE  Spec => []AnswerInv
<1>1. Init => AnswerInv
  BY InitOK DEF Init, AnswerInv, AnswersGrounded, Grounded
<1>2. AnswerInv /\ [Next]_vars => AnswersGrounded'
  <2> SUFFICES ASSUME AnswerInv, [Next]_vars, NEW p \in Procs
               PROVE  Grounded(leases', pc'[p], dg'[p], loc'[p])
    BY DEF AnswersGrounded
  <2>1. CASE ChildStep(p)
    BY <2>1, AnswerChildStep
  <2>2. CASE Environment \/ UNCHANGED vars
    <3>1. /\ leases' = leases
          /\ \/ pc'[p] = "idle"
             \/ pc'[p] = pc[p] /\ dg'[p] = dg[p] /\ loc'[p] = loc[p]
      BY <2>2, RebootEnds DEF Environment, Tick, Reconfigure, Stop, Reboot, vars
    <3>2. QED
      BY <3>1 DEF AnswerInv, AnswersGrounded, Grounded
  <2>3. QED
    BY <2>1, <2>2 DEF Next, ChildStep
<1>3. QED
  BY <1>1, <1>2, NextKeeps, PTL DEF Spec, AnswerInv

\* While children do not overlap, every OFFER and ACK that is sent names an
\* address whose row is that of the client, in the state the answer tells.
THEOREM AnswersStand ==
    ASSUME \A p, q \in Procs : p = q
    PROVE  Spec => []AnswerStands
<1>1. AnswerInv => AnswerStands
  BY DEF AnswerInv, AnswersGrounded, Grounded, StandsAs, Told, AnswerStands
<1>2. QED
  BY <1>1, AnswerInvariance, PTL

-------------------------------------------------------------------------------
(* One lease per interface                                                     *)

\* The list of an interface does not change: its row may come and go and may be
\* static or not, routed or not, with one template or another.
OneList == \A i \in Ifaces : \A c, d \in ConfChoices[i] \ {NoConf} : c.s = d.s /\ c.e = d.e

RowsOf(T, i) == {ip \in Leased(T) : T[ip].iface = i}

\* A child that looks for an address knows the whole list of its interface, and
\* before it stores its offer the interface has no row but the one in question,
\* interfaces of M excepted.
Sought(T, l, d, v, M) ==
    /\ l \in Offering \/ (l \in Common /\ d.type = "discover") =>
         \A ip \in Ips : InPool(ip, d.iface) => ip \in v.pool.s..v.pool.e
    /\ l \in {"scan", "storeInsert"} => RowsOf(T, d.iface) = {} \/ d.iface \in M
    /\ l = "storeDelete" => RowsOf(T, d.iface) \subseteq {v.ip} \/ d.iface \in M

AllSought(M) == \A p \in Procs : Sought(leases, pc[p], dg[p], loc[p], M)

\* An interface has one row, unless it is in M.
OneRow(M) ==
    \A ip, q \in Leased(leases) :
        leases[ip].iface = leases[q].iface /\ leases[ip].iface \notin M => ip = q

OneLeaseInv(M) == IndInv /\ AllSought(M) /\ OneRow(M)

\* Where the look-up of its address broke off an interface is in M2.
Marked(M2) == \A p \in Procs : pc'[p] = "scan" /\ loc'[p].cut => dg'[p].iface \in M2

LEMMA SoughtChildStep ==
    ASSUME NEW M, NEW M2, M \subseteq M2, Marked(M2),
           OneList, OneLeaseInv(M), NEW p \in Procs, ChildStep(p)
    PROVE  Sought(leases', pc'[p], dg'[p], loc'[p], M2)
<1>1. /\ leases \in Table
      /\ pc \in [Procs -> Labels]
      /\ dg \in [Procs -> Datagrams \cup Startup \cup {Nil}]
      /\ loc \in [Procs -> Locals] /\ loc[p] \in Locals
      /\ ChildOK(pc[p], dg[p], loc[p])
      /\ Sought(leases, pc[p], dg[p], loc[p], M)
  BY TypesOf DEF OneLeaseInv, AllSought
<1>2. ASSUME pc'[p] \in {"idle", "find", "send", "opts", "conf"} \cup Granting
      PROVE  Sought(leases', pc'[p], dg'[p], loc'[p], M2)
  BY <1>2 DEF Sought, Offering, Common, Granting
<1>3. ASSUME pc[p] \in Common, ClearDone(p)
      PROVE  Sought(leases', pc'[p], dg'[p], loc'[p], M2)
  <2>1. CASE dg[p].type = "discover"
    <3>1. pc'[p] = "offer" /\ dg'[p] = dg[p] /\ loc'[p].pool = loc[p].pool
      BY <1>1, <1>3, <2>1 DEF ClearDone, Goto, Locals
    <3>2. QED
      BY <1>1, <1>3, <2>1, <3>1 DEF Sought, Offering
  <2>2. CASE dg[p].type # "discover"
    BY <1>1, <1>2, <1>3, <2>2 DEF ClearDone, Goto, Exit
  <2>3. QED
    BY <2>1, <2>2
<1>4. ASSUME NEW d \in Datagrams, Fork(p, d)
      PROVE  Sought(leases', pc'[p], dg'[p], loc'[p], M2)
  BY <1>1, <1>4 DEF Fork, Goto, Sought, Offering, Common
<1>5. ASSUME NEW n \in Nas, Boot(n, p)
      PROVE  Sought(leases', pc'[p], dg'[p], loc'[p], M2)
  BY <1>1, <1>5 DEF Boot, Goto, Sought, Offering, Common
<1>6. CASE ReadConf(p)
  <2> DEFINE c == conf[dg[p].iface]
  <2>1. CASE c = NoConf
    BY <1>1, <1>2, <1>6, <2>1 DEF ReadConf, Return, Goto
  <2>2. CASE c # NoConf
    <3>1. dg[p].iface \in Ifaces
      BY <1>1, <1>6, DatagramsAssumption DEF ReadConf, ChildOK, Discovering, Datagram
    <3>2. c \in ConfChoices[dg[p].iface] \ {NoConf} /\ c \in PoolConf
      BY <2>2, <3>1 DEF OneLeaseInv, IndInv, TypeOK, ConfOK
    <3>3. \A ip : InPool(ip, dg[p].iface) => ip \in c.s..c.e
      BY <3>1, <3>2 DEF OneList, InPool
    <3>4. /\ pc'[p] = "clrSelect" /\ dg'[p] = dg[p]
          /\ loc'[p].pool.s = c.s /\ loc'[p].pool.e = c.e
      BY <1>1, <1>6, <2>2, <3>2 DEF ReadConf, Goto, Locals, PoolConf
    <3>5. QED
      BY <3>3, <3>4 DEF Sought, Offering
  <2>3. QED
    BY <2>1, <2>2
<1>7. CASE ClearSelect(p) \/ ClearRoute(p)
  <2>1. /\ pc[p] \in Common /\ pc'[p] = "clrRoutes" /\ dg'[p] = dg[p]
        /\ loc'[p].pool = loc[p].pool /\ leases' = leases
    <3>1. CASE ClearSelect(p)
      BY <1>1, <3>1 DEF ClearSelect, Goto, Locals, Common
    <3>2. CASE ClearRoute(p)
      <4>1. PICK ip \in loc[p].todo : loc' = [loc EXCEPT ![p].todo = @ \ {ip}]
        BY <3>2 DEF ClearRoute
      <4>2. QED
        BY <1>1, <3>2, <4>1 DEF ClearRoute, Locals, Common
    <3>3. QED
      BY <1>7, <3>1, <3>2
  <2>2. QED
    BY <1>1, <2>1 DEF Sought, Offering
<1>8. CASE ClearDelete(p)
  BY <1>3, <1>8 DEF ClearDelete, Common
<1>9. CASE OfferHeld(p)
  <2> DEFINE pool == loc[p].pool
             held == HeldBy(leases, dg[p].iface, pool.s, pool.e)
  <2>1. /\ pc[p] = "offer" /\ dg'[p] = dg[p] /\ leases' = leases
        /\ \A ip \in Ips : InPool(ip, dg[p].iface) => ip \in pool.s..pool.e
    BY <1>1, <1>9 DEF OfferHeld, Sought, Offering
  <2>2. held = RowsOf(leases, dg[p].iface)
    BY <2>1 DEF HeldBy, RowsOf, Leased, OneLeaseInv, IndInv, PoolRespected
  <2>3. CASE held = {}
    <3>1. pc'[p] = "scan" /\ loc' = loc
      BY <1>1, <1>9, <2>3 DEF OfferHeld, Goto
    <3>2. QED
      BY <2>1, <2>2, <2>3, <3>1 DEF Sought, Offering, Common
  <2>4. CASE held # {}
    <3>1. pc'[p] = "storeDelete" /\ loc'[p].ip \in held /\ loc'[p].pool = pool
      BY <1>1, <1>9, <2>4 DEF OfferHeld, Goto, Locals
    <3>2. RowsOf(leases, dg[p].iface) \subseteq {loc'[p].ip} \/ dg[p].iface \in M
      BY <2>2, <3>1 DEF RowsOf, OneLeaseInv, OneRow
    <3>3. QED
      BY <2>1, <3>1, <3>2 DEF Sought, Offering, Common
  <2>5. QED
    BY <2>3, <2>4
<1>10. CASE Scan(p)
  <2>1. pc'[p] = "idle" \/ (pc'[p] = "storeDelete" /\ dg'[p] = dg[p] /\ loc'[p].pool = loc[p].pool)
    BY <1>1, <1>10 DEF Scan, Exit, Goto, Locals
  <2>2. leases' = leases /\ pc[p] = "scan"
    BY <1>10 DEF Scan
  <2>3. QED
    BY <1>1, <1>2, <2>1, <2>2 DEF Sought, Offering
<1>11. CASE StoreDelete(p)
  <2>1. /\ pc[p] = "storeDelete" /\ pc'[p] = "storeInsert" /\ dg'[p] = dg[p]
        /\ loc'[p].pool = loc[p].pool
        /\ leases' = DeleteIp(leases, loc[p].ip)
    BY <1>1, <1>11 DEF StoreDelete, Goto, Locals
  <2>2. RowsOf(leases, dg[p].iface) \subseteq {loc[p].ip} \/ dg[p].iface \in M
    BY <1>1, <2>1 DEF Sought
  <2>3. RowsOf(leases', dg[p].iface) = {} \/ dg[p].iface \in M
    BY <1>1, <2>1, <2>2, DeleteIpType DEF RowsOf, Leased
  <2>4. QED
    BY <1>1, <2>1, <2>3 DEF Sought, Offering, Common
<1>12. CASE StoreInsert(p) \/ Find(p) \/ ReadLease(p) \/ Update(p)
  BY <1>1, <1>2, <1>12
     DEF StoreInsert, Find, ReadLease, Update, Exit, Return, Goto, Granting
<1>13. CASE RequestRouteDelete(p) \/ RequestRouteAdd(p) \/ ReadOptions(p) \/ Send(p)
  BY <1>1, <1>2, <1>13
     DEF RequestRouteDelete, RequestRouteAdd, ReadOptions, Send, Exit, Return, Goto, Granting
<1>14. CASE QueryFails(p)
  BY <1>1, <1>2, <1>3, <1>14 DEF QueryFails, Exit, Return, Goto, Granting, Common
<1>15. CASE AnswerBreaks(p)
  <2>1. dg' = dg /\ leases' = leases
    BY <1>15 DEF AnswerBreaks
  <2>2. CASE pc[p] = "clrSelect"
    <3>1. pc'[p] = "clrRoutes" /\ loc'[p].pool = loc[p].pool
      BY <1>1, <1>15, <2>2 DEF AnswerBreaks, Goto, Locals
    <3>2. QED
      BY <1>1, <2>1, <2>2, <3>1 DEF Sought, Offering, Common
  <2>3. CASE pc[p] = "offer"
    <3>1. pc'[p] = "scan" /\ loc'[p].pool = loc[p].pool /\ loc'[p].cut
      BY <1>1, <1>15, <2>3 DEF AnswerBreaks, Goto, Locals
    <3>2. dg'[p].iface \in M2
      BY <3>1 DEF Marked
    <3>3. QED
      BY <1>1, <2>1, <2>3, <3>1, <3>2 DEF Sought, Offering, Common
  <2>4. CASE pc[p] \in {"conf", "find", "lease", "opts"}
    BY <1>1, <1>2, <1>15, <2>4 DEF AnswerBreaks, Return, Goto, Granting
  <2>5. QED
    BY <1>15, <2>2, <2>3, <2>4 DEF AnswerBreaks
<1>16. CASE ScanBreaks(p)
  <2>1. leases' = leases /\ pc[p] = "scan"
    BY <1>16 DEF ScanBreaks
  <2>2. CASE Exit(p)
    BY <1>1, <1>2, <2>2 DEF Exit, Goto
  <2>3. CASE ~Exit(p)
    <3>1. PICK ip : loc' = [loc EXCEPT ![p].ip = ip, ![p].cut = TRUE]
                     /\ Goto(p, "storeDelete") /\ dg' = dg
      BY <1>16, <2>3 DEF ScanBreaks
    <3>2. /\ pc'[p] = "storeDelete" /\ dg'[p] = dg[p]
          /\ loc'[p].pool = loc[p].pool
      BY <1>1, <3>1 DEF Goto, Locals
    <3>3. QED
      BY <1>1, <2>1, <3>2 DEF Sought, Offering, Common
  <2>4. QED
    BY <2>2, <2>3
<1>17. QED
  BY <1>4, <1>5, <1>6, <1>7, <1>8, <1>9, <1>10, <1>11, <1>12, <1>13, <1>14, <1>15, <1>16
     DEF ChildStep, Step

LEMMA OneLeaseStep ==
    ASSUME NEW M, NEW M2, M \subseteq M2,
           \A p, q \in Procs : p = q, OneLeaseInv(M), [Next]_vars
    PROVE  \A ip, q \in Leased(leases') :
              leases'[ip].iface = leases'[q].iface /\ leases'[ip].iface \notin M2 => ip = q
<1>1. leases \in Table /\ OneRow(M)
  BY DEF OneLeaseInv, IndInv, TypeOK
<1>2. CASE leases' = leases
  BY <1>1, <1>2 DEF OneRow
<1>3. CASE leases' # leases
  <2>1. PICK p \in Procs : ClearDelete(p) \/ StoreDelete(p) \/ StoreInsert(p) \/ Update(p)
    BY <1>3, Writers
  <2>2. CASE ClearDelete(p)
    BY <1>1, <2>2, ClearExpiredType DEF ClearDelete, OneRow, Leased
  <2>3. CASE StoreDelete(p)
    BY <1>1, <2>3, DeleteIpType DEF StoreDelete, OneRow, Leased
  <2>4. CASE StoreInsert(p)
    <3>1. leases' = [leases EXCEPT ![loc[p].ip] = OfferedRow(p)] /\ pc[p] = "storeInsert"
      BY <1>3, <2>4 DEF StoreInsert
    <3>2. RowsOf(leases, dg[p].iface) = {} \/ dg[p].iface \in M
      BY <3>1 DEF OneLeaseInv, AllSought, Sought
    <3>3. loc[p].ip \in Ips /\ OfferedRow(p).iface = dg[p].iface
      BY <3>1, OfferedRowType DEF OneLeaseInv, OfferedRow
    <3>4. \A q \in Ips : leases'[q] = IF q = loc[p].ip THEN OfferedRow(p) ELSE leases[q]
      BY <1>1, <3>1 DEF Table
    <3>5. QED
      BY <1>1, <3>2, <3>3, <3>4 DEF RowsOf, OneRow, Leased
  <2>5. CASE Update(p)
    <3>1. pc[p] \in Granting
      BY <2>5 DEF Update, Granting
    <3>2. dg[p].iface \in Ifaces /\ dg[p].mac \in Macs /\ loc[p].till \in Int
      BY <3>1, GrantFacts DEF OneLeaseInv, Datagram, Locals
    <3>3. /\ Leased(leases') = Leased(leases)
          /\ \A ip \in Leased(leases) : leases'[ip].iface = leases[ip].iface
      BY <1>1, <2>5, <3>2, ConfirmType DEF Update
    <3>4. QED
      BY <1>1, <3>3 DEF OneRow
  <2>6. QED
    BY <2>1, <2>2, <2>3, <2>4, <2>5
<1>4. QED
  BY <1>2, <1>3

LEMMA OneLeaseStarts ==
    ASSUME NEW M
    PROVE  Init => OneLeaseInv(M)
<1> SUFFICES ASSUME Init
             PROVE  OneLeaseInv(M)
  OBVIOUS
<1>1. Leased(leases) = {}
  BY DEF Init, EmptyTable, Leased
<1>2. \A p \in Procs : pc[p] = "idle"
  BY DEF Init
<1>3. QED
  BY <1>1, <1>2, InitOK DEF OneLeaseInv, AllSought, Sought, OneRow, Offering, Common

LEMMA SoughtStep ==
    ASSUME NEW M, NEW M2, M \subseteq M2, Marked(M2),
           \A p, q \in Procs : p = q, OneList, OneLeaseInv(M), [Next]_vars
    PROVE  \A p \in Procs : Sought(leases', pc'[p], dg'[p], loc'[p], M2)
<1> SUFFICES ASSUME NEW p \in Procs
             PROVE  Sought(leases', pc'[p], dg'[p], loc'[p], M2)
  OBVIOUS
<1>1. CASE ChildStep(p)
  BY <1>1, SoughtChildStep
<1>2. CASE ~ChildStep(p)
  <2>1. \/ pc'[p] = "idle"
        \/ pc'[p] = pc[p] /\ dg'[p] = dg[p] /\ loc'[p] = loc[p] /\ leases' = leases
    <3>1. \A q \in Procs : ~ChildStep(q)
      BY <1>2
    <3>2. Environment \/ UNCHANGED vars
      BY <3>1 DEF Next, ChildStep
    <3>3. QED
      BY <3>2, RebootEnds DEF Environment, Tick, Reconfigure, Stop, Reboot, vars
  <2>2. QED
    BY <2>1 DEF OneLeaseInv, AllSought, Sought, Offering, Common
<1>3. QED
  BY <1>1, <1>2

\* While children do not overlap and lists stay what they are, no interface gets
\* a second row but one whose own look-up once broke off: not through failing
\* queries, scans that broke off, restarts, other servers, a client that is seen on
\* several interfaces, or what a broken answer did to another interface.
THEOREM OneLeaseEach ==
    ASSUME OneList, \A p, q \in Procs : p = q
    PROVE  HSpec => []OneLeasePerIface
<1>1. HInit => OneLeaseInv(misled)
  BY OneLeaseStarts DEF HInit
<1>2. OneLeaseInv(misled) /\ [HNext]_HVars => OneLeaseInv(misled)'
  <2> SUFFICES ASSUME OneLeaseInv(misled), [HNext]_HVars
               PROVE  OneLeaseInv(misled)'
    OBVIOUS
  <2>1. [Next]_vars
    BY DEF HNext, HVars
  <2>2. IndInv'
    BY <2>1, NextKeeps DEF OneLeaseInv
  <2>3. CASE HNext
    <3>1. misled \subseteq misled' /\ Marked(misled')
      BY <2>3 DEF HNext, Marked
    <3>2. AllSought(misled)'
      BY <2>1, <3>1, SoughtStep DEF AllSought
    <3>3. OneRow(misled)'
      BY <2>1, <3>1, OneLeaseStep DEF OneRow
    <3>4. QED
      BY <2>2, <3>2, <3>3 DEF OneLeaseInv
  <2>4. CASE UNCHANGED HVars
    BY <2>2, <2>4 DEF HVars, vars, OneLeaseInv, AllSought, OneRow
  <2>5. QED
    BY <2>3, <2>4
<1>3. OneLeaseInv(misled) => OneLeasePerIface
  BY DEF OneLeaseInv, OneRow, OneLeasePerIface
<1>4. QED
  BY <1>1, <1>2, <1>3, PTL DEF HSpec

-------------------------------------------------------------------------------
(* The server implements LeaseService                                          *)

\* The interfaces whose address was looked for in an answer that broke off.
Blind == {dg[p].iface : p \in {q \in Procs : pc[q] = "storeDelete" /\ loc[q].cut}}

\* An entry of the book tells of its row.
EntryOK(ip) ==
    /\ Book[ip] \in Service!Lease
    /\ Book[ip].iface = leases[ip].iface /\ Book[ip].mac = leases[ip].mac
    /\ Book[ip].confirmed = (leases[ip].state = "allocated")
    /\ Book[ip].static = leases[ip].static /\ Book[ip].till = leases[ip].till

BookOK ==
    /\ Book \in Service!Books
    /\ Service!Held = Leased(leases)
    /\ \A ip \in Ips : leases[ip] = NoRow => Book[ip] = NoRow
    /\ \A ip \in Leased(leases) : EntryOK(ip)
    /\ At({"storeDelete", "storeInsert"}) \in SUBSET Ifaces
    /\ At({"update"}) \in SUBSET Ifaces
    /\ Blind \in SUBSET At({"storeDelete", "storeInsert"})

LEMMA BookType == IndInv => BookOK
<1> SUFFICES ASSUME IndInv
             PROVE  BookOK
  OBVIOUS
<1> USE DEF EntryOK
<1>1. leases \in Table
  BY DEF IndInv, TypeOK
<1>2. ASSUME NEW ip \in Leased(leases)
      PROVE  EntryOK(ip)
  <2>1. ip \in Ips /\ leases[ip] # NoRow /\ leases[ip] \in Row
    BY <1>1 DEF Leased, Table
  <2>2. QED
    BY <2>1 DEF Book, Row, Service!Lease
<1>3. \A ip \in Ips : leases[ip] = NoRow => Book[ip] = NoRow
  BY DEF Book
<1>4. Book \in Service!Books
  BY <1>2, <1>3 DEF Book, Leased, Service!Books
<1>5. Service!Held = Leased(leases)
  BY <1>2, <1>3, BookAssumption DEF Service!Held, Leased
<1>6. ASSUME NEW p \in Procs, pc[p] \in {"storeDelete", "storeInsert", "update"}
      PROVE  dg[p].iface \in Ifaces
  BY <1>6, DatagramsAssumption
     DEF IndInv, ChildrenOK, ChildOK, Discovering, Requesting, Datagram
<1>7. QED
  BY <1>2, <1>3, <1>4, <1>5, <1>6 DEF At, Blind, BookOK

LEMMA NextBookType == IndInv' => BookOK'
  BY BookType, PTL

\* The entry of an address depends on its row alone.
LEMMA BookOfRow ==
    ASSUME NEW ip \in Ips, leases'[ip] = leases[ip]
    PROVE  Book'[ip] = Book[ip]
  BY DEF Book

\* A step that writes no row is one in which nobody's lease ends.
LEMMA QuietStep ==
    ASSUME IndInv, IndInv', UNCHANGED <<leases, now>>
    PROVE  Service!Next
<1>1. Book' = Book /\ BookOK'
  BY NextBookType DEF Book
<1>2. Service!Served /\ Book' \in Service!Books
  BY <1>1 DEF Service!Served, BookOK, Blind
<1>3. QED
  BY <1>1, <1>2 DEF Service!Next, Service!Expire

LEMMA WriterStep ==
    ASSUME SerialInv, IndInv', NEW p \in Procs, now' = now,
           ClearDelete(p) \/ StoreDelete(p) \/ StoreInsert(p) \/ Update(p)
    PROVE  Service!Next
<1>1. /\ IndInv /\ ClockOK /\ TargetOK
      /\ leases \in Table /\ leases' \in Table /\ now \in Nat
      /\ loc[p] \in Locals /\ ChildOK(pc[p], dg[p], loc[p])
      /\ BookOK /\ BookOK'
  BY TypesOf, BookType, NextBookType DEF SerialInv, ClockInv, IndInv, TypeOK
<1>2. Service!Served /\ Book' \in Service!Books
  BY <1>1 DEF Service!Served, BookOK, Blind
<1>4. ASSUME NEW ip \in Ips, \A q \in Ips \ {ip} : leases'[q] = leases[q]
      PROVE  Service!Rewrites(ip)
  BY <1>2, <1>4, BookOfRow DEF Service!Rewrites
<1>5. CASE ClearDelete(p)
  <2>1. \A ip \in Ips : leases'[ip] \in {NoRow, leases[ip]}
    BY <1>1, <1>5, ClearExpiredType DEF ClearDelete
  <2>2. loc[p].t <= now /\ loc[p].t \in Nat
    BY <1>1, <1>5 DEF ClearDelete, ClockOK, Locals
  <2>3. ASSUME NEW ip \in Ips, Book'[ip] # Book[ip]
        PROVE  Book'[ip] = NoRow /\ ~Book[ip].static /\ Book[ip].till < now
    <3>1. ip \in Leased(leases) /\ leases'[ip] = NoRow
      BY <2>1, <2>3, BookOfRow DEF Leased
    <3>2. ~leases[ip].static /\ leases[ip].till < loc[p].t
      BY <1>1, <1>5, <3>1, ClearExpiredKeepsLive DEF ClearDelete
    <3>3. leases[ip].till \in Int
      BY <1>1, <3>1 DEF Leased, Table, Row
    <3>4. Book'[ip] = NoRow
      BY <1>1, <3>1 DEF BookOK, EntryOK
    <3>5. Book[ip].static = leases[ip].static /\ Book[ip].till = leases[ip].till
      BY <1>1, <3>1 DEF BookOK, EntryOK
    <3>6. QED
      BY <1>1, <2>2, <3>2, <3>3, <3>4, <3>5
  <2>4. QED
    BY <1>2, <2>3 DEF Service!Next, Service!Expire
<1>6. CASE StoreDelete(p)
  <2> DEFINE ip == loc[p].ip
  <2>1. pc[p] = "storeDelete" /\ ip \in Ips
    BY <1>1, <1>6, OfferedRowType DEF StoreDelete
  <2>2. \A q \in Ips : leases'[q] = IF q = ip THEN NoRow ELSE leases[q]
    BY <1>1, <1>6, DeleteIpType DEF StoreDelete
  <2>3. CASE ip \notin Leased(leases)
    <3>1. leases' = leases
      BY <1>1, <2>1, <2>2, <2>3 DEF Leased, Table
    <3>2. QED
      BY <1>1, <3>1, QuietStep
  <2>4. CASE ip \in Leased(leases)
    <3>1. Book[ip].iface \in At({"storeDelete", "storeInsert"}) \/ Blind # {}
      <4>1. leases[ip].iface = dg[p].iface \/ loc[p].cut
        BY <1>1, <2>1, <2>4 DEF TargetOK
      <4>2. CASE leases[ip].iface = dg[p].iface
        BY <1>1, <2>1, <2>4, <4>2 DEF At, BookOK, EntryOK
      <4>3. CASE loc[p].cut
        BY <2>1, <4>3 DEF Blind
      <4>4. QED
        BY <4>1, <4>2, <4>3
    <3>2. ip \in Service!Held /\ Book'[ip] = NoRow
      BY <1>1, <2>1, <2>2, <2>4 DEF BookOK, EntryOK
    <3>3. Service!Rewrites(ip)
      BY <1>4, <2>1, <2>2
    <3>4. QED
      BY <1>2, <2>1, <3>1, <3>2, <3>3 DEF Service!Next, Service!Withdraw, Blind
  <2>5. QED
    BY <2>3, <2>4
<1>7. CASE StoreInsert(p)
  <2> DEFINE row == OfferedRow(p)
  <2>1. pc[p] = "storeInsert" /\ row \in Row
    BY <1>1, <1>7, OfferedRowType DEF StoreInsert
  <2> PICK ip \in Ips : ip = loc[p].ip
    BY <1>1, <1>7, OfferedRowType DEF StoreInsert
  <2>2. CASE ~CanInsert(leases, ip, row)
    BY <1>1, <1>7, <2>2, QuietStep DEF StoreInsert
  <2>3. CASE CanInsert(leases, ip, row)
    <3>1. \A q \in Ips : leases'[q] = IF q = ip THEN row ELSE leases[q]
      BY <1>1, <1>7, <2>1, <2>3 DEF StoreInsert, Table
    <3>2. Book[ip] = NoRow /\ ip \in Leased(leases')
      BY <1>1, <2>1, <2>3, <3>1, NoRowAssumption DEF BookOK, EntryOK, CanInsert, Leased
    <3>3. /\ Book'[ip] \in Service!Lease /\ ~Book'[ip].confirmed
          /\ Book'[ip].iface = dg[p].iface /\ Book'[ip].mac = row.mac
      <4>1. leases'[ip] = row /\ EntryOK(ip)'
        BY <1>1, <3>1, <3>2 DEF BookOK
      <4>2. row.iface = dg[p].iface /\ row.state = "offered"
        BY DEF OfferedRow
      <4>3. QED
        BY <4>1, <4>2 DEF EntryOK
    <3>4. dg[p].iface \in At({"storeDelete", "storeInsert"})
      BY <2>1 DEF At
    <3>5. Service!MacUnique(ip)
      BY <1>1, <2>3, <3>3 DEF BookOK, EntryOK, Service!MacUnique, CanInsert, MacElsewhere
    <3>6. Service!Rewrites(ip)
      BY <1>4, <2>1, <3>1
    <3>7. Service!Offer(ip)
      BY <3>2, <3>3, <3>4, <3>5, <3>6, BookAssumption DEF Service!Offer
    <3>8. QED
      BY <1>2, <2>1, <3>7 DEF Service!Next
  <2>4. QED
    BY <2>2, <2>3
<1>8. CASE Update(p)
  <2> DEFINE i == dg[p].iface
             m == dg[p].mac
             till == loc[p].till
  <2>1. pc[p] = "update" /\ pc[p] \in Granting
    BY <1>8 DEF Update, Granting
  <2>2. m \in Macs /\ till \in Int
    BY <1>1, <2>1, GrantFacts DEF Datagram, Locals
  <2>3. CASE leases' = leases
    BY <1>1, <2>3, QuietStep
  <2>4. CASE leases' # leases
    <3>1. PICK ip \in Leased(leases) :
            /\ leases[ip].iface = i
            /\ ~MacElsewhere(leases, ip, m)
            /\ \A q \in Ips : leases'[q] = IF q = ip THEN Allocated(leases[ip], m, till)
                                                   ELSE leases[q]
      BY <1>1, <1>8, <2>4, ConfirmCases DEF Update
    <3>2. ip \in Ips /\ leases[ip] \in Row
      BY <1>1 DEF Leased, Table
    <3>3. /\ leases'[ip] \in Row
          /\ leases'[ip].mac = m /\ leases'[ip].state = "allocated"
          /\ leases'[ip].iface = leases[ip].iface /\ leases'[ip].static = leases[ip].static
      BY <2>2, <3>1, <3>2 DEF Allocated, Row
    <3>4. ip \in Leased(leases')
      BY <3>2, <3>3, NoRowAssumption DEF Leased
    <3>5. ip \in Service!Held /\ EntryOK(ip) /\ EntryOK(ip)'
      BY <1>1, <3>1, <3>4 DEF BookOK
    <3>6. /\ Book[ip].iface \in At({"update"})
          /\ Book'[ip] = [Book[ip] EXCEPT !.confirmed = TRUE,
                              !.mac = Book'[ip].mac, !.till = Book'[ip].till]
      <4>1. Book[ip].iface \in At({"update"})
        BY <2>1, <3>1, <3>5 DEF EntryOK, At
      <4>2. /\ Book'[ip].iface = Book[ip].iface /\ Book'[ip].static = Book[ip].static
            /\ Book'[ip].confirmed = TRUE
        BY <3>3, <3>5 DEF EntryOK
      <4>3. QED
        BY <3>5, <4>1, <4>2 DEF EntryOK, Service!Lease
    <3>7. Service!MacUnique(ip)
      BY <1>1, <3>1, <3>3, <3>5 DEF Service!MacUnique, MacElsewhere, BookOK, EntryOK
    <3>8. Service!Rewrites(ip)
      BY <1>4, <3>1, <3>2
    <3>9. Service!Confirm(ip)
      BY <3>5, <3>6, <3>7, <3>8, BookAssumption DEF Service!Confirm, EntryOK
    <3>10. QED
      BY <1>2, <3>2, <3>9 DEF Service!Next
  <2>5. QED
    BY <2>3, <2>4
<1>9. QED
  BY <1>5, <1>6, <1>7, <1>8

\* While children do not overlap, the daemon implements LeaseService: each of its
\* statements is an offer to who asks, a withdrawal by who asks or for one whose
\* answer of the database broke off, a confirmation of the own lease, the end of
\* dynamic leases whose time is over, or none of these.
THEOREM Serves ==
    ASSUME \A p, q \in Procs : p = q
    PROVE  Spec => ServesLeases
<1>1. Init => Service!Init
  <2> SUFFICES ASSUME Init
               PROVE  Service!Init
    OBVIOUS
  <2>1. Book = [ip \in Ips |-> NoRow]
    BY DEF Init, EmptyTable, Book
  <2>2. At({"storeDelete", "storeInsert"}) = {} /\ At({"update"}) = {} /\ Blind = {} /\ now = 0
    BY DEF Init, At, Blind
  <2>3. QED
    BY <2>1, <2>2 DEF Service!Init, Blind
<1>2. SerialInv /\ IndInv' /\ [Next]_vars => [Service!Next]_Service!state
  <2> SUFFICES ASSUME SerialInv, IndInv', [Next]_vars
               PROVE  Service!Next \/ UNCHANGED Service!state
    OBVIOUS
  <2>1. IndInv
    BY DEF SerialInv, ClockInv
  <2>2. CASE leases' # leases
    <3>1. PICK p \in Procs :
            ClearDelete(p) \/ StoreDelete(p) \/ StoreInsert(p) \/ Update(p)
      BY <2>2, Writers
    <3>2. now' = now
      BY <3>1 DEF ClearDelete, StoreDelete, StoreInsert, Update
    <3>3. QED
      BY <3>1, <3>2, WriterStep
  <2>3. CASE UNCHANGED <<leases, now>>
    BY <2>1, <2>3, QuietStep
  <2>4. CASE leases' = leases /\ now' # now
    <3>1. Tick
      <4>1. \A p \in Procs : ~ChildStep(p)
        BY <2>1, <2>4, OthersUntouched DEF ChildStep
      <4>2. QED
        BY <2>4, <4>1 DEF ChildStep, Next, Environment, Reconfigure, Stop, Reboot, vars
    <3>2. Book' = Book
      BY <2>4 DEF Book
    <3>3. Service!Served
      BY <2>1, NextBookType DEF Service!Served, BookOK, Blind
    <3>4. QED
      BY <3>1, <3>2, <3>3 DEF Tick, Service!Next, Service!Tick
  <2>5. QED
    BY <2>2, <2>3, <2>4
<1>3. QED
  BY <1>1, <1>2, Invariance, SerialInvariance, PTL DEF Spec, ServesLeases, Service!Spec
-------------------------------------------------------------------------------
(* Routes of static leases                                                     *)

\* Every lease is static, servers have interfaces of their own, a client stays
\* behind one interface, no query fails and no answer breaks off.
AllStatic == \A i \in Ifaces : \A c \in ConfChoices[i] \ {NoConf} : c.static /\ c.ptp

Seated ==
    \A d, e \in Datagrams :
        /\ d.iface = e.iface => d.nas = e.nas
        /\ d.mac = e.mac => d.iface = e.iface

NothingFails == Faults \cap {"db", "broken", "reboot"} = {}

\* No address was looked for in an answer that broke off.
Uncut == \A p \in Procs : ~loc[p].cut

\* What a child knows of the lease it makes or confirms; it has no route to clear.
Knows(T, l, d, v) ==
    /\ v.todo = {}
    /\ l \in Granting =>
         HasRow(T, d.iface, v.ip) /\ v.static /\ v.routed = T[v.ip].routed
    /\ l = "storeInsert" => v.ip \notin Leased(T)
    /\ l \in Offering \/ (l \in Common /\ d.type = "discover") => v.pool.static

AllKnow == \A p \in Procs : Knows(leases, pc[p], dg[p], loc[p])

\* A static row, which comes from the datagram of a client.
Sent(row) ==
    /\ row.static
    /\ \E d \in Datagrams : d.iface = row.iface /\ d.mac = row.mac /\ d.nas = row.nas

RowsSent == \A ip \in Leased(leases) : Sent(leases[ip])

\* The address is leased to interface i of server n, or was a moment ago and is
\* about to be offered to it again.
BelongsTo(ip, n, i) ==
    \/ ip \in Leased(leases) /\ leases[ip].iface = i /\ leases[ip].nas = n
    \/ \E p \in Procs : /\ pc[p] = "storeInsert" /\ loc[p].ip = ip
                        /\ dg[p].iface = i /\ dg[p].nas = n

RoutesOwned ==
    \A n \in Nas, ip \in Ips :
        routes[n][ip] # <<>> => \E i \in Ifaces : routes[n][ip] = <<i>> /\ BelongsTo(ip, n, i)

RoutesMade ==
    \A ip \in Leased(leases) :
        leases[ip].state = "allocated" /\ leases[ip].routed =>
            \/ routes[leases[ip].nas][ip] # <<>>
            \/ \E p \in Procs : pc[p] \in {"rtDelete", "rtAdd"} /\ loc[p].ip = ip

RouteInv == AllKnow /\ RowsSent /\ RoutesOwned /\ RoutesMade

\* What a single child and the table are to each other.
StaticInv == OneLeaseInv({}) /\ SerialInv /\ Uncut /\ RouteInv

\* What brings a cut answer about.
LEMMA UncutStep ==
    ASSUME "broken" \notin Faults, IndInv, Uncut, [Next]_vars
    PROVE  Uncut'
<1> SUFFICES ASSUME NEW q \in Procs
             PROVE  ~loc'[q].cut
  BY DEF Uncut
<1>1. loc \in [Procs -> Locals] /\ ~loc[q].cut /\ ~NoLocals.cut
  BY DEF IndInv, TypeOK, Uncut, NoLocals
<1>2. CASE Environment \/ UNCHANGED vars
  BY <1>1, <1>2 DEF Environment, Tick, Reconfigure, Stop, Reboot, vars
<1>3. ASSUME NEW p \in Procs, ChildStep(p)
      PROVE  ~loc'[q].cut
  <2>1. loc[p] \in Locals /\ ~loc[p].cut
    BY <1>1 DEF Uncut
  <2>2. CASE Exit(p) \/ \E type, l : Return(p, type, l)
    BY <1>1, <2>2 DEF Exit, Return, NoLocals
  <2>3. CASE \/ \E d \in Datagrams : Fork(p, d)
            \/ \E n \in Nas : Boot(n, p)
    <3>1. CASE \E n \in Nas : Boot(n, p)
      BY <1>1, <3>1 DEF Boot
    <3>2. ASSUME NEW d \in Datagrams, Fork(p, d)
          PROVE  ~loc'[q].cut
      <4>1. PICK ip : loc' = [loc EXCEPT ![p].ip = ip]
        BY <3>2 DEF Fork
      <4>2. QED
        BY <1>1, <2>1, <4>1 DEF Locals
    <3>3. QED
      BY <2>3, <3>1, <3>2
  <2>4. CASE ClearDone(p)
    BY <1>1, <2>1, <2>2, <2>4 DEF ClearDone, Locals
  <2>5. CASE ReadConf(p) \/ ClearSelect(p) \/ ClearRoute(p) \/ ClearDelete(p)
    <3>1. CASE ReadConf(p)
      <4>1. Return(p, "offer", "opts") \/ \E c : loc' = [loc EXCEPT ![p].pool = c]
        BY <3>1 DEF ReadConf
      <4>2. QED
        BY <1>1, <2>1, <2>2, <4>1 DEF Locals
    <3>2. CASE ClearSelect(p)
      BY <1>1, <2>1, <3>2 DEF ClearSelect, Locals
    <3>3. CASE ClearRoute(p)
      BY <1>1, <2>1, <3>3 DEF ClearRoute, Locals
    <3>4. QED
      BY <2>4, <2>5, <3>1, <3>2, <3>3 DEF ClearDelete
  <2>6. CASE OfferHeld(p) \/ Scan(p) \/ StoreDelete(p) \/ StoreInsert(p)
    BY <1>1, <2>1, <2>2, <2>6 DEF OfferHeld, Scan, StoreDelete, StoreInsert, Locals
  <2>7. CASE Find(p) \/ ReadLease(p) \/ Update(p)
    BY <1>1, <2>1, <2>2, <2>7 DEF Find, ReadLease, Update, Locals
  <2>8. CASE RequestRouteDelete(p) \/ RequestRouteAdd(p) \/ ReadOptions(p) \/ Send(p)
    <3>1. CASE ReadOptions(p)
      <4>1. \/ \E t : loc' = [loc EXCEPT ![p].told = t]
            \/ loc' = [loc EXCEPT ![p].reply = "none"]
        BY <3>1 DEF ReadOptions
      <4>2. QED
        BY <1>1, <2>1, <4>1 DEF Locals
    <3>2. QED
      BY <1>1, <2>2, <2>8, <3>1 DEF RequestRouteDelete, RequestRouteAdd, Send
  <2>9. CASE QueryFails(p)
    BY <1>1, <2>1, <2>2, <2>4, <2>9 DEF QueryFails, Locals
  <2>10. ~AnswerBreaks(p) /\ ~ScanBreaks(p)
    BY DEF AnswerBreaks, ScanBreaks
  <2>11. QED
    BY <1>3, <2>3, <2>5, <2>6, <2>7, <2>8, <2>9, <2>10 DEF ChildStep, Step
<1>4. QED
  BY <1>1, <1>2, <1>3 DEF Next, ChildStep

LEMMA UncutInvariance ==
    ASSUME "broken" \notin Faults
    PROVE  Spec => []Uncut
<1>1. Init => Uncut
  BY DEF Init, Uncut, NoLocals
<1>2. QED
  BY <1>1, UncutStep, Invariance, PTL DEF Spec

LEMMA KnowsChildStep ==
    ASSUME AllStatic, NothingFails, StaticInv, NEW p \in Procs, ChildStep(p)
    PROVE  Knows(leases', pc'[p], dg'[p], loc'[p])
<1>1. /\ leases \in Table
      /\ pc \in [Procs -> Labels]
      /\ dg \in [Procs -> Datagrams \cup Startup \cup {Nil}]
      /\ loc \in [Procs -> Locals] /\ loc[p] \in Locals
      /\ ChildOK(pc[p], dg[p], loc[p])
      /\ Knows(leases, pc[p], dg[p], loc[p])
      /\ IndInv
  BY TypesOf DEF StaticInv, OneLeaseInv, RouteInv, AllKnow
<1>2. ASSUME pc'[p] \in {"idle", "find", "send", "opts", "conf"}, loc'[p].todo = {}
      PROVE  Knows(leases', pc'[p], dg'[p], loc'[p])
  BY <1>2 DEF Knows, Offering, Common, Granting
<1>3. ASSUME NEW type, NEW l \in {"opts", "send"}, Return(p, type, l)
      PROVE  Knows(leases', pc'[p], dg'[p], loc'[p])
  <2>1. pc'[p] = l /\ loc'[p].todo = {}
    BY <1>1, <1>3 DEF Return, Goto, NoLocals
  <2>2. QED
    BY <1>2, <2>1
<1>4. ASSUME Exit(p)
      PROVE  Knows(leases', pc'[p], dg'[p], loc'[p])
  BY <1>1, <1>2, <1>4 DEF Exit, Goto, NoLocals
<1>5. ASSUME NEW d \in Datagrams, Fork(p, d)
      PROVE  Knows(leases', pc'[p], dg'[p], loc'[p])
  BY <1>1, <1>5 DEF Fork, Goto, Knows, Offering, Common, Granting, Locals
<1>6. ASSUME NEW n \in Nas, Boot(n, p)
      PROVE  Knows(leases', pc'[p], dg'[p], loc'[p])
  BY <1>1, <1>6 DEF Boot, Goto, Knows, Offering, Common, Granting
<1>7. CASE ReadConf(p)
  <2> DEFINE c == conf[dg[p].iface]
  <2>1. CASE c = NoConf
    BY <1>3, <1>7, <2>1 DEF ReadConf
  <2>2. CASE c # NoConf
    <3>1. dg[p].iface \in Ifaces
      BY <1>1, <1>7, DatagramsAssumption DEF ReadConf, ChildOK, Discovering, Datagram
    <3>2. c \in ConfChoices[dg[p].iface] \ {NoConf} /\ c \in PoolConf
      BY <1>1, <2>2, <3>1 DEF IndInv, TypeOK, ConfOK
    <3>3. c.static /\ c.ptp
      BY <3>1, <3>2 DEF AllStatic
    <3>4. pc'[p] = "clrSelect" /\ loc'[p].pool.static /\ loc'[p].todo = {}
      <4>1. /\ pc'[p] = "clrSelect" /\ loc'[p].todo = loc[p].todo
            /\ loc'[p].pool = [c EXCEPT !.static = c.static /\ c.ptp]
        BY <1>1, <1>7, <2>2 DEF ReadConf, Goto, Locals
      <4>2. QED
        BY <1>1, <3>2, <3>3, <4>1 DEF PoolConf, Knows
    <3>5. QED
      BY <3>4 DEF Knows, Offering, Granting
  <2>3. QED
    BY <2>1, <2>2
<1>8. CASE ClearSelect(p)
  <2>1. Expired(leases, dg[p].nas, now) = {}
    BY DEF Expired, StaticInv, RouteInv, RowsSent, Sent
  <2>2. /\ pc[p] = "clrSelect" /\ pc'[p] = "clrRoutes" /\ dg' = dg
        /\ loc'[p].todo = {} /\ loc'[p].pool = loc[p].pool
    BY <1>1, <1>8, <2>1 DEF ClearSelect, Goto, Locals
  <2>3. QED
    BY <1>1, <2>2 DEF Knows, Offering, Common, Granting
<1>9. CASE ClearRoute(p)
  BY <1>1, <1>9 DEF ClearRoute, Knows
<1>10. ASSUME pc[p] \in Common, ClearDone(p)
      PROVE  Knows(leases', pc'[p], dg'[p], loc'[p])
  <2>1. CASE dg[p].type = "boot"
    BY <1>4, <1>10, <2>1 DEF ClearDone
  <2>2. CASE dg[p].type # "boot"
    <3>1. /\ pc'[p] = IF dg[p].type = "discover" THEN "offer" ELSE "find"
          /\ dg' = dg /\ loc'[p].pool = loc[p].pool /\ loc'[p].todo = {}
      BY <1>1, <1>10, <2>2 DEF ClearDone, Goto, Locals
    <3>2. QED
      BY <1>1, <1>2, <1>10, <3>1 DEF Knows, Offering, Granting
  <2>3. QED
    BY <2>1, <2>2
<1>11. CASE ClearDelete(p)
  BY <1>10, <1>11 DEF ClearDelete, Common
<1>12. CASE OfferHeld(p) \/ Scan(p)
  <2>1. /\ loc'[p].todo = {}
        /\ pc'[p] \in {"idle", "scan", "storeDelete"}
        /\ pc'[p] # "idle" => loc'[p].pool.static
    BY <1>1, <1>12 DEF OfferHeld, Scan, Exit, Goto, NoLocals, Locals, Knows, Offering
  <2>2. QED
    BY <1>2, <2>1 DEF Knows, Granting
<1>13. CASE StoreDelete(p)
  <2>1. loc'[p].ip = loc[p].ip /\ loc'[p].pool = loc[p].pool /\ loc'[p].todo = loc[p].todo
    BY <1>1, <1>13 DEF StoreDelete, Locals
  <2>2. pc[p] = "storeDelete" /\ pc'[p] = "storeInsert"
    BY <1>1, <1>13 DEF StoreDelete, Goto
  <2>3. loc[p].ip \notin Leased(leases')
    BY <1>1, <1>13, DeleteIpType DEF StoreDelete, Leased
  <2>4. QED
    BY <1>1, <2>1, <2>2, <2>3 DEF Knows, Offering, Granting
<1>14. CASE StoreInsert(p)
  BY <1>3, <1>4, <1>14 DEF StoreInsert
<1>15. CASE Find(p)
  <2>1. CASE HasRow(leases, dg[p].iface, loc[p].ip)
    <3>1. /\ pc'[p] = "lease" /\ dg' = dg /\ leases' = leases
          /\ loc'[p].ip = loc[p].ip /\ loc'[p].todo = loc[p].todo
          /\ loc'[p].static = leases[loc[p].ip].static
          /\ loc'[p].routed = leases[loc[p].ip].routed
      BY <1>1, <1>15, <2>1 DEF Find, Goto, Locals
    <3>2. leases[loc[p].ip].static
      BY <2>1 DEF HasRow, StaticInv, RouteInv, RowsSent, Sent
    <3>3. /\ loc'[p].todo = {} /\ loc'[p].static
          /\ HasRow(leases', dg'[p].iface, loc'[p].ip)
          /\ loc'[p].routed = leases'[loc'[p].ip].routed
      BY <1>1, <2>1, <3>1, <3>2 DEF Knows
    <3>4. QED
      BY <3>1, <3>3 DEF Knows, Offering, Common
  <2>2. CASE ~HasRow(leases, dg[p].iface, loc[p].ip)
    BY <1>3, <1>15, <2>2 DEF Find
  <2>3. QED
    BY <2>1, <2>2
<1>16. CASE ReadLease(p)
  <2>1. CASE Exit(p)
    BY <1>4, <2>1
  <2>2. CASE ~Exit(p)
    <3>1. /\ pc[p] = "lease" /\ pc'[p] = "update" /\ dg' = dg /\ leases' = leases
          /\ loc'[p].ip = loc[p].ip /\ loc'[p].todo = loc[p].todo
          /\ loc'[p].static = loc[p].static /\ loc'[p].routed = loc[p].routed
      BY <1>1, <1>16, <2>2 DEF ReadLease, Goto, Locals
    <3>2. /\ loc'[p].todo = {} /\ loc'[p].static
          /\ HasRow(leases', dg'[p].iface, loc'[p].ip)
          /\ loc'[p].routed = leases'[loc'[p].ip].routed
      BY <1>1, <3>1 DEF Knows, Granting
    <3>3. QED
      BY <3>1, <3>2 DEF Knows, Offering, Common
  <2>3. QED
    BY <2>1, <2>2
<1>17. CASE Update(p)
  <2>1. PICK r \in Confirm(leases, dg[p].iface, dg[p].mac, loc[p].till) :
          /\ leases' = r.table
          /\ IF r.ok THEN Goto(p, "rtDelete") /\ UNCHANGED loc
                     ELSE Return(p, "decline", "send")
    BY <1>17 DEF Update
  <2>2. CASE ~r.ok
    BY <1>3, <2>1, <2>2
  <2>3. CASE r.ok
    <3>1. pc[p] = "update" /\ pc[p] \in Granting
      BY <1>17 DEF Update, Granting
    <3>2. HasRow(leases, dg[p].iface, loc[p].ip) /\ dg' = dg
      BY <1>1, <1>17, <3>1 DEF Knows, Update
    <3>3. dg[p].mac \in Macs /\ loc[p].till \in Int
      BY <1>1, <3>1, GrantFacts DEF Datagram, Locals
    <3>4. leases'[loc[p].ip] = Allocated(leases[loc[p].ip], dg[p].mac, loc[p].till)
      <4>1. \A q \in Ips : leases'[q] = IF q = loc[p].ip
                                         THEN Allocated(leases[q], dg[p].mac, loc[p].till)
                                         ELSE leases[q]
        BY <1>1, <2>1, <2>3, <3>2, ConfirmedRow
      <4>2. QED
        BY <3>2, <4>1 DEF HasRow, Leased
    <3>5. leases[loc[p].ip] \in Row /\ loc[p].ip \in Ips
      BY <1>1, <3>2 DEF HasRow, Leased, Table
    <3>6. /\ leases'[loc[p].ip] \in Row
          /\ leases'[loc[p].ip].iface = leases[loc[p].ip].iface
          /\ leases'[loc[p].ip].routed = leases[loc[p].ip].routed
      BY <3>3, <3>4, <3>5 DEF Allocated, Row
    <3>7. HasRow(leases', dg[p].iface, loc[p].ip)
      BY <3>2, <3>5, <3>6, NoRowAssumption DEF HasRow, Leased
    <3>8. pc'[p] = "rtDelete" /\ loc' = loc
      BY <1>1, <2>1, <2>3 DEF Goto
    <3>9. /\ loc'[p].todo = {} /\ loc'[p].static
          /\ HasRow(leases', dg'[p].iface, loc'[p].ip)
          /\ loc'[p].routed = leases'[loc'[p].ip].routed
      BY <1>1, <3>1, <3>2, <3>6, <3>7, <3>8 DEF Knows
    <3>10. QED
      BY <3>8, <3>9 DEF Knows, Offering, Common
  <2>4. QED
    BY <2>2, <2>3
<1>18. CASE RequestRouteDelete(p)
  <2>1. /\ pc[p] = "rtDelete" /\ pc'[p] = "rtAdd" /\ dg' = dg /\ leases' = leases
        /\ loc' = loc
    BY <1>1, <1>18 DEF RequestRouteDelete, Goto
  <2>2. QED
    BY <1>1, <2>1 DEF Knows, Offering, Common, Granting
<1>19. CASE RequestRouteAdd(p) \/ ReadOptions(p) \/ Send(p)
  <2>1. CASE RequestRouteAdd(p) \/ Send(p)
    BY <1>3, <1>4, <2>1 DEF RequestRouteAdd, Send
  <2>2. CASE ReadOptions(p)
    BY <1>1, <1>2, <2>2 DEF ReadOptions, Goto, Locals, Knows
  <2>3. QED
    BY <1>19, <2>1, <2>2
<1>20. ~QueryFails(p) /\ ~AnswerBreaks(p) /\ ~ScanBreaks(p)
  BY DEF QueryFails, AnswerBreaks, ScanBreaks, NothingFails
<1>21. QED
  BY <1>5, <1>6, <1>7, <1>8, <1>9, <1>11, <1>12, <1>13, <1>14, <1>15, <1>16, <1>17, <1>18,
     <1>19, <1>20 DEF ChildStep, Step

\* A row whose interface is that of a datagram has its server.
LEMMA ServerOf ==
    ASSUME Seated, StaticInv, NEW ip \in Leased(leases), NEW d \in Datagrams,
           leases[ip].iface = d.iface
    PROVE  leases[ip].nas = d.nas
<1>1. PICK e \in Datagrams : e.iface = leases[ip].iface /\ e.nas = leases[ip].nas
  BY DEF StaticInv, RouteInv, RowsSent, Sent
<1>2. QED
  BY <1>1 DEF Seated

\* What the statements that write the table do to it: an offer always finds its
\* address free and no other row of its client.
LEMMA StoreDeletes ==
    ASSUME StaticInv, NEW p \in Procs, StoreDelete(p)
    PROVE  /\ \A q \in Ips : leases'[q] = IF q = loc[p].ip THEN NoRow ELSE leases[q]
           /\ loc[p].ip \in Ips /\ dg[p] \in Datagrams
           /\ loc[p].ip \in Leased(leases) => leases[loc[p].ip].iface = dg[p].iface
           /\ pc[p] = "storeDelete" /\ pc'[p] = "storeInsert" /\ dg' = dg
           /\ loc'[p].ip = loc[p].ip /\ UNCHANGED routes
<1>1. IndInv /\ TargetOK /\ Uncut
  BY DEF StaticInv, OneLeaseInv, SerialInv
<1>2. loc[p].ip \in Ips /\ dg[p] \in Datagrams
  BY <1>1, OfferedRowType DEF StoreDelete
<1>3. leases \in Table /\ pc \in [Procs -> Labels] /\ loc \in [Procs -> Locals] /\ loc[p] \in Locals
  BY <1>1, TypesOf
<1>4. \A q \in Ips : leases'[q] = IF q = loc[p].ip THEN NoRow ELSE leases[q]
  BY <1>3, DeleteIpType DEF StoreDelete
<1>5. pc[p] = "storeDelete" /\ pc'[p] = "storeInsert" /\ dg' = dg /\ loc'[p].ip = loc[p].ip
  BY <1>3 DEF StoreDelete, Goto, Locals
<1>6. loc[p].ip \in Leased(leases) => leases[loc[p].ip].iface = dg[p].iface
  BY <1>1, <1>5 DEF TargetOK, Uncut
<1>7. QED
  BY <1>2, <1>4, <1>5, <1>6 DEF StoreDelete

LEMMA StoreInserts ==
    ASSUME Seated, StaticInv, NEW p \in Procs, StoreInsert(p)
    PROVE  /\ loc[p].ip \in Ips /\ OfferedRow(p) \in Row /\ OfferedRow(p) # NoRow
           /\ \A q \in Ips : leases'[q] = IF q = loc[p].ip THEN OfferedRow(p) ELSE leases[q]
           /\ dg[p] \in Datagrams /\ loc[p].pool.static
           /\ pc[p] = "storeInsert" /\ pc'[p] = "opts" /\ UNCHANGED <<dg, routes>>
<1>1. IndInv
  BY DEF StaticInv, OneLeaseInv
<1>2. pc[p] = "storeInsert"
  BY DEF StoreInsert
<1>3. loc[p].ip \in Ips /\ dg[p] \in Datagrams /\ OfferedRow(p) \in Row
  BY <1>1, <1>2, OfferedRowType
<1>4. loc[p].ip \notin Leased(leases) /\ loc[p].pool.static
  BY <1>2 DEF StaticInv, RouteInv, AllKnow, Knows, Offering
<1>5. RowsOf(leases, dg[p].iface) = {}
  BY <1>2 DEF StaticInv, OneLeaseInv, AllSought, Sought
<1>6. \A q \in Leased(leases) : leases[q].mac # dg[p].mac
  <2>1. SUFFICES ASSUME NEW q \in Leased(leases), leases[q].mac = dg[p].mac
                 PROVE  FALSE
    OBVIOUS
  <2>2. PICK e \in Datagrams : e.iface = leases[q].iface /\ e.mac = leases[q].mac
    BY DEF StaticInv, RouteInv, RowsSent, Sent
  <2>3. leases[q].iface = dg[p].iface
    BY <1>3, <2>1, <2>2 DEF Seated
  <2>4. QED
    BY <1>5, <2>3 DEF RowsOf
<1>7. CanInsert(leases, loc[p].ip, OfferedRow(p))
  BY <1>3, <1>4, <1>6 DEF CanInsert, MacElsewhere, OfferedRow, Leased
<1>8. leases \in Table /\ pc \in [Procs -> Labels]
  BY <1>1, TypesOf
<1>9. leases' = [leases EXCEPT ![loc[p].ip] = OfferedRow(p)]
  BY <1>7 DEF StoreInsert
<1>10. \A q \in Ips : leases'[q] = IF q = loc[p].ip THEN OfferedRow(p) ELSE leases[q]
  BY <1>8, <1>9 DEF Table
<1>11. pc'[p] = "opts" /\ UNCHANGED <<dg, routes>>
  BY <1>7, <1>8 DEF StoreInsert, Return, Goto
<1>12. QED
  BY <1>2, <1>3, <1>4, <1>10, <1>11, NoRowAssumption

\* An update confirms the row of its interface.
LEMMA Updates ==
    ASSUME Seated, StaticInv, NEW p \in Procs, Update(p)
    PROVE  /\ loc[p].ip \in Leased(leases) /\ leases[loc[p].ip].iface = dg[p].iface
           /\ dg[p] \in Datagrams /\ leases[loc[p].ip] \in Row
           /\ Allocated(leases[loc[p].ip], dg[p].mac, loc[p].till) \in Row
           /\ \A q \in Ips : leases'[q] = IF q = loc[p].ip
                                            THEN Allocated(leases[q], dg[p].mac, loc[p].till)
                                            ELSE leases[q]
           /\ pc[p] = "update" /\ pc'[p] = "rtDelete" /\ UNCHANGED <<dg, loc, routes>>
<1>1. IndInv
  BY DEF StaticInv, OneLeaseInv
<1>2. pc[p] = "update" /\ pc[p] \in Granting
  BY DEF Update, Granting
<1>3. dg[p] \in Datagrams /\ dg[p].mac \in Macs /\ loc[p].till \in Int
  BY <1>1, <1>2, GrantFacts DEF Datagram, Locals
<1>4. HasRow(leases, dg[p].iface, loc[p].ip)
  BY <1>2 DEF StaticInv, RouteInv, AllKnow, Knows
<1>5. leases \in Table /\ pc \in [Procs -> Labels]
  BY <1>1, TypesOf
<1>6. leases[loc[p].ip] \in Row
  BY <1>4, <1>5 DEF HasRow, Leased, Table
<1>7. Allocated(leases[loc[p].ip], dg[p].mac, loc[p].till) \in Row
  BY <1>3, <1>6 DEF Allocated, Row
<1>8. PICK r \in Confirm(leases, dg[p].iface, dg[p].mac, loc[p].till) :
        /\ leases' = r.table
        /\ IF r.ok THEN Goto(p, "rtDelete") /\ UNCHANGED loc
                   ELSE Return(p, "decline", "send")
  BY DEF Update
<1>9. \A q \in Leased(leases) : leases[q].iface = dg[p].iface => q = loc[p].ip
  BY <1>4 DEF StaticInv, OneLeaseInv, OneRow, HasRow
<1>10. ~MacElsewhere(leases, loc[p].ip, dg[p].mac)
  <2>1. SUFFICES ASSUME NEW q \in Leased(leases) \ {loc[p].ip}, leases[q].mac = dg[p].mac
                 PROVE  FALSE
    BY DEF MacElsewhere
  <2>2. PICK e \in Datagrams : e.iface = leases[q].iface /\ e.mac = leases[q].mac
    BY DEF StaticInv, RouteInv, RowsSent, Sent
  <2>3. leases[q].iface = dg[p].iface
    BY <1>3, <2>1, <2>2 DEF Seated
  <2>4. QED
    BY <1>9, <2>3
<1>11. r.ok
  <2> DEFINE mine == {ip \in Leased(leases) : leases[ip].iface = dg[p].iface}
  <2>1. mine = {loc[p].ip}
    BY <1>4, <1>9 DEF HasRow
  <2>2. PICK ip \in mine :
          r = IF MacElsewhere(leases, ip, dg[p].mac)
              THEN [table |-> leases, ok |-> FALSE]
              ELSE [table |-> [leases EXCEPT ![ip] = Allocated(@, dg[p].mac, loc[p].till)],
                    ok    |-> mine = {ip}]
    BY <1>8, <2>1 DEF Confirm
  <2>3. QED
    BY <1>10, <2>1, <2>2
<1>12. \A q \in Ips : leases'[q] = IF q = loc[p].ip
                                   THEN Allocated(leases[q], dg[p].mac, loc[p].till)
                                   ELSE leases[q]
  <2>1. \A q \in Ips : r.table[q] = IF q = loc[p].ip
                                   THEN Allocated(leases[loc[p].ip], dg[p].mac, loc[p].till)
                                   ELSE leases[q]
    BY <1>4, <1>5, <1>8, <1>11, ConfirmedRow
  <2>2. QED
    BY <1>8, <2>1
<1>13. pc'[p] = "rtDelete" /\ UNCHANGED <<dg, loc, routes>>
  BY <1>5, <1>8, <1>11 DEF Update, Goto
<1>14. QED
  BY <1>2, <1>3, <1>4, <1>6, <1>7, <1>12, <1>13 DEF HasRow

LEMMA RowsSentStep ==
    ASSUME Seated, StaticInv, [Next]_vars
    PROVE  RowsSent'
<1>1. RowsSent /\ leases \in Table
  BY DEF StaticInv, RouteInv, OneLeaseInv, IndInv, TypeOK
<1>2. CASE leases' = leases
  BY <1>1, <1>2 DEF RowsSent
<1>3. CASE leases' # leases
  <2>1. PICK p \in Procs : ClearDelete(p) \/ StoreDelete(p) \/ StoreInsert(p) \/ Update(p)
    BY <1>3, Writers
  <2>2. CASE ClearDelete(p)
    BY <1>1, <2>2, ClearExpiredType DEF ClearDelete, RowsSent, Leased
  <2>3. CASE StoreDelete(p)
    BY <1>1, <2>3, StoreDeletes DEF RowsSent, Leased
  <2>4. CASE StoreInsert(p)
    <3>1. /\ loc[p].ip \in Ips /\ dg[p] \in Datagrams /\ loc[p].pool.static
          /\ \A q \in Ips : leases'[q] = IF q = loc[p].ip THEN OfferedRow(p) ELSE leases[q]
      BY <2>4, StoreInserts
    <3>2. /\ OfferedRow(p).static = loc[p].pool.static
          /\ OfferedRow(p).iface = dg[p].iface /\ OfferedRow(p).mac = dg[p].mac
          /\ OfferedRow(p).nas = dg[p].nas
      BY DEF OfferedRow
    <3>3. Sent(OfferedRow(p))
      BY <3>1, <3>2 DEF Sent
    <3>4. QED
      BY <1>1, <3>1, <3>3 DEF RowsSent, Leased
  <2>5. CASE Update(p)
    <3> DEFINE row == leases[loc[p].ip]
               new == Allocated(row, dg[p].mac, loc[p].till)
    <3>1. /\ loc[p].ip \in Leased(leases) /\ row.iface = dg[p].iface
          /\ dg[p] \in Datagrams /\ row \in Row /\ new \in Row
          /\ \A q \in Ips : leases'[q] = IF q = loc[p].ip
                                           THEN Allocated(leases[q], dg[p].mac, loc[p].till)
                                           ELSE leases[q]
      BY <2>5, Updates
    <3>2. row.nas = dg[p].nas
      BY <3>1, ServerOf
    <3>3. /\ new.static = row.static /\ new.iface = dg[p].iface
          /\ new.mac = dg[p].mac /\ new.nas = dg[p].nas
      BY <3>1, <3>2 DEF Allocated, Row
    <3>4. row.static
      BY <1>1, <3>1 DEF RowsSent, Sent
    <3>5. leases'[loc[p].ip] = new /\ \A q \in Ips \ {loc[p].ip} : leases'[q] = leases[q]
      BY <3>1 DEF Leased
    <3> HIDE DEF row, new
    <3>6. Sent(new)
      BY <3>1, <3>3, <3>4 DEF Sent
    <3>7. QED
      BY <1>1, <3>1, <3>5, <3>6 DEF RowsSent, Leased
  <2>6. QED
    BY <2>1, <2>2, <2>3, <2>4, <2>5
<1>4. QED
  BY <1>2, <1>3

\* The steps that write a route.
LEMMA RouteWriters ==
    ASSUME StaticInv, NothingFails, [Next]_vars, routes' # routes
    PROVE  \E p \in Procs : RequestRouteDelete(p) \/ RequestRouteAdd(p)
<1>1. \A p \in Procs : ~ClearRoute(p)
  BY DEF StaticInv, RouteInv, AllKnow, Knows, ClearRoute
<1>2. ASSUME NEW p \in Procs, Step(p)
      PROVE  RequestRouteDelete(p) \/ RequestRouteAdd(p)
  BY <1>1, <1>2 DEF Step, ReadConf, ClearSelect, ClearDelete, OfferHeld, Scan, StoreDelete,
     StoreInsert, Find, ReadLease, Update, ReadOptions, Send, QueryFails, AnswerBreaks, ScanBreaks
<1>3. ~Environment
  BY DEF Environment, Tick, Reconfigure, Stop, Reboot, NothingFails
<1>4. QED
  BY <1>2, <1>3 DEF Next, Fork, Boot, vars

\* The two route requests of a child touch the routes of its address alone.
LEMMA RouteWrites ==
    ASSUME Seated, StaticInv, NEW p \in Procs, RequestRouteDelete(p) \/ RequestRouteAdd(p)
    PROVE  LET ip == loc[p].ip
               n == dg[p].nas
               i == dg[p].iface
           IN  /\ ip \in Leased(leases) /\ leases[ip].iface = i /\ leases[ip].nas = n
               /\ n \in Nas /\ i \in Ifaces /\ leases[ip].routed = loc[p].routed
               /\ pc[p] \in {"rtDelete", "rtAdd"} /\ UNCHANGED <<leases, dg>>
               /\ \A k \in Nas, q \in Ips :
                    routes'[k][q] =
                        IF k # n \/ q # ip THEN routes[k][q]
                        ELSE IF pc[p] = "rtDelete" THEN RouteDelete(routes[k][q])
                        ELSE IF loc[p].routed THEN RouteAdd(routes[k][q], i)
                        ELSE routes[k][q]
               /\ IF pc[p] = "rtDelete" THEN pc'[p] = "rtAdd" /\ loc'[p].ip = ip
                                        ELSE pc'[p] = "opts"
<1> DEFINE ip == loc[p].ip
           n == dg[p].nas
           i == dg[p].iface
<1>1. IndInv
  BY DEF StaticInv, OneLeaseInv
<1>2. pc[p] \in {"rtDelete", "rtAdd"} /\ pc[p] \in Granting /\ UNCHANGED <<leases, dg>>
  BY DEF RequestRouteDelete, RequestRouteAdd, Granting
<1>3. dg[p] \in Datagrams /\ n \in Nas /\ i \in Ifaces
  BY <1>1, <1>2, GrantFacts DEF Datagram
<1>4. HasRow(leases, i, ip) /\ loc[p].static /\ loc[p].routed = leases[ip].routed
  BY <1>2 DEF StaticInv, RouteInv, AllKnow, Knows
<1>5. ip \in Leased(leases) /\ leases[ip].iface = i /\ leases[ip].nas = n
  <2>1. ip \in Leased(leases) /\ leases[ip].iface = i
    BY <1>4 DEF HasRow
  <2>2. QED
    BY <1>3, <2>1, ServerOf
<1>6. routes \in [Nas -> [Ips -> Seq(Ifaces)]] /\ pc \in [Procs -> Labels]
      /\ loc \in [Procs -> Locals]
  BY <1>1 DEF IndInv, TypeOK
<1>7. CASE RequestRouteDelete(p)
  <2>1. routes' = [routes EXCEPT ![n][ip] = RouteDelete(@)]
    BY <1>4, <1>7 DEF RequestRouteDelete
  <2>2. \A k \in Nas, q \in Ips :
          routes'[k][q] = IF k = n /\ q = ip THEN RouteDelete(routes[k][q]) ELSE routes[k][q]
    BY <1>6, <2>1
  <2>3. pc[p] = "rtDelete" /\ pc'[p] = "rtAdd" /\ loc'[p].ip = ip
    BY <1>6, <1>7 DEF RequestRouteDelete, Goto
  <2>4. QED
    BY <1>2, <1>3, <1>4, <1>5, <2>2, <2>3
<1>8. CASE RequestRouteAdd(p)
  <2>1. routes' = IF loc[p].routed THEN [routes EXCEPT ![n][ip] = RouteAdd(@, i)] ELSE routes
    BY <1>8 DEF RequestRouteAdd
  <2>2. \A k \in Nas, q \in Ips :
          routes'[k][q] = IF k = n /\ q = ip /\ loc[p].routed THEN RouteAdd(routes[k][q], i)
                          ELSE routes[k][q]
    BY <1>6, <2>1
  <2>3. pc[p] = "rtAdd" /\ pc'[p] = "opts"
    BY <1>6, <1>8 DEF RequestRouteAdd, Return, Goto
  <2>4. QED
    BY <1>2, <1>3, <1>4, <1>5, <2>2, <2>3
<1>9. QED
  BY <1>7, <1>8

LEMMA RoutesOwnedStep ==
    ASSUME \A p, q \in Procs : p = q, Seated, NothingFails, StaticInv, [Next]_vars
    PROVE  RoutesOwned'
<1> SUFFICES ASSUME NEW n \in Nas, NEW ip \in Ips, routes'[n][ip] # <<>>
             PROVE  \E i \in Ifaces : routes'[n][ip] = <<i>> /\ BelongsTo(ip, n, i)'
  BY DEF RoutesOwned
<1>1. RoutesOwned /\ AllKnow /\ leases \in Table
  BY DEF StaticInv, RouteInv, OneLeaseInv, IndInv, TypeOK
<1>2. CASE routes' # routes
  <2>1. PICK p \in Procs : RequestRouteDelete(p) \/ RequestRouteAdd(p)
    BY <1>2, RouteWriters
  <2>2. /\ loc[p].ip \in Leased(leases) /\ leases[loc[p].ip].iface = dg[p].iface
        /\ leases[loc[p].ip].nas = dg[p].nas
        /\ dg[p].nas \in Nas /\ dg[p].iface \in Ifaces
        /\ pc[p] \in {"rtDelete", "rtAdd"} /\ leases' = leases
        /\ \A k \in Nas, q \in Ips :
             routes'[k][q] = IF k # dg[p].nas \/ q # loc[p].ip THEN routes[k][q]
                             ELSE IF pc[p] = "rtDelete" THEN RouteDelete(routes[k][q])
                             ELSE IF loc[p].routed THEN RouteAdd(routes[k][q], dg[p].iface)
                             ELSE routes[k][q]
    BY <2>1, RouteWrites
  <2>3. \A k \in Nas, q \in Ips, i \in Ifaces :
          BelongsTo(q, k, i) => q \in Leased(leases) /\ leases[q].iface = i /\ leases[q].nas = k
    BY <2>2 DEF BelongsTo
  <2>4. \A k \in Nas, q \in Ips, i \in Ifaces : BelongsTo(q, k, i) => BelongsTo(q, k, i)'
    BY <2>2, <2>3 DEF BelongsTo
  <2>5. CASE n = dg[p].nas /\ ip = loc[p].ip
    <3> DEFINE i == dg[p].iface
    <3>1. BelongsTo(ip, n, i)
      BY <2>2, <2>5 DEF BelongsTo
    <3>2. routes[n][ip] = <<>> \/ routes[n][ip] = <<i>>
      BY <1>1, <2>2, <2>3, <2>5 DEF RoutesOwned
    <3>3. RouteDelete(<<>>) = <<>> /\ RouteDelete(<<i>>) = <<>>
      BY DEF RouteDelete
    <3>4. RouteAdd(<<>>, i) = <<i>> /\ RouteAdd(<<i>>, i) = <<i>>
      BY <2>2 DEF RouteAdd, Devices
    <3>5. routes'[n][ip] = <<i>>
      BY <2>2, <2>5, <3>2, <3>3, <3>4
    <3>6. QED
      BY <2>2, <2>4, <3>1, <3>5
  <2>6. CASE ~(n = dg[p].nas /\ ip = loc[p].ip)
    BY <1>1, <2>2, <2>4, <2>6 DEF RoutesOwned
  <2>7. QED
    BY <2>5, <2>6
<1>3. CASE routes' = routes
  <2> PICK i \in Ifaces : routes[n][ip] = <<i>> /\ BelongsTo(ip, n, i)
    BY <1>1, <1>3 DEF RoutesOwned
  <2> SUFFICES BelongsTo(ip, n, i)'
    BY <1>3
  <2>1. CASE leases' # leases
    <3>1. PICK p \in Procs : ClearDelete(p) \/ StoreDelete(p) \/ StoreInsert(p) \/ Update(p)
      BY <2>1, Writers
    <3>2. CASE ClearDelete(p)
      <4>1. leases' = leases
        <5>1. Expired(leases, dg[p].nas, loc[p].t) = {}
          BY DEF Expired, StaticInv, RouteInv, RowsSent, Sent
        <5>2. QED
          BY <1>1, <3>2, <5>1 DEF ClearDelete, ClearExpired, Table
      <4>2. QED
        BY <2>1, <4>1
    <3>3. CASE StoreDelete(p)
      <4>1. /\ \A q \in Ips : leases'[q] = IF q = loc[p].ip THEN NoRow ELSE leases[q]
            /\ loc[p].ip \in Ips /\ dg[p] \in Datagrams
            /\ loc[p].ip \in Leased(leases) => leases[loc[p].ip].iface = dg[p].iface
            /\ pc[p] = "storeDelete" /\ pc'[p] = "storeInsert" /\ dg' = dg
            /\ loc'[p].ip = loc[p].ip
        BY <3>3, StoreDeletes
      <4>2. ip \in Leased(leases) /\ leases[ip].iface = i /\ leases[ip].nas = n
        BY <4>1 DEF BelongsTo
      <4>3. CASE ip = loc[p].ip
        <5>1. dg[p].iface = i /\ dg[p].nas = n
          BY <4>1, <4>2, <4>3, ServerOf
        <5>2. QED
          BY <4>1, <4>3, <5>1 DEF BelongsTo
      <4>4. CASE ip # loc[p].ip
        BY <4>1, <4>2, <4>4 DEF BelongsTo, Leased
      <4>5. QED
        BY <4>3, <4>4
    <3>4. CASE StoreInsert(p)
      <4>1. /\ OfferedRow(p) # NoRow /\ pc[p] = "storeInsert"
            /\ \A q \in Ips : leases'[q] = IF q = loc[p].ip THEN OfferedRow(p) ELSE leases[q]
        BY <3>4, StoreInserts
      <4>2. OfferedRow(p).iface = dg[p].iface /\ OfferedRow(p).nas = dg[p].nas
        BY DEF OfferedRow
      <4>3. CASE ip = loc[p].ip
        <5>1. loc[p].ip \notin Leased(leases)
          BY <1>1, <4>1 DEF AllKnow, Knows
        <5>2. dg[p].iface = i /\ dg[p].nas = n
          BY <4>3, <5>1 DEF BelongsTo
        <5>3. leases'[ip] = OfferedRow(p)
          BY <4>1, <4>3
        <5>4. QED
          BY <4>1, <4>2, <5>2, <5>3 DEF BelongsTo, Leased
      <4>4. CASE ip # loc[p].ip
        <5>1. ip \in Leased(leases) /\ leases[ip].iface = i /\ leases[ip].nas = n
          BY <4>4 DEF BelongsTo
        <5>2. QED
          BY <4>1, <4>4, <5>1 DEF BelongsTo, Leased
      <4>5. QED
        BY <4>3, <4>4
    <3>5. CASE Update(p)
      <4>1. /\ pc[p] = "update" /\ leases[loc[p].ip] \in Row
            /\ Allocated(leases[loc[p].ip], dg[p].mac, loc[p].till) \in Row
            /\ \A q \in Ips : leases'[q] = IF q = loc[p].ip
                                             THEN Allocated(leases[q], dg[p].mac, loc[p].till)
                                             ELSE leases[q]
        BY <3>5, Updates
      <4>2. ip \in Leased(leases) /\ leases[ip].iface = i /\ leases[ip].nas = n
        BY <4>1 DEF BelongsTo
      <4>3. leases'[ip] # NoRow /\ leases'[ip].iface = i /\ leases'[ip].nas = n
        <5>1. CASE ip = loc[p].ip
          <6>1. leases'[ip] = Allocated(leases[ip], dg[p].mac, loc[p].till) /\ leases'[ip] \in Row
            BY <4>1, <5>1
          <6>2. QED
            BY <4>1, <4>2, <5>1, <6>1, NoRowAssumption DEF Allocated, Row
        <5>2. CASE ip # loc[p].ip
          BY <4>1, <4>2, <5>2 DEF Leased
        <5>3. QED
          BY <5>1, <5>2
      <4>4. QED
        BY <4>3 DEF BelongsTo, Leased
    <3>6. QED
      BY <3>1, <3>2, <3>3, <3>4, <3>5
  <2>2. CASE leases' = leases
    <3>1. CASE ip \in Leased(leases) /\ leases[ip].iface = i /\ leases[ip].nas = n
      BY <2>2, <3>1 DEF BelongsTo
    <3>2. ASSUME NEW p \in Procs, pc[p] = "storeInsert", loc[p].ip = ip,
                 dg[p].iface = i, dg[p].nas = n
          PROVE  BelongsTo(ip, n, i)'
      <4>1. ~StoreInsert(p)
        <5>1. SUFFICES ASSUME StoreInsert(p) PROVE FALSE
          OBVIOUS
        <5>2. leases'[ip] = OfferedRow(p) /\ OfferedRow(p) # NoRow
          BY <3>2, <5>1, StoreInserts
        <5>3. ip \notin Leased(leases)
          BY <1>1, <3>2 DEF AllKnow, Knows
        <5>4. QED
          BY <2>2, <5>2, <5>3 DEF Leased
      <4>2. \A q \in Procs : ~ChildStep(q)
        <5>1. ~ChildStep(p)
          BY <3>2, <4>1 DEF ChildStep, Step, Fork, Boot, ReadConf, ClearSelect, ClearRoute,
             ClearDelete, OfferHeld, Scan, StoreDelete, Find, ReadLease, Update,
             RequestRouteDelete, RequestRouteAdd, ReadOptions, Send, QueryFails,
             AnswerBreaks, ScanBreaks, NothingFails
        <5>2. QED
          BY <5>1
      <4>3. pc'[p] = pc[p] /\ loc'[p] = loc[p] /\ dg'[p] = dg[p]
        BY <4>2 DEF ChildStep, Next, Environment, Tick, Reconfigure, Stop, Reboot, NothingFails,
           vars
      <4>4. QED
        BY <3>2, <4>3 DEF BelongsTo
    <3>3. QED
      BY <3>1, <3>2 DEF BelongsTo
  <2>3. QED
    BY <2>1, <2>2
<1>4. QED
  BY <1>2, <1>3

LEMMA RoutesMadeStep ==
    ASSUME \A p, q \in Procs : p = q, Seated, NothingFails, StaticInv, [Next]_vars
    PROVE  RoutesMade'
<1> SUFFICES ASSUME NEW ip \in Leased(leases'),
                    leases'[ip].state = "allocated", leases'[ip].routed
             PROVE  \/ routes'[leases'[ip].nas][ip] # <<>>
                    \/ \E p \in Procs : pc'[p] \in {"rtDelete", "rtAdd"} /\ loc'[p].ip = ip
  BY DEF RoutesMade
<1>1. RoutesMade /\ leases \in Table /\ ip \in Ips
  BY DEF StaticInv, RouteInv, OneLeaseInv, IndInv, TypeOK, Leased
<1>2. CASE leases' # leases
  <2>1. PICK p \in Procs : ClearDelete(p) \/ StoreDelete(p) \/ StoreInsert(p) \/ Update(p)
    BY <1>2, Writers
  <2>2. ASSUME leases'[ip] = leases[ip], UNCHANGED routes, pc[p] \notin {"rtDelete", "rtAdd"}
        PROVE  routes'[leases'[ip].nas][ip] # <<>>
    <3>1. ip \in Leased(leases)
      BY <2>2 DEF Leased
    <3>2. QED
      BY <1>1, <2>2, <3>1 DEF RoutesMade
  <2>3. CASE ClearDelete(p)
    <3>1. leases'[ip] = leases[ip]
      BY <1>1, <2>3, ClearExpiredType DEF ClearDelete, Leased
    <3>2. QED
      BY <2>2, <2>3, <3>1 DEF ClearDelete
  <2>4. CASE StoreDelete(p)
    <3>1. leases'[ip] = leases[ip] /\ pc[p] = "storeDelete" /\ UNCHANGED routes
      BY <1>1, <2>4, StoreDeletes DEF Leased
    <3>2. QED
      BY <2>2, <3>1
  <2>5. CASE StoreInsert(p)
    <3>1. OfferedRow(p).state = "offered"
      BY DEF OfferedRow
    <3>2. leases'[ip] = leases[ip] /\ pc[p] = "storeInsert" /\ UNCHANGED routes
      BY <1>1, <2>5, <3>1, StoreInserts
    <3>3. QED
      BY <2>2, <3>2
  <2>6. CASE Update(p)
    <3>1. /\ \A q \in Ips : leases'[q] = IF q = loc[p].ip
                                           THEN Allocated(leases[q], dg[p].mac, loc[p].till)
                                           ELSE leases[q]
          /\ pc[p] = "update" /\ pc'[p] = "rtDelete" /\ UNCHANGED <<loc, routes>>
      BY <2>6, Updates
    <3>2. CASE ip = loc[p].ip
      BY <3>1, <3>2
    <3>3. CASE ip # loc[p].ip
      BY <1>1, <2>2, <3>1, <3>3
    <3>4. QED
      BY <3>2, <3>3
  <2>7. QED
    BY <2>1, <2>3, <2>4, <2>5, <2>6
<1>3. CASE leases' = leases
  <2> DEFINE n == leases[ip].nas
  <2>1. n \in Nas
    BY <1>1, <1>3 DEF Leased, Table, Row
  <2>2. ASSUME NEW p \in Procs, RequestRouteDelete(p) \/ RequestRouteAdd(p)
        PROVE  \/ routes'[n][ip] # <<>>
               \/ pc'[p] \in {"rtDelete", "rtAdd"} /\ loc'[p].ip = ip
    <3>1. /\ leases[loc[p].ip].nas = dg[p].nas /\ leases[loc[p].ip].routed = loc[p].routed
          /\ pc[p] \in {"rtDelete", "rtAdd"}
          /\ \A k \in Nas, q \in Ips :
               routes'[k][q] = IF k # dg[p].nas \/ q # loc[p].ip THEN routes[k][q]
                               ELSE IF pc[p] = "rtDelete" THEN RouteDelete(routes[k][q])
                               ELSE IF loc[p].routed THEN RouteAdd(routes[k][q], dg[p].iface)
                               ELSE routes[k][q]
          /\ IF pc[p] = "rtDelete" THEN pc'[p] = "rtAdd" /\ loc'[p].ip = loc[p].ip
                                   ELSE pc'[p] = "opts"
      BY <2>2, RouteWrites
    <3>2. CASE ip # loc[p].ip
      <4>1. routes'[n][ip] = routes[n][ip]
        BY <1>1, <2>1, <3>1, <3>2
      <4>2. routes[n][ip] # <<>>
        BY <1>1, <1>3, <3>2 DEF RoutesMade
      <4>3. QED
        BY <4>1, <4>2
    <3>3. CASE ip = loc[p].ip /\ pc[p] = "rtDelete"
      BY <3>1, <3>3
    <3>4. CASE ip = loc[p].ip /\ pc[p] = "rtAdd"
      <4>1. routes'[n][ip] = RouteAdd(routes[n][ip], dg[p].iface)
        BY <1>1, <1>3, <2>1, <3>1, <3>4
      <4>2. \A rs, i : RouteAdd(rs, i) # <<>>
        <5>1. SUFFICES ASSUME NEW rs, NEW i, RouteAdd(rs, i) = <<>>
                       PROVE  FALSE
          OBVIOUS
        <5>2. CASE i \in Devices(rs)
          BY <5>1, <5>2 DEF RouteAdd, Devices
        <5>3. CASE i \notin Devices(rs)
          BY <5>1, <5>3 DEF RouteAdd
        <5>4. QED
          BY <5>2, <5>3
      <4>3. QED
        BY <4>1, <4>2
    <3>5. QED
      BY <3>1, <3>2, <3>3, <3>4
  <2>3. CASE \E p \in Procs : RequestRouteDelete(p) \/ RequestRouteAdd(p)
    BY <1>3, <2>2, <2>3
  <2>4. CASE ~\E p \in Procs : RequestRouteDelete(p) \/ RequestRouteAdd(p)
    <3>1. routes' = routes
      BY <2>4, RouteWriters
    <3>2. CASE routes[n][ip] # <<>>
      BY <1>3, <3>1, <3>2
    <3>3. CASE routes[n][ip] = <<>>
      <4>1. PICK p \in Procs : pc[p] \in {"rtDelete", "rtAdd"} /\ loc[p].ip = ip
        BY <1>1, <1>3, <3>3 DEF RoutesMade
      <4>2. \A q \in Procs : ~ChildStep(q)
        <5>1. ~ChildStep(p)
          BY <2>4, <4>1 DEF ChildStep, Step, Fork, Boot, ReadConf, ClearSelect, ClearRoute,
             ClearDelete, OfferHeld, Scan, StoreDelete, StoreInsert, Find, ReadLease, Update,
             ReadOptions, Send, QueryFails, AnswerBreaks, ScanBreaks, NothingFails
        <5>2. QED
          BY <5>1
      <4>3. pc'[p] = pc[p] /\ loc'[p] = loc[p]
        BY <4>2 DEF ChildStep, Next, Environment, Tick, Reconfigure, Stop, Reboot, NothingFails,
           vars
      <4>4. QED
        BY <4>1, <4>3
    <3>4. QED
      BY <3>2, <3>3
  <2>5. QED
    BY <2>3, <2>4
<1>4. QED
  BY <1>2, <1>3

\* While children do not overlap, leases are static, clients stay behind their
\* interfaces and queries succeed, the route of a confirmed lease is there, it is the
\* only one of its address, and it is missing only while the lease is offered.  The
\* configuration rows may come and go and the daemon may stop and start.
THEOREM StaticLeasesRouted ==
    ASSUME OneList, \A p, q \in Procs : p = q, AllStatic, Seated, NothingFails
    PROVE  Spec => []StaticRouted
<1>1. Init => RouteInv
  <2> SUFFICES ASSUME Init
               PROVE  RouteInv
    OBVIOUS
  <2>1. Leased(leases) = {} /\ \A n \in Nas, ip \in Ips : routes[n][ip] = <<>>
    BY DEF Init, EmptyTable, Leased
  <2>2. \A p \in Procs : pc[p] = "idle" /\ loc[p].todo = {}
    BY DEF Init, NoLocals
  <2>3. QED
    BY <2>1, <2>2 DEF RouteInv, AllKnow, Knows, RowsSent, RoutesOwned, RoutesMade,
       Offering, Common, Granting
<1>2. StaticInv /\ [Next]_vars => AllKnow'
  <2> SUFFICES ASSUME StaticInv, [Next]_vars, NEW p \in Procs
               PROVE  Knows(leases', pc'[p], dg'[p], loc'[p])
    BY DEF AllKnow
  <2>1. CASE ChildStep(p)
    BY <2>1, KnowsChildStep
  <2>2. CASE Environment \/ UNCHANGED vars
    <3>1. leases' = leases /\ pc' = pc /\ dg' = dg /\ loc' = loc
      BY <2>2 DEF Environment, Tick, Reconfigure, Stop, Reboot, NothingFails, vars
    <3>2. QED
      BY <3>1 DEF StaticInv, RouteInv, AllKnow, Knows, Offering, Common, Granting
  <2>3. QED
    BY <2>1, <2>2 DEF Next, ChildStep
<1>3. StaticInv /\ [Next]_vars => RouteInv'
  BY <1>2, RowsSentStep, RoutesOwnedStep, RoutesMadeStep DEF RouteInv
<1>4. StaticInv => StaticRouted
  <2> SUFFICES ASSUME StaticInv, \A p \in Procs : pc[p] \notin {"rtDelete", "rtAdd"},
                      NEW ip \in Leased(leases), leases[ip].routed
               PROVE  routes[leases[ip].nas][ip] \in
                        {<<leases[ip].iface>>}
                        \cup (IF leases[ip].state = "offered" THEN {<<>>} ELSE {})
    BY DEF StaticRouted
  <2> DEFINE row == leases[ip]
             rs == routes[row.nas][ip]
  <2>1. ip \in Ips /\ row \in Row /\ RoutesOwned /\ RoutesMade /\ AllKnow
    BY DEF StaticInv, RouteInv, OneLeaseInv, IndInv, TypeOK, Leased, Table
  <2>2. row.nas \in Nas /\ row.state \in {"offered", "allocated"}
    BY <2>1 DEF Row
  <2>3. rs # <<>> => rs = <<row.iface>>
    <3>1. SUFFICES ASSUME rs # <<>> PROVE rs = <<row.iface>>
      OBVIOUS
    <3>2. PICK i \in Ifaces : rs = <<i>> /\ BelongsTo(ip, row.nas, i)
      BY <2>1, <2>2, <3>1 DEF RoutesOwned
    <3>3. \A p \in Procs : pc[p] = "storeInsert" => loc[p].ip # ip
      BY <2>1 DEF AllKnow, Knows
    <3>4. row.iface = i
      BY <3>2, <3>3 DEF BelongsTo
    <3>5. QED
      BY <3>2, <3>4
  <2>4. row.state = "allocated" => rs # <<>>
    BY <2>1 DEF RoutesMade
  <2>5. QED
    BY <2>2, <2>3, <2>4
<1>5. Init => OneLeaseInv({}) /\ Uncut
  BY OneLeaseStarts DEF Init, Uncut, NoLocals
<1>6. StaticInv /\ [Next]_vars => OneLeaseInv({})' /\ Uncut'
  <2> SUFFICES ASSUME StaticInv, [Next]_vars
               PROVE  OneLeaseInv({})' /\ Uncut'
    OBVIOUS
  <2>1. IndInv' /\ Uncut'
    BY NextKeeps, UncutStep DEF StaticInv, OneLeaseInv, NothingFails
  <2>2. Marked({}) /\ OneLeaseInv({})
    BY <2>1 DEF Marked, Uncut, StaticInv
  <2>3. AllSought({})'
    BY <2>2, SoughtStep DEF AllSought
  <2>4. OneRow({})'
    <3> DEFINE none == {}
    <3>1. none \subseteq none /\ OneLeaseInv(none)
      BY <2>2
    <3> HIDE DEF none
    <3>2. \A ip, q \in Leased(leases') :
            leases'[ip].iface = leases'[q].iface /\ leases'[ip].iface \notin none => ip = q
      BY <3>1, OneLeaseStep
    <3>3. QED
      BY <3>2 DEF OneRow, none
  <2>5. QED
    BY <2>1, <2>3, <2>4 DEF OneLeaseInv
<1>7. Init /\ [][Next]_vars => []StaticInv
  <2>1. StaticInv <=> OneLeaseInv({}) /\ SerialInv /\ Uncut /\ RouteInv
    BY DEF StaticInv
  <2>2. QED
    BY <1>1, <1>3, <1>5, <1>6, <2>1, SerialInvariance, PTL DEF Spec
<1>8. QED
  BY <1>4, <1>7, PTL DEF Spec
===============================================================================
