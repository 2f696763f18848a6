--------------------------- MODULE LeaseTableProofs ---------------------------
(* What the statements of LeaseTable and RouteTable return, for every table.   *)
EXTENDS LeaseTable, RouteTable, SequenceTheorems, NumberLemmas

-------------------------------------------------------------------------------
(* The statements keep a table a table                                         *)

LEMMA NoIpFree == NoIp \notin Ips
  BY IpsAssumption DEF NoIp

LEMMA ClearExpiredType ==
    ASSUME NEW T \in Table, NEW n, NEW t
    PROVE  /\ ClearExpired(T, n, t) \in Table
           /\ \A ip \in Ips : ClearExpired(T, n, t)[ip] \in {NoRow, T[ip]}
  BY DEF Table, ClearExpired

LEMMA ClearExpiredKeepsLive ==
    ASSUME NEW T \in Table, NEW n, NEW t, NEW ip \in Leased(T),
           ClearExpired(T, n, t)[ip] = NoRow
    PROVE  ~T[ip].static /\ T[ip].till < t
  BY DEF Table, ClearExpired, Expired, Leased

LEMMA DeleteIpType ==
    ASSUME NEW T \in Table, NEW ip
    PROVE  /\ DeleteIp(T, ip) \in Table
           /\ \A q \in Ips : DeleteIp(T, ip)[q] = IF q = ip THEN NoRow ELSE T[q]
  BY DEF Table, DeleteIp

\* update leases changes state, chaddr and offered_till of rows and nothing else.
LEMMA ConfirmType ==
    ASSUME NEW T \in Table, NEW i \in Ifaces, NEW m \in Macs, NEW till \in Int,
           NEW r \in Confirm(T, i, m, till)
    PROVE  /\ r.table \in Table
           /\ Leased(r.table) = Leased(T)
           /\ \A ip \in Leased(T) : r.table[ip].iface = T[ip].iface
<1> DEFINE mine == {ip \in Leased(T) : T[ip].iface = i}
<1>1. CASE r.table = T
  BY <1>1
<1>2. CASE \E ip \in mine : r.table = [T EXCEPT ![ip] = Allocated(@, m, till)]
  <2>1. PICK ip \in mine : r.table = [T EXCEPT ![ip] = Allocated(T[ip], m, till)]
    BY <1>2
  <2>2. ip \in Ips /\ T[ip] \in Row
    BY <2>1 DEF Leased, Table
  <2>3. Allocated(T[ip], m, till) \in Row /\ Allocated(T[ip], m, till).iface = T[ip].iface
    BY <2>2 DEF Allocated, Row
  <2>4. r.table \in Table
    BY <2>1, <2>3 DEF Table
  <2>5. \A q \in Ips : r.table[q] = IF q = ip THEN Allocated(T[ip], m, till) ELSE T[q]
    BY <2>1 DEF Table
  <2>6. QED
    BY <2>2, <2>3, <2>4, <2>5, NoRowAssumption DEF Leased
<1>3. r.table = T \/ \E ip \in mine : r.table = [T EXCEPT ![ip] = Allocated(@, m, till)]
  <2>1. CASE mine = {}
    <3>1. r = [table |-> T, ok |-> TRUE]
      BY <2>1 DEF Confirm
    <3>2. QED
      BY <3>1
  <2>2. CASE mine # {}
    <3>1. PICK ip \in mine :
            r = IF MacElsewhere(T, ip, m)
                THEN [table |-> T, ok |-> FALSE]
                ELSE [table |-> [T EXCEPT ![ip] = Allocated(@, m, till)],
                      ok    |-> mine = {ip}]
      BY <2>2 DEF Confirm
    <3>2. CASE MacElsewhere(T, ip, m)
      BY <3>1, <3>2
    <3>3. CASE ~MacElsewhere(T, ip, m)
      BY <3>1, <3>3
    <3>4. QED
      BY <3>2, <3>3
  <2>3. QED
    BY <2>1, <2>2
<1>4. QED
  BY <1>1, <1>2, <1>3

-------------------------------------------------------------------------------
(* The scan for a free address                                                 *)

LEMMA RunEndExists ==
    ASSUME NEW s \in Nat, NEW e \in Nat, NEW L, L \subseteq s..e, s \in L
    PROVE  /\ RunEnd(L, s) \in L
           /\ s <= RunEnd(L, s)
           /\ RunEnd(L, s) + 1 \notin L
<1> DEFINE H == {q \in Nat : s < q /\ q \notin L}
<1>1. e + 1 \in H
  OBVIOUS
<1>2. PICK q \in H : \A y \in H : q <= y
  BY <1>1, LeastNat
<1>3. q - 1 \in L /\ s <= q - 1 /\ s..(q - 1) \subseteq L /\ (q - 1) + 1 \notin L
  <2>1. q \in Nat /\ s < q /\ q \notin L
    OBVIOUS
  <2>2. \A y \in s..(q - 1) : y \in L
    <3>1. TAKE y \in s..(q - 1)
    <3>2. CASE y = s
      BY <3>2
    <3>3. CASE y # s
      <4>1. y \in Nat /\ s < y /\ ~(q <= y)
        BY <2>1, <3>3
      <4>2. QED
        BY <4>1, <1>2
    <3>4. QED
      BY <3>2, <3>3
  <2>3. q - 1 \in s..(q - 1)
    BY <2>1
  <2>4. QED
    BY <2>1, <2>2, <2>3
<1>4. \E p \in L : s <= p /\ s..p \subseteq L /\ p + 1 \notin L
  BY <1>3
<1>5. QED
  BY <1>4 DEF RunEnd

LEMMA LeastAboveExists ==
    ASSUME NEW L, L \subseteq Nat, NEW p \in Nat, \E q \in L : q > p
    PROVE  /\ LeastAbove(L, p) \in L
           /\ LeastAbove(L, p) > p
           /\ \A r \in L : r > p => LeastAbove(L, p) <= r
<1> DEFINE A == {q \in L : q > p}
<1>1. PICK q \in A : \A y \in A : q <= y
  BY LeastNat
<1>2. \E x \in L : x > p /\ \A r \in L : r > p => x <= r
  BY <1>1
<1>3. QED
  BY <1>2 DEF LeastAbove

\* What the scan makes of the rows it sees: an address of the list that is not
\* among them, or none.
LEMMA GapIsFree ==
    ASSUME NEW s \in Nat, NEW e \in Nat, NEW L, L \subseteq s..e
    PROVE  \/ FreeAddress(L, s, e) = NoIp
           \/ FreeAddress(L, s, e) \in (s..e) \ L
<1> DEFINE free == IF s \in L THEN FirstGap(L, s) ELSE s
<1>1. L \subseteq s..e /\ L \subseteq Nat
  OBVIOUS
<1>2. s <= free /\ free \notin L /\ free \in Nat
  <2>1. CASE s \notin L
    BY <2>1
  <2>2. CASE s \in L
    <3> DEFINE p == RunEnd(L, s)
    <3>1. p \in L /\ s <= p /\ p + 1 \notin L
      BY <1>1, <2>2, RunEndExists
    <3>2. p \in Nat
      BY <3>1, <1>1
    <3>3. CASE \E q \in L : q > p
      <4> DEFINE q == LeastAbove(L, p)
      <4>1. q \in L /\ q > p /\ \A r \in L : r > p => q <= r
        BY <1>1, <3>2, <3>3, LeastAboveExists
      <4>2. q \in Nat /\ q # p + 1
        BY <3>1, <4>1, <1>1
      <4>3. q - 1 \in Nat /\ q - 1 > p
        BY <4>1, <4>2, <3>2
      <4>4. q - 1 \notin L
        BY <4>1, <4>2, <4>3
      <4>5. free = q - 1
        BY <2>2, <3>3 DEF FirstGap
      <4>6. QED
        BY <4>3, <4>4, <4>5, <3>1, <3>2
    <3>4. CASE ~ \E q \in L : q > p
      <4>1. free = p + 1
        BY <2>2, <3>4 DEF FirstGap
      <4>2. QED
        BY <4>1, <3>1, <3>2
    <3>5. QED
      BY <3>3, <3>4
  <2>3. QED
    BY <2>1, <2>2
<1>3. FreeAddress(L, s, e) = IF free > e THEN NoIp ELSE free
  BY DEF FreeAddress
<1>4. QED
  BY <1>2, <1>3

\* dhcpv4_db_offer_dyn_ip returns an address of the list that has no row, or none.
THEOREM ScanFindsFree ==
    ASSUME NEW T \in Table, NEW s \in Nat, NEW e \in Nat
    PROVE  \/ DynIp(T, s, e) = NoIp
           \/ DynIp(T, s, e) \in (s..e) \ Leased(T)
<1> DEFINE L == Leased(T) \cap (s..e)
<1>1. L \subseteq s..e
  OBVIOUS
<1>2. DynIp(T, s, e) = FreeAddress(L, s, e)
  BY DEF DynIp
<1> HIDE DEF L
<1>3. FreeAddress(L, s, e) = NoIp \/ FreeAddress(L, s, e) \in (s..e) \ L
  BY <1>1, GapIsFree
<1>4. QED
  BY <1>2, <1>3 DEF L

\* When only the rows up to k are seen the address still lies in the list.
LEMMA CutScanInList ==
    ASSUME NEW s \in Nat, NEW e \in Nat, NEW k \in (s - 1)..e, NEW L
    PROVE  \/ FreeAddress(L \cap (s..k), s, e) = NoIp
           \/ FreeAddress(L \cap (s..k), s, e) \in s..e
<1> DEFINE seen == L \cap (s..k)
<1>1. seen \subseteq s..e
  OBVIOUS
<1> HIDE DEF seen
<1>2. FreeAddress(seen, s, e) = NoIp \/ FreeAddress(seen, s, e) \in s..e
  BY <1>1, GapIsFree
<1>3. QED
  BY <1>2 DEF seen

-------------------------------------------------------------------------------
(* Routes                                                                      *)

LEMMA RouteAddType ==
    ASSUME NEW S, NEW rs \in Seq(S), NEW dev \in S
    PROVE  /\ RouteAdd(rs, dev) \in Seq(S)
           /\ Devices(RouteAdd(rs, dev)) \subseteq Devices(rs) \cup {dev}
<1>1. <<dev>> \o rs \in Seq(S)
  OBVIOUS
<1>2. Devices(<<dev>> \o rs) \subseteq Devices(rs) \cup {dev}
  BY DEF Devices
<1>3. QED
  BY <1>1, <1>2 DEF RouteAdd

LEMMA RouteDeleteType ==
    ASSUME NEW S, NEW rs \in Seq(S)
    PROVE  /\ RouteDelete(rs) \in Seq(S)
           /\ Devices(RouteDelete(rs)) \subseteq Devices(rs)
  BY DEF RouteDelete, Devices
===============================================================================
