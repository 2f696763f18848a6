---------------------------- MODULE DbSessionProofs ----------------------------
(* What holds of a connection to the database while children do not overlap:   *)
(* statements and answers stay in step on every path, and the scan for a free  *)
(* address sees the rows it needs.                                             *)
(*                                                                             *)
(* The argument follows the packets still to be read, in the library's buffer  *)
(* and on the wire behind it: they are a stretch of the answer to the child's   *)
(* own call, in order and cut short at most at its end (Fits), and for the scan *)
(* they go through the addresses in use one by one (Enumerates).               *)
EXTENDS DbSession, LeaseTableProofs, FiniteSetTheorems, FunctionTheorems, TLAPS

-------------------------------------------------------------------------------
(* The inductive invariant                                                     *)

Final == {"ok", "err", "eof"}

\* The packets that can be the k-th one still to be read.
Kinds(ph, s, k) ==
    CASE ph = "pong" -> {"ok"}
      [] ph = "answer" /\ s \in Commands -> {"ok", "err"}
      [] ph = "answer" /\ s \notin Commands /\ k = 1 -> {"head", "err"}
      [] OTHER -> {"row", "eof", "err"}

\* P is a stretch of the answer to a call, from number nr on: nothing comes after
\* a packet that ends an answer.
Fits(P, call, nr, ph, s) ==
    \A k \in 1..Len(P) :
        /\ P[k].of = call
        /\ P[k].nr = nr + k - 1
        /\ P[k].kind \in Kinds(ph, s, k)
        /\ P[k].kind \in Final => k = Len(P)

\* b is the first element of L above a.
Successive(L, a, b) == b \in L /\ a < b /\ \A x \in L : a < x => b <= x

Before(P, a, k) == IF k = 1 THEN a ELSE P[k - 1].val

\* The rows of P are the elements of L above a, one after the other, and the end
\* comes when there are no more.
Enumerates(P, L, a) ==
    \A k \in 1..Len(P) :
        /\ P[k].kind = "row" => Successive(L, Before(P, a, k), P[k].val)
        /\ P[k].kind = "eof" => \A x \in L : x <= Before(P, a, k)
        /\ P[k].kind = "head" => P[k].val = 0

\* The loop has met no gap yet: it has read nothing or all of s..prev.
NoGapYet(k, L, s) ==
    /\ k.more
    /\ k.free = 0
    /\ k.prev # 0 => s <= k.prev /\ s..k.prev \subseteq L

\* The addresses in use of the list of p.
Used(p) == held \cap (loc[p].s..loc[p].e)

Unused(p) == FreeAddress(Used(p), loc[p].s, loc[p].e)

\* The packets that p has not read yet.
Upcoming(p) == lib[p].buf \o wire[lib[p].conn]

Quiet(p) ==
    /\ ~lib[p].unread
    /\ lib[p].buf = <<>>
    /\ \A c \in Conns : wire[c] = <<>>

Listening(p) ==
    /\ lib[p].conn \in Conns
    /\ lib[p].unread <=> phase[p] \in {"fetch", "free"}
    /\ \A c \in Conns \ {lib[p].conn} : wire[c] = <<>>
    /\ Fits(Upcoming(p), ThisCall(p), lib[p].nr, phase[p], pc[p])

InLine(p) == IF Awaits(p) THEN Listening(p) ELSE Quiet(p)

\* A connection found closed before anything was asked of it.
Repaired(p) ==
    lib[p].conn \in Conns \ open /\ ~loc[p].hit =>
        \/ phase[p] \in {"none", "ping"}
        \/ phase[p] = "pong" /\ lib[p].buf = <<>> /\ wire[lib[p].conn] = <<>>

Searching(p) ==
    pc[p] = "scan" =>
        /\ phase[p] = "answer" => Enumerates(Upcoming(p), Used(p), 0)
        /\ phase[p] = "fetch" => /\ Enumerates(Upcoming(p), Used(p), loc[p].scan.prev)
                                 /\ NoGapYet(loc[p].scan, Used(p), loc[p].s)
        /\ phase[p] = "free" => ScanResult(loc[p].scan, loc[p].s, loc[p].e) = Unused(p)

\* The statements after the scan; an address is chosen by no other.
AfterScan == Storing \cup {"ansTmpl", "ansOpts"}

Chose(p) ==
    loc[p].scanned => pc[p] \in AfterScan /\ loc[p].ip = Unused(p)

\* A child at work has a list.
Placed(p) ==
    /\ phase[p] = "none" <=> pc[p] = "idle"
    /\ pc[p] # "idle" =>
        loc[p].s \in Ips /\ loc[p].e \in Ips /\ loc[p].s..loc[p].e \subseteq Ips

ChildInv(p) ==
    InLine(p) /\ Repaired(p) /\ Searching(p) /\ Chose(p) /\ Placed(p)

SessionInv == TypeOK /\ \A p \in Procs : ChildInv(p)

-------------------------------------------------------------------------------
(* Stretches of an answer                                                      *)

\* Q is P without its first element.
OneFurther(Q, P) ==
    Len(P) > 0 /\ Len(Q) = Len(P) - 1 /\ \A k \in 1..Len(Q) : Q[k] = P[k + 1]

LEMMA ConcatElements ==
    ASSUME NEW S, NEW b \in Seq(S), NEW w \in Seq(S)
    PROVE  /\ b \o w \in Seq(S)
           /\ Len(b \o w) = Len(b) + Len(w)
           /\ Len(b) \in Nat /\ Len(w) \in Nat
           /\ b # <<>> => (b \o w)[1] = Head(b) /\ Len(b) > 0
  BY ConcatProperties, EmptySeq, LenProperties

LEMMA TailOfConcat ==
    ASSUME NEW S, NEW b \in Seq(S), NEW w \in Seq(S), b # <<>>
    PROVE  /\ Tail(b) \o w \in Seq(S)
           /\ Len(Tail(b) \o w) = Len(b \o w) - 1
           /\ \A k \in 1..Len(Tail(b) \o w) : (Tail(b) \o w)[k] = (b \o w)[k + 1]
<1> DEFINE t == Tail(b)
<1>1. t \in Seq(S) /\ Len(t) = Len(b) - 1 /\ \A k \in 1..Len(t) : t[k] = b[k + 1]
  BY HeadTailProperties
<1>2. Len(b) \in Nat /\ Len(w) \in Nat /\ Len(t) \in Nat
  BY <1>1, LenProperties
<1>3. /\ t \o w \in Seq(S) /\ Len(t \o w) = Len(t) + Len(w)
      /\ \A k \in 1..(Len(t) + Len(w)) :
            (t \o w)[k] = IF k <= Len(t) THEN t[k] ELSE w[k - Len(t)]
  BY <1>1, ConcatProperties
<1>4. /\ Len(b \o w) = Len(b) + Len(w)
      /\ \A k \in 1..(Len(b) + Len(w)) :
            (b \o w)[k] = IF k <= Len(b) THEN b[k] ELSE w[k - Len(b)]
  BY ConcatProperties
<1>5. ASSUME NEW k \in 1..Len(t \o w) PROVE (t \o w)[k] = (b \o w)[k + 1]
  <2>1. k \in Int /\ k + 1 \in 1..(Len(b) + Len(w)) /\ k \in 1..(Len(t) + Len(w))
    BY <1>1, <1>2, <1>3
  <2>2. CASE k <= Len(t)
    BY <1>1, <1>2, <1>3, <1>4, <2>1, <2>2
  <2>3. CASE ~(k <= Len(t))
    <3>1. k - Len(t) = (k + 1) - Len(b) /\ ~(k + 1 <= Len(b))
      BY <1>1, <1>2, <2>1, <2>3
    <3>2. QED
      BY <1>3, <1>4, <2>1, <2>3, <3>1
  <2>4. QED
    BY <2>2, <2>3
<1>6. QED
  BY <1>1, <1>2, <1>3, <1>4, <1>5

\* What the server had sent and did not get lost.
LEMMA ConcatOfPart ==
    ASSUME NEW S, NEW b \in Seq(S), NEW w \in Seq(S), NEW n \in Nat, n <= Len(w)
    PROVE  /\ SubSeq(w, 1, n) \in Seq(S)
           /\ b \o SubSeq(w, 1, n) \in Seq(S)
           /\ Len(b \o SubSeq(w, 1, n)) <= Len(b \o w)
           /\ \A k \in 1..Len(b \o SubSeq(w, 1, n)) : (b \o SubSeq(w, 1, n))[k] = (b \o w)[k]
<1> DEFINE v == SubSeq(w, 1, n)
<1>1. Len(b) \in Nat /\ Len(w) \in Nat /\ \A k \in 1..n : w[k] \in S
  BY LenProperties, ElementOfSeq
<1>2. v \in Seq(S) /\ Len(v) = n /\ \A k \in 1..n : v[k] = w[k]
  <2>1. /\ v \in Seq(S) /\ Len(v) = (IF 1 <= n THEN n - 1 + 1 ELSE 0)
        /\ \A k \in 1..(n - 1 + 1) : v[k] = w[1 + k - 1]
    BY <1>1, SubSeqProperties
  <2>2. n - 1 + 1 = n /\ \A k \in 1..n : 1 + k - 1 = k
    OBVIOUS
  <2>3. QED
    BY <2>1, <2>2
<1> HIDE DEF v
<1>3. /\ b \o v \in Seq(S) /\ Len(b \o v) = Len(b) + Len(v)
      /\ \A k \in 1..(Len(b) + Len(v)) :
            (b \o v)[k] = IF k <= Len(b) THEN b[k] ELSE v[k - Len(b)]
  BY <1>2, ConcatProperties
<1>4. /\ Len(b \o w) = Len(b) + Len(w)
      /\ \A k \in 1..(Len(b) + Len(w)) :
            (b \o w)[k] = IF k <= Len(b) THEN b[k] ELSE w[k - Len(b)]
  BY ConcatProperties
<1>5. ASSUME NEW k \in 1..Len(b \o v) PROVE (b \o v)[k] = (b \o w)[k]
  BY <1>1, <1>2, <1>3, <1>4
<1>6. QED
  BY <1>1, <1>2, <1>3, <1>4, <1>5 DEF v

LEMMA FitsPart ==
    ASSUME NEW S, NEW P \in Seq(S), NEW Q \in Seq(S), Len(Q) <= Len(P),
           \A k \in 1..Len(Q) : Q[k] = P[k]
    PROVE  /\ \A call, ph, s : \A nr \in Nat :
                Fits(P, call, nr, ph, s) => Fits(Q, call, nr, ph, s)
           /\ \A L, a : Enumerates(P, L, a) => Enumerates(Q, L, a)
<1>1. Len(P) \in Nat /\ Len(Q) \in Nat
  BY LenProperties
<1>2. ASSUME NEW call, NEW ph, NEW s, NEW nr \in Nat,
             Fits(P, call, nr, ph, s), NEW k \in 1..Len(Q)
      PROVE  /\ Q[k].of = call /\ Q[k].nr = nr + k - 1 /\ Q[k].kind \in Kinds(ph, s, k)
             /\ Q[k].kind \in Final => k = Len(Q)
  <2>1. k \in 1..Len(P) /\ Q[k] = P[k]
    BY <1>1
  <2>2. QED
    BY <1>1, <1>2, <2>1 DEF Fits
<1>3. ASSUME NEW L, NEW a, Enumerates(P, L, a), NEW k \in 1..Len(Q)
      PROVE  /\ Q[k].kind = "row" => Successive(L, Before(Q, a, k), Q[k].val)
             /\ Q[k].kind = "eof" => \A x \in L : x <= Before(Q, a, k)
             /\ Q[k].kind = "head" => Q[k].val = 0
  <2>1. k \in 1..Len(P) /\ Q[k] = P[k]
    BY <1>1
  <2>2. Before(Q, a, k) = Before(P, a, k)
    <3>1. k = 1 \/ k - 1 \in 1..Len(Q)
      BY <1>1
    <3>2. QED
      BY <3>1 DEF Before
  <2>3. QED
    BY <1>3, <2>1, <2>2 DEF Enumerates
<1>4. QED
  BY <1>2, <1>3 DEF Fits, Enumerates

\* One packet further.  The kinds to come are those of the phase entered.
LEMMA FitsTail ==
    ASSUME NEW S, NEW P \in Seq(S), NEW Q \in Seq(S), OneFurther(Q, P),
           NEW call, NEW nr \in Nat, NEW ph, NEW s, Fits(P, call, nr, ph, s)
    PROVE  /\ P[1].of = call /\ P[1].nr = nr /\ P[1].kind \in Kinds(ph, s, 1)
           /\ P[1].kind \in Final => Q = <<>>
           /\ \/ ph = "answer" /\ s \notin Commands
              \/ ph \in {"fetch", "free"}
              => Fits(Q, call, nr + 1, "fetch", s) /\ Fits(Q, call, nr + 1, "free", s)
           /\ \A L, a : Enumerates(P, L, a) => Enumerates(Q, L, P[1].val)
<1>1. /\ Len(P) \in Nat /\ Len(Q) \in Nat /\ 1 \in 1..Len(P)
      /\ Len(P) > 0 /\ Len(Q) = Len(P) - 1 /\ \A k \in 1..Len(Q) : Q[k] = P[k + 1]
  BY LenProperties DEF OneFurther
<1>2. P[1].of = call /\ P[1].nr = nr /\ P[1].kind \in Kinds(ph, s, 1)
  <2>1. nr + 1 - 1 = nr
    OBVIOUS
  <2>2. QED
    BY <1>1, <2>1 DEF Fits
<1>3. ASSUME P[1].kind \in Final PROVE Q = <<>>
  <2>1. 1 = Len(P)
    BY <1>1, <1>3 DEF Fits
  <2>2. QED
    BY <1>1, <2>1, EmptySeq
<1>4. ASSUME \/ ph = "answer" /\ s \notin Commands
             \/ ph \in {"fetch", "free"},
             NEW k \in 1..Len(Q), NEW next \in {"fetch", "free"}
      PROVE  /\ Q[k].of = call /\ Q[k].nr = nr + 1 + k - 1
             /\ Q[k].kind \in Kinds(next, s, k)
             /\ Q[k].kind \in Final => k = Len(Q)
  <2>1. k + 1 \in 1..Len(P) /\ Q[k] = P[k + 1] /\ k \in Nat /\ k + 1 # 1
    BY <1>1
  <2>2. /\ P[k + 1].of = call /\ P[k + 1].nr = nr + (k + 1) - 1
        /\ P[k + 1].kind \in Kinds(ph, s, k + 1)
        /\ P[k + 1].kind \in Final => k + 1 = Len(P)
    BY <2>1 DEF Fits
  <2>3. Kinds(ph, s, k + 1) = {"row", "eof", "err"} /\ Kinds(next, s, k) = {"row", "eof", "err"}
    BY <1>4, <2>1 DEF Kinds
  <2>4. nr + (k + 1) - 1 = nr + 1 + k - 1
    BY <2>1
  <2>5. QED
    BY <1>1, <2>1, <2>2, <2>3, <2>4
<1>5. ASSUME NEW L, NEW a, Enumerates(P, L, a), NEW k \in 1..Len(Q)
      PROVE  /\ Q[k].kind = "row" => Successive(L, Before(Q, P[1].val, k), Q[k].val)
             /\ Q[k].kind = "eof" => \A x \in L : x <= Before(Q, P[1].val, k)
             /\ Q[k].kind = "head" => Q[k].val = 0
  <2>1. k + 1 \in 1..Len(P) /\ Q[k] = P[k + 1] /\ k \in Nat /\ k + 1 # 1 /\ (k + 1) - 1 = k
    BY <1>1
  <2>2. Before(Q, P[1].val, k) = Before(P, a, k + 1)
    <3>1. CASE k = 1
      BY <2>1, <3>1 DEF Before
    <3>2. CASE k # 1
      <4>1. k - 1 \in 1..Len(Q) /\ (k - 1) + 1 = k
        BY <1>1, <3>2
      <4>2. QED
        BY <1>1, <2>1, <3>2, <4>1 DEF Before
    <3>3. QED
      BY <3>1, <3>2
  <2>3. QED
    BY <1>5, <2>1, <2>2 DEF Enumerates
<1>6. \A L, a : Enumerates(P, L, a) => Enumerates(Q, L, P[1].val)
  BY <1>5 DEF Enumerates
<1>7. QED
  BY <1>2, <1>3, <1>4, <1>6 DEF Fits

-------------------------------------------------------------------------------
(* The scan                                                                    *)

\* The run of addresses in use from s ends where the addresses stop.
LEMMA RunEndIs ==
    ASSUME NEW s \in Nat, NEW e \in Nat, NEW L, L \subseteq s..e, NEW q \in Nat,
           s <= q, s..q \subseteq L, q + 1 \notin L
    PROVE  s \in L /\ RunEnd(L, s) = q
<1>1. s \in L /\ q \in L
  OBVIOUS
<1> DEFINE r == RunEnd(L, s)
<1>2. r \in L /\ s <= r /\ s..r \subseteq L /\ r + 1 \notin L
  BY <1>1, RunEndExists DEF RunEnd
<1> HIDE DEF r
<1>3. r \in Nat
  BY <1>2
<1>4. ~(r < q)
  <2>1. SUFFICES ASSUME r < q PROVE FALSE
    OBVIOUS
  <2>2. r + 1 \in s..q
    BY <1>2, <1>3, <2>1
  <2>3. QED
    BY <1>2, <2>2
<1>5. ~(q < r)
  <2>1. SUFFICES ASSUME q < r PROVE FALSE
    OBVIOUS
  <2>2. q + 1 \in s..r
    BY <1>2, <1>3, <2>1
  <2>3. QED
    BY <1>2, <2>2
<1>6. QED
  BY <1>1, <1>3, <1>4, <1>5 DEF r

LEMMA LeastAboveIs ==
    ASSUME NEW L, L \subseteq Nat, NEW a \in Nat, NEW b, Successive(L, a, b)
    PROVE  LeastAbove(L, a) = b /\ \E q \in L : q > a
<1>1. b \in L /\ b > a /\ \A r \in L : r > a => b <= r
  BY DEF Successive
<1>2. /\ LeastAbove(L, a) \in L /\ LeastAbove(L, a) > a
      /\ \A r \in L : r > a => LeastAbove(L, a) <= r
  BY <1>1, LeastAboveExists
<1> DEFINE r == LeastAbove(L, a)
<1> HIDE DEF r
<1>3. r \in L /\ r > a /\ \A q \in L : q > a => r <= q
  BY <1>2 DEF r
<1>4. r <= b /\ b <= r /\ r \in Nat /\ b \in Nat
  BY <1>1, <1>3
<1>5. r = b
  BY <1>4
<1>6. QED
  BY <1>1, <1>5 DEF r

\* After the row b: no gap yet, or the one that FreeAddress describes.
GoneOn(k, L, s, e, b) ==
    /\ k \in Scanning
    /\ k.more => NoGapYet(k, L, s) /\ k.prev = b
    /\ ~k.more => ScanResult(k, s, e) = FreeAddress(L, s, e)

LEMMA ScanRowRight ==
    ASSUME NEW s \in Nat, NEW e \in Nat, s > 0, NEW L, L \subseteq s..e,
           NEW k \in Scanning, NoGapYet(k, L, s), NEW b, Successive(L, k.prev, b)
    PROVE  GoneOn(ScanRow(k, s, b), L, s, e, b)
<1>1. /\ k.prev \in Nat /\ k.free = 0 /\ k.more = TRUE
      /\ b \in L /\ b \in Nat /\ b >= s /\ b > k.prev /\ L \subseteq Nat
  BY DEF Scanning, NoGapYet, Successive
<1>2. CASE k.prev = 0 /\ b > s
  <2>1. ScanRow(k, s, b) = [k EXCEPT !.more = FALSE]
    BY <1>2 DEF ScanRow
  <2>2. s \notin L
    <3>1. SUFFICES ASSUME s \in L PROVE FALSE
      OBVIOUS
    <3>2. b <= s
      BY <1>2, <3>1 DEF Successive
    <3>3. QED
      BY <1>1, <1>2, <3>2
  <2>3. ScanResult([k EXCEPT !.more = FALSE], s, e) = IF s > e THEN NoIp ELSE s
    BY <1>1, <1>2 DEF ScanResult, Scanning
  <2>4. QED
    BY <1>1, <2>1, <2>2, <2>3 DEF FreeAddress, Scanning, GoneOn
<1>3. CASE k.prev = 0 /\ ~(b > s)
  <2>1. ScanRow(k, s, b) = [k EXCEPT !.prev = b] /\ b = s
    BY <1>1, <1>3 DEF ScanRow
  <2>2. s..b \subseteq L
    BY <1>1, <2>1
  <2>3. QED
    BY <1>1, <2>1, <2>2 DEF NoGapYet, Scanning, GoneOn
<1>4. CASE k.prev # 0 /\ b - k.prev = 1
  <2>1. ScanRow(k, s, b) = [k EXCEPT !.prev = b] /\ b = k.prev + 1
    BY <1>1, <1>4 DEF ScanRow
  <2>2. s..b \subseteq L
    <3>1. s..k.prev \subseteq L
      BY <1>4 DEF NoGapYet
    <3>2. ASSUME NEW x \in s..b PROVE x \in L
      BY <1>1, <2>1, <3>1
    <3>3. QED
      BY <3>2
  <2>3. QED
    BY <1>1, <2>1, <2>2 DEF NoGapYet, Scanning, GoneOn
<1>5. CASE k.prev # 0 /\ b - k.prev # 1
  <2>1. ScanRow(k, s, b) = [k EXCEPT !.free = b - 1, !.more = FALSE]
    BY <1>5 DEF ScanRow
  <2>2. s <= k.prev /\ s..k.prev \subseteq L
    BY <1>5 DEF NoGapYet
  <2>3. k.prev + 1 \notin L
    <3>1. SUFFICES ASSUME k.prev + 1 \in L PROVE FALSE
      OBVIOUS
    <3>2. b <= k.prev + 1
      BY <1>1, <3>1 DEF Successive
    <3>3. QED
      BY <1>1, <1>5, <3>2
  <2>4. s \in L /\ RunEnd(L, s) = k.prev
    BY <1>1, <2>2, <2>3, RunEndIs
  <2>5. LeastAbove(L, k.prev) = b /\ \E q \in L : q > k.prev
    BY <1>1, LeastAboveIs
  <2>6. FreeAddress(L, s, e) = IF b - 1 > e THEN NoIp ELSE b - 1
    BY <2>4, <2>5 DEF FreeAddress, FirstGap
  <2>7. b - 1 \in Nat /\ b - 1 # 0
    BY <1>1, <1>5
  <2>8. ScanResult([k EXCEPT !.free = b - 1, !.more = FALSE], s, e)
            = IF b - 1 > e THEN NoIp ELSE b - 1
    BY <1>5, <2>7 DEF ScanResult, Scanning
  <2>9. QED
    BY <1>1, <2>1, <2>6, <2>7, <2>8 DEF Scanning, GoneOn
<1>6. QED
  BY <1>2, <1>3, <1>4, <1>5

\* The loop has come to the end of the rows.
LEMMA ScanEndRight ==
    ASSUME NEW s \in Nat, NEW e \in Nat, s > 0, NEW L, L \subseteq s..e,
           NEW k \in Scanning, NoGapYet(k, L, s), \A x \in L : x <= k.prev
    PROVE  ScanResult(k, s, e) = FreeAddress(L, s, e)
<1>1. k.prev \in Nat /\ k.free = 0
  BY DEF Scanning, NoGapYet
<1>2. CASE k.prev = 0
  <2>1. s \notin L
    BY <1>2
  <2>2. QED
    BY <1>2, <2>1 DEF ScanResult, FreeAddress
<1>3. CASE k.prev # 0
  <2>1. s <= k.prev /\ s..k.prev \subseteq L
    BY <1>3 DEF NoGapYet
  <2>2. k.prev + 1 \notin L /\ ~\E q \in L : q > k.prev
    BY <1>1
  <2>3. s \in L /\ RunEnd(L, s) = k.prev
    BY <1>1, <2>1, <2>2, RunEndIs
  <2>4. FreeAddress(L, s, e) = IF k.prev + 1 > e THEN NoIp ELSE k.prev + 1
    BY <2>2, <2>3 DEF FreeAddress, FirstGap
  <2>5. ScanResult(k, s, e) = IF k.prev + 1 > e THEN NoIp ELSE k.prev + 1
    BY <1>1, <1>3 DEF ScanResult
  <2>6. QED
    BY <2>4, <2>5
<1>4. QED
  BY <1>2, <1>3

\* Broken off before a gap, the scan names an address of the list or none.
LEMMA ScanBrokenOff ==
    ASSUME NEW s \in Ips, NEW e \in Ips, s..e \subseteq Ips, NEW L, L \subseteq s..e,
           NEW k \in Scanning, NoGapYet(k, L, s)
    PROVE  ScanResult(k, s, e) \in Ips \cup {NoIp}
<1>1. k.prev \in Nat /\ k.free = 0 /\ s \in Nat /\ e \in Nat /\ s > 0
  BY IpsAssumption DEF Scanning, NoGapYet, NoIp
<1>2. CASE k.prev = 0
  BY <1>1, <1>2 DEF ScanResult
<1>3. CASE k.prev # 0
  <2>1. ScanResult(k, s, e) = IF k.prev + 1 > e THEN NoIp ELSE k.prev + 1
    BY <1>1, <1>3 DEF ScanResult
  <2>2. s <= k.prev
    BY <1>3 DEF NoGapYet
  <2>3. ~(k.prev + 1 > e) => k.prev + 1 \in s..e
    BY <1>1, <2>2
  <2>4. QED
    BY <2>1, <2>3
<1>4. QED
  BY <1>2, <1>3

LEMMA FreeAddressType ==
    ASSUME NEW s \in Ips, NEW e \in Ips, s..e \subseteq Ips, NEW L, L \subseteq s..e
    PROVE  FreeAddress(L, s, e) \in Ips \cup {NoIp}
<1>1. s \in Nat /\ e \in Nat /\ s > 0 /\ L \subseteq Nat
  BY IpsAssumption DEF NoIp
<1>2. CASE s \notin L
  BY <1>2 DEF FreeAddress
<1>3. CASE s \in L
  <2> DEFINE r == RunEnd(L, s)
             free == FirstGap(L, s)
  <2>1. r \in L /\ s <= r /\ r + 1 \notin L /\ r \in Nat
    BY <1>1, <1>3, RunEndExists
  <2>2. free \in Nat /\ s <= free
    <3>1. CASE \E q \in L : q > r
      <4>1. LeastAbove(L, r) \in L /\ LeastAbove(L, r) > r
        BY <1>1, <2>1, <3>1, LeastAboveExists
      <4>2. free = LeastAbove(L, r) - 1
        BY <3>1 DEF FirstGap
      <4>3. QED
        <5> DEFINE a == LeastAbove(L, r)
        <5> HIDE DEF a, r
        <5>1. a \in Nat /\ a > r /\ free = a - 1
          BY <1>1, <4>1, <4>2 DEF a
        <5>2. QED
          BY <1>1, <2>1, <5>1
    <3>2. CASE ~\E q \in L : q > r
      BY <1>1, <2>1, <3>2 DEF FirstGap
    <3>3. QED
      BY <3>1, <3>2
  <2>3. FreeAddress(L, s, e) = IF free > e THEN NoIp ELSE free
    BY <1>3 DEF FreeAddress
  <2> HIDE DEF free
  <2>4. ~(free > e) => free \in s..e
    BY <1>1, <2>2
  <2>5. QED
    BY <2>3, <2>4
<1>4. QED
  BY <1>2, <1>3

-------------------------------------------------------------------------------
(* The server's answers                                                        *)

\* Reading the addresses of a finite set in ascending order leaves none out.
LEMMA AscendingGoesThrough ==
    ASSUME NEW L, IsFiniteSet(L), L \subseteq Nat \ {0}, NEW rows \in Ascending(L)
    PROVE  /\ Cardinality(L) \in Nat
           /\ rows \in [1..Cardinality(L) -> L]
           /\ \A k \in 1..Cardinality(L) :
                Successive(L, IF k = 1 THEN 0 ELSE rows[k - 1], rows[k])
           /\ \A x \in L :
                x <= IF Cardinality(L) = 0 THEN 0 ELSE rows[Cardinality(L)]
<1> DEFINE n == Cardinality(L)
<1>1. n \in Nat
  BY FS_CardinalityType
<1>2. /\ rows \in [1..n -> L]
      /\ \A j, k \in 1..n : j < k => rows[j] < rows[k]
  BY DEF Ascending
<1>3. IsFiniteSet(1..n) /\ Cardinality(1..n) = n
  BY <1>1, FS_Interval
<1> HIDE DEF n
<1>4. ASSUME NEW k \in 1..n PROVE rows[k] \in L /\ rows[k] \in Nat /\ rows[k] > 0
  <2>1. rows[k] \in L
    BY <1>2
  <2>2. rows[k] \in Nat \ {0}
    BY <2>1
  <2>3. QED
    BY <2>1, <2>2
<1>5. rows \in Injection(1..n, L)
  <2>1. ASSUME NEW j \in 1..n, NEW k \in 1..n, rows[j] = rows[k] PROVE j = k
    BY <1>1, <1>2, <1>4, <2>1
  <2>2. QED
    BY <1>2, <2>1, Fun_IsInj
<1>6. rows \in Surjection(1..n, L)
  BY <1>3, <1>5, FS_Injection DEF n
<1>7. \A x \in L : \E j \in 1..n : rows[j] = x
  BY <1>6 DEF Surjection
<1>8. ASSUME NEW k \in 1..n
      PROVE Successive(L, IF k = 1 THEN 0 ELSE rows[k - 1], rows[k])
  <2> DEFINE a == IF k = 1 THEN 0 ELSE rows[k - 1]
  <2>1. a < rows[k]
    <3>1. CASE k = 1
      BY <1>4, <3>1
    <3>2. CASE k # 1
      <4>1. k - 1 \in 1..n /\ k - 1 < k
        BY <1>1, <3>2
      <4>2. QED
        BY <1>2, <3>2, <4>1
    <3>3. QED
      BY <3>1, <3>2
  <2>2. ASSUME NEW x \in L, a < x PROVE rows[k] <= x
    <3>1. PICK j \in 1..n : rows[j] = x
      BY <1>7
    <3>2. k <= j
      <4>1. CASE k = 1
        BY <1>1, <4>1
      <4>2. CASE k # 1
        <5>1. k - 1 \in 1..n /\ rows[k - 1] < rows[j] /\ rows[k - 1] \in Nat
          BY <1>1, <1>4, <2>2, <3>1, <4>2
        <5>2. j # k - 1 /\ ~(j < k - 1)
          BY <1>2, <1>4, <5>1
        <5>3. QED
          BY <1>1, <5>1, <5>2
      <4>3. QED
        BY <4>1, <4>2
    <3>3. CASE k = j
      BY <1>4, <3>1, <3>3
    <3>4. CASE k # j
      <4>1. k < j
        BY <3>2, <3>4
      <4>2. QED
        BY <1>2, <1>4, <3>1, <4>1
    <3>5. QED
      BY <3>3, <3>4
  <2>3. QED
    BY <1>4, <2>1, <2>2 DEF Successive
<1>9. ASSUME NEW x \in L PROVE n # 0 /\ x <= rows[n]
  <2>1. PICK j \in 1..n : rows[j] = x
    BY <1>7
  <2>2. n \in 1..n /\ (j = n \/ j < n)
    BY <1>1
  <2>3. QED
    BY <1>2, <1>4, <2>1, <2>2
<1>10. QED
  BY <1>1, <1>2, <1>8, <1>9 DEF n

ResultOf(rows, end) ==
    <<Plain("head")>> \o [k \in DOMAIN rows |-> <<"row", rows[k]>>] \o <<Plain(end)>>

LEMMA ResultShape ==
    ASSUME NEW n \in Nat, NEW rows \in [1..n -> Nat], NEW end \in {"eof", "err"}
    PROVE  /\ DOMAIN ResultOf(rows, end) = 1..(n + 2)
           /\ ResultOf(rows, end)[1] = <<"head", 0>>
           /\ \A k \in 1..n : ResultOf(rows, end)[k + 1] = <<"row", rows[k]>>
           /\ ResultOf(rows, end)[n + 2] = <<end, 0>>
<1> DEFINE S == {"head", "row", "eof", "err"} \X Nat
           middle == [k \in 1..n |-> <<"row", rows[k]>>]
           front == <<Plain("head")>> \o middle
           last == <<Plain(end)>>
           answer == ResultOf(rows, end)
<1>1. middle \in Seq(S) /\ Len(middle) = n
  <2>1. middle \in [1..n -> S]
    OBVIOUS
  <2>2. QED
    BY <2>1
<1>2. /\ <<Plain("head")>> \in Seq(S) /\ last \in Seq(S)
      /\ Len(<<Plain("head")>>) = 1 /\ Len(last) = 1
      /\ last[1] = <<end, 0>>
  BY DEF Plain
<1>3. DOMAIN rows = 1..n
  OBVIOUS
<1>4. answer = front \o last
  BY <1>3 DEF ResultOf
<1>5. \A k \in 1..n : middle[k] = <<"row", rows[k]>>
  OBVIOUS
<1> HIDE DEF middle, S
<1>6. /\ front \in Seq(S) /\ Len(front) = 1 + n
      /\ \A k \in 1..(1 + n) : front[k] = IF k <= 1 THEN <<Plain("head")>>[k] ELSE middle[k - 1]
  BY <1>1, <1>2, ConcatProperties
<1> HIDE DEF front, last, answer
<1>7. /\ answer \in Seq(S) /\ Len(answer) = (1 + n) + 1
      /\ \A k \in 1..((1 + n) + 1) :
            answer[k] = IF k <= 1 + n THEN front[k] ELSE last[k - (1 + n)]
  <2>1. /\ front \o last \in Seq(S) /\ Len(front \o last) = Len(front) + Len(last)
        /\ \A k \in 1..(Len(front) + Len(last)) :
            (front \o last)[k] = IF k <= Len(front) THEN front[k] ELSE last[k - Len(front)]
    <3>1. front \in Seq(S) /\ last \in Seq(S)
      BY <1>2, <1>6
    <3>2. QED
      BY ONLY <3>1, ConcatProperties
  <2>2. QED
    BY <1>2, <1>4, <1>6, <2>1
<1>8. DOMAIN answer = 1..(n + 2)
  <2>1. (1 + n) + 1 = n + 2
    OBVIOUS
  <2>2. QED
    BY <1>7, <2>1, LenProperties
<1>9. answer[1] = <<"head", 0>>
  BY <1>6, <1>7 DEF Plain
<1>10. ASSUME NEW k \in 1..n PROVE answer[k + 1] = <<"row", rows[k]>>
  <2>1. k + 1 \in 1..((1 + n) + 1) /\ k + 1 \in 1..(1 + n) /\ ~(k + 1 <= 1) /\ (k + 1) - 1 = k
    OBVIOUS
  <2>2. answer[k + 1] = front[k + 1]
    BY <1>7, <2>1
  <2>3. front[k + 1] = middle[k]
    BY <1>6, <2>1
  <2>4. QED
    BY <1>5, <2>2, <2>3
<1>11. answer[n + 2] = <<end, 0>>
  <2>1. n + 2 \in 1..((1 + n) + 1) /\ ~(n + 2 <= 1 + n) /\ (n + 2) - (1 + n) = 1
    OBVIOUS
  <2>2. QED
    BY <1>2, <1>7, <2>1
<1>12. QED
  BY <1>8, <1>9, <1>10, <1>11 DEF answer

LEMMA SingleFits ==
    ASSUME NEW kind \in {"ok", "err"}, NEW call \in Procs \X Statements \X {"ping", "query"},
           NEW ph, NEW s, kind \in Kinds(ph, s, 1), NEW L
    PROVE  /\ Numbered(<<Plain(kind)>>, call) \in Seq(Packet)
           /\ Fits(Numbered(<<Plain(kind)>>, call), call, 1, ph, s)
           /\ Enumerates(Numbered(<<Plain(kind)>>, call), L, 0)
<1> DEFINE N == Numbered(<<Plain(kind)>>, call)
           packet == [kind |-> kind, nr |-> 1, of |-> call, val |-> 0]
<1>1. packet \in Packet
  BY DEF Packet
<1>2. N = [k \in 1..1 |-> packet]
  <2>1. DOMAIN <<Plain(kind)>> = 1..1 /\ \A k \in 1..1 : k = 1
    OBVIOUS
  <2>2. <<Plain(kind)>>[1] = <<kind, 0>>
    BY DEF Plain
  <2>3. QED
    BY <2>1, <2>2 DEF Numbered
<1>3. N \in Seq(Packet) /\ Len(N) = 1 /\ N[1] = packet
  <2>1. N \in [1..1 -> Packet] /\ N[1] = packet
    BY <1>1, <1>2
  <2> HIDE DEF N, packet
  <2>2. QED
    BY <2>1
<1> HIDE DEF N
<1>4. \A k \in 1..Len(N) : k = 1 /\ N[k] = packet
  BY <1>3
<1>5. Fits(N, call, 1, ph, s)
  BY <1>3, <1>4 DEF Fits
<1>6. Enumerates(N, L, 0)
  BY <1>3, <1>4 DEF Enumerates
<1>7. QED
  BY <1>3, <1>5, <1>6 DEF N

LEMMA ResultFits ==
    ASSUME NEW n \in Nat, NEW rows \in [1..n -> Nat], NEW end \in {"eof", "err"},
           NEW call \in Procs \X Statements \X {"ping", "query"},
           NEW s, s \notin Commands, NEW L
    PROVE  /\ Numbered(ResultOf(rows, end), call) \in Seq(Packet)
           /\ Fits(Numbered(ResultOf(rows, end), call), call, 1, "answer", s)
           /\ /\ \A k \in 1..n : Successive(L, IF k = 1 THEN 0 ELSE rows[k - 1], rows[k])
              /\ \A x \in L : x <= IF n = 0 THEN 0 ELSE rows[n]
              => Enumerates(Numbered(ResultOf(rows, end), call), L, 0)
<1> DEFINE answer == ResultOf(rows, end)
           N == Numbered(answer, call)
           m == n + 2
<1>1. /\ DOMAIN answer = 1..m
      /\ answer[1] = <<"head", 0>>
      /\ \A k \in 1..n : answer[k + 1] = <<"row", rows[k]>>
      /\ answer[m] = <<end, 0>>
  BY ResultShape
<1> HIDE DEF answer
<1>2. m \in Nat /\ m >= 2
  OBVIOUS
<1>3. ASSUME NEW k \in 1..m PROVE k = 1 \/ k = m \/ (k - 1 \in 1..n /\ (k - 1) + 1 = k)
  OBVIOUS
<1>4. \A k \in 1..m : N[k] = [kind |-> answer[k][1], nr |-> k, of |-> call, val |-> answer[k][2]]
  BY <1>1 DEF Numbered
<1>5. /\ N[1] = [kind |-> "head", nr |-> 1, of |-> call, val |-> 0]
      /\ N[m] = [kind |-> end, nr |-> m, of |-> call, val |-> 0]
  <2>1. 1 \in 1..m /\ m \in 1..m
    BY <1>2
  <2>2. answer[1][1] = "head" /\ answer[1][2] = 0 /\ answer[m][1] = end /\ answer[m][2] = 0
    BY <1>1
  <2>3. QED
    BY <1>4, <2>1, <2>2
<1>6. ASSUME NEW k \in 1..n
      PROVE  N[k + 1] = [kind |-> "row", nr |-> k + 1, of |-> call, val |-> rows[k]]
  <2>1. k + 1 \in 1..m
    OBVIOUS
  <2>2. answer[k + 1] = <<"row", rows[k]>>
    BY <1>1
  <2>3. answer[k + 1][1] = "row" /\ answer[k + 1][2] = rows[k]
    BY <2>2
  <2>4. QED
    BY <1>4, <2>1, <2>3
<1>7. N = [k \in 1..m |-> N[k]]
  BY <1>1 DEF Numbered
<1>8. ASSUME NEW k \in 1..m
      PROVE  /\ N[k] \in Packet /\ N[k].of = call /\ N[k].nr = k
             /\ N[k].kind \in Kinds("answer", s, k)
             /\ N[k].kind \in Final => k = m
             /\ N[k].kind = "head" => k = 1
             /\ N[k].kind = "eof" => k = m
             /\ N[k].kind = "row" => k - 1 \in 1..n /\ N[k].val = rows[k - 1]
  <2>1. CASE k = 1
    BY <1>2, <1>5, <2>1 DEF Packet, Kinds, Final
  <2>2. CASE k = m
    <3>1. m # 1
      BY <1>2
    <3>2. QED
      BY <1>2, <1>5, <2>2, <3>1 DEF Packet, Kinds, Final
  <2>3. CASE k - 1 \in 1..n /\ (k - 1) + 1 = k
    <3>1. N[k] = [kind |-> "row", nr |-> k, of |-> call, val |-> rows[k - 1]] /\ k # 1
      <4> DEFINE j == k - 1
      <4>1. j \in 1..n /\ j + 1 = k /\ k # 1
        BY <2>3
      <4> HIDE DEF j
      <4>2. N[j + 1] = [kind |-> "row", nr |-> j + 1, of |-> call, val |-> rows[j]]
        BY <1>6, <4>1
      <4>3. QED
        BY <4>1, <4>2 DEF j
    <3>2. rows[k - 1] \in Nat
      BY <2>3
    <3>3. QED
      BY <2>3, <3>1, <3>2 DEF Packet, Kinds, Final
  <2>4. QED
    BY <1>3, <2>1, <2>2, <2>3
<1> HIDE DEF N, m
<1>9. N \in Seq(Packet) /\ Len(N) = m
  <2>1. N \in [1..m -> Packet]
    BY <1>7, <1>8
  <2>2. QED
    BY <1>2, <2>1
<1>10. Fits(N, call, 1, "answer", s)
  BY <1>8, <1>9 DEF Fits
<1>11. ASSUME \A k \in 1..n : Successive(L, IF k = 1 THEN 0 ELSE rows[k - 1], rows[k]),
              \A x \in L : x <= IF n = 0 THEN 0 ELSE rows[n],
              NEW k \in 1..Len(N)
       PROVE  /\ N[k].kind = "row" => Successive(L, Before(N, 0, k), N[k].val)
              /\ N[k].kind = "eof" => \A x \in L : x <= Before(N, 0, k)
              /\ N[k].kind = "head" => N[k].val = 0
  <2>1. k \in 1..m
    BY <1>9
  <2>2. ASSUME N[k].kind = "row"
        PROVE  Before(N, 0, k) = IF k - 1 = 1 THEN 0 ELSE rows[(k - 1) - 1]
    <3>1. k - 1 \in 1..n
      BY <1>8, <2>1, <2>2
    <3>2. CASE k - 1 = 1
      BY <1>5, <2>1, <3>2 DEF Before
    <3>3. CASE k - 1 # 1
      <4>1. (k - 1) - 1 \in 1..n /\ ((k - 1) - 1) + 1 = k - 1 /\ k # 1
        BY <3>1, <3>3
      <4>2. N[k - 1].val = rows[(k - 1) - 1]
        <5> DEFINE j == (k - 1) - 1
        <5>1. j \in 1..n /\ j + 1 = k - 1
          BY <4>1
        <5> HIDE DEF j
        <5>2. N[j + 1] = [kind |-> "row", nr |-> j + 1, of |-> call, val |-> rows[j]]
          BY <1>6, <5>1
        <5>3. QED
          BY <5>1, <5>2 DEF j
      <4>3. QED
        BY <3>3, <4>1, <4>2 DEF Before
    <3>4. QED
      BY <3>2, <3>3
  <2>3. ASSUME N[k].kind = "eof" PROVE Before(N, 0, k) = IF n = 0 THEN 0 ELSE rows[n]
    <3>1. k = m /\ k # 1 /\ k - 1 = n + 1
      BY <1>2, <1>8, <2>1, <2>3 DEF m
    <3>2. CASE n = 0
      BY <1>5, <3>1, <3>2 DEF Before
    <3>3. CASE n # 0
      <4>1. n \in 1..n
        BY <3>3
      <4>2. N[n + 1] = [kind |-> "row", nr |-> n + 1, of |-> call, val |-> rows[n]]
        BY <1>6, <4>1
      <4>3. QED
        BY <3>1, <3>3, <4>2 DEF Before
    <3>4. QED
      BY <3>2, <3>3
  <2>4. QED
    BY <1>5, <1>8, <1>11, <2>1, <2>2, <2>3
<1>12. QED
  BY <1>9, <1>10, <1>11 DEF N, answer, Enumerates

\* Whatever the server answers to a call fits it; the rows of the scan are the
\* addresses in use.
LEMMA AnswersFit ==
    ASSUME TypeOK, NEW p \in Procs, phase[p] \in {"ping", "query"}, pc[p] \in Statements,
           NEW answer \in Answers(p), NEW call, call = <<p, pc[p], phase[p]>>
    PROVE  /\ Numbered(answer, call) \in Seq(Packet)
           /\ Fits(Numbered(answer, call), call, 1, Waiting[phase[p]], pc[p])
           /\ pc[p] = "scan" /\ phase[p] = "query" =>
                Enumerates(Numbered(answer, call), Used(p), 0)
<1>1. call \in Procs \X Statements \X {"ping", "query"}
  OBVIOUS
<1>2. CASE phase[p] = "ping"
  <2>1. answer = <<Plain("ok")>> /\ Waiting[phase[p]] = "pong"
    BY <1>2 DEF Answers, Waiting
  <2>2. "ok" \in Kinds("pong", pc[p], 1)
    BY DEF Kinds
  <2>3. QED
    BY <1>1, <1>2, <2>1, <2>2, SingleFits
<1>3. CASE phase[p] = "query"
  <2>1. Waiting[phase[p]] = "answer"
    BY <1>3 DEF Waiting
  <2>2. \/ answer = <<Plain("err")>>
        \/ pc[p] \in Commands /\ answer = <<Plain("ok")>>
        \/ pc[p] \notin Commands /\ answer \in Results(p)
    BY <1>3 DEF Answers
  <2>3. CASE answer = <<Plain("err")>>
    <3>1. "err" \in Kinds("answer", pc[p], 1)
      BY DEF Kinds
    <3>2. QED
      BY <1>1, <2>1, <2>3, <3>1, SingleFits
  <2>4. CASE pc[p] \in Commands /\ answer = <<Plain("ok")>>
    <3>1. "ok" \in Kinds("answer", pc[p], 1)
      BY <2>4 DEF Kinds
    <3>2. QED
      BY <1>1, <2>1, <2>4, <3>1, SingleFits
  <2>5. CASE pc[p] \notin Commands /\ answer \in Results(p)
    <3>1. PICK rows \in RowSets(p), end \in {"eof", "err"} : answer = ResultOf(rows, end)
      <4> DEFINE ends == {"eof"} \cup (IF "db" \in Faults THEN {"err"} ELSE {})
      <4>1. Results(p) = {ResultOf(rows, end) : rows \in RowSets(p), end \in ends}
        BY DEF Results, ResultOf
      <4>2. ends \subseteq {"eof", "err"}
        OBVIOUS
      <4> HIDE DEF ends
      <4>3. \E rows \in RowSets(p), end \in ends : answer = ResultOf(rows, end)
        BY <2>5, <4>1
      <4>4. QED
        BY <4>2, <4>3
    <3>2. CASE pc[p] = "scan"
      <4>1. rows \in Ascending(Used(p))
        BY <3>1, <3>2 DEF RowSets, Used
      <4>2. IsFiniteSet(Used(p)) /\ Used(p) \subseteq Nat \ {0}
        <5>1. Used(p) \subseteq Ips
          BY DEF TypeOK, Used
        <5>2. QED
          BY <5>1, BoundsAssumption, IpsAssumption, FS_Subset DEF NoIp
      <4> DEFINE n == Cardinality(Used(p))
                 L == Used(p)
      <4>3. /\ n \in Nat
            /\ rows \in [1..n -> L]
            /\ \A k \in 1..n : Successive(L, IF k = 1 THEN 0 ELSE rows[k - 1], rows[k])
            /\ \A x \in L : x <= IF n = 0 THEN 0 ELSE rows[n]
        BY <4>1, <4>2, AscendingGoesThrough
      <4>4. L \subseteq Nat
        BY <4>2
      <4> HIDE DEF n, L
      <4>5. rows \in [1..n -> Nat]
        BY <4>3, <4>4
      <4>6. /\ Numbered(answer, call) \in Seq(Packet)
            /\ Fits(Numbered(answer, call), call, 1, "answer", pc[p])
            /\ Enumerates(Numbered(answer, call), L, 0)
        BY <1>1, <2>5, <3>1, <4>3, <4>5, ResultFits
      <4>7. QED
        BY <2>1, <4>6 DEF L
    <3>3. CASE pc[p] # "scan"
      <4>1. \E n \in Nat : rows \in [1..n -> Nat]
        <5>1. rows \in {<<>>, <<0>>} \/ \E n \in 0..MaxRows : rows = [k \in 1..n |-> 0]
          BY <3>1, <3>3 DEF RowSets
        <5>2. CASE rows = <<>>
          BY <5>2
        <5>3. CASE rows = <<0>>
          <6>1. rows \in [1..1 -> Nat]
            BY <5>3
          <6>2. QED
            BY <6>1
        <5>4. CASE \E n \in 0..MaxRows : rows = [k \in 1..n |-> 0]
          BY <5>4, BoundsAssumption
        <5>5. QED
          BY <5>1, <5>2, <5>3, <5>4
      <4>2. PICK n \in Nat : rows \in [1..n -> Nat]
        BY <4>1
      <4>3. /\ Numbered(answer, call) \in Seq(Packet)
            /\ Fits(Numbered(answer, call), call, 1, "answer", pc[p])
        BY <1>1, <2>5, <3>1, <4>2, ResultFits
      <4>4. QED
        BY <2>1, <3>3, <4>3
    <3>4. QED
      BY <3>2, <3>3
  <2>6. QED
    BY <2>2, <2>3, <2>4, <2>5
<1>4. QED
  BY <1>2, <1>3

-------------------------------------------------------------------------------
(* Steps                                                                       *)

LEMMA FollowsType ==
    ASSUME NEW type, NEW s \in Statements, NEW o
    PROVE  /\ Follows(type, s, o) \in Statements \cup {"idle"}
           /\ s \in AfterScan \cup {"scan"} => Follows(type, s, o) \in AfterScan \cup {"idle"}
  BY DEF Follows, StoreFollows, Statements, Commands, Singles, Loops, AfterScan, Storing

LEMMA StatementFacts ==
    /\ "scan" \in Statements /\ "idle" \notin Statements
    /\ \A s : FirstPhase(s) \in {"ping", "query"}
    /\ "scan" \notin AfterScan
  BY DEF Statements, Commands, Singles, Loops, AfterScan, Storing, FirstPhase

LEMMA NewTypes == NewHandle \in Handle /\ NoLocals \in Locals
  BY DEF NewHandle, Handle, Conns, NoLocals, Locals, ScanStart, Scanning

\* On to the next statement, or to the end, with everything read.
LEMMA AfterAdvance ==
    ASSUME SessionInv, NEW p \in Procs, Procs = {p}, pc[p] \in Statements,
           NEW o, NEW h \in Handle, NEW l \in Locals, Advance(p, o, h, l),
           UNCHANGED <<held, losses, wire>>,
           ~h.unread, h.buf = <<>>, \A c \in Conns : wire[c] = <<>>,
           h.conn \in Conns \ open => l.hit,
           l.s = loc[p].s, l.e = loc[p].e,
           l.scanned => pc[p] \in AfterScan \cup {"scan"} /\ l.ip = Unused(p)
    PROVE  SessionInv'
<1> DEFINE next == Follows(loc[p].type, pc[p], o)
<1>1. /\ next \in Statements \cup {"idle"}
      /\ pc[p] \in AfterScan \cup {"scan"} => next \in AfterScan \cup {"idle"}
      /\ FirstPhase(next) \in {"ping", "query"}
  BY FollowsType, StatementFacts
<1>2. /\ pc' = [pc EXCEPT ![p] = next]
      /\ phase' = [phase EXCEPT ![p] = IF next = "idle" THEN "none" ELSE FirstPhase(next)]
      /\ lib' = [lib EXCEPT ![p] = IF next = "idle" THEN NewHandle ELSE h]
      /\ loc' = [loc EXCEPT ![p] = IF next = "idle" THEN NoLocals ELSE l]
      /\ open' = IF next = "idle" THEN open \ {p} ELSE open
  BY DEF Advance
<1> HIDE DEF next
<1>3. TypeOK /\ ChildInv(p)
  BY DEF SessionInv
<1>4. /\ pc'[p] = next
      /\ phase'[p] = IF next = "idle" THEN "none" ELSE FirstPhase(next)
      /\ lib'[p] = IF next = "idle" THEN NewHandle ELSE h
      /\ loc'[p] = IF next = "idle" THEN NoLocals ELSE l
      /\ open' \subseteq open
  BY <1>2, <1>3 DEF TypeOK
<1>5. TypeOK'
  <2>1. pc' \in [Procs -> Statements \cup {"idle"}]
    BY <1>1, <1>2, <1>3 DEF TypeOK
  <2>2. phase' \in [Procs -> {"none", "ping", "pong", "query", "answer", "fetch", "free"}]
    BY <1>1, <1>2, <1>3 DEF TypeOK
  <2>3. lib' \in [Procs -> Handle] /\ loc' \in [Procs -> Locals]
    BY <1>2, <1>3, NewTypes DEF TypeOK
  <2>4. QED
    BY <1>3, <1>4, <2>1, <2>2, <2>3 DEF TypeOK
<1>6. ChildInv(p)'
  <2>1. CASE next = "idle"
    <3>1. Quiet(p)' /\ ~Awaits(p)'
      BY <1>4, <2>1 DEF Quiet, Awaits, NewHandle
    <3>2. QED
      BY <1>4, <2>1, <3>1
      DEF ChildInv, InLine, Repaired, Searching, Chose, Placed, NoLocals
  <2>2. CASE next # "idle"
    <3>1. Quiet(p)' /\ ~Awaits(p)'
      BY <1>1, <1>4, <2>2 DEF Quiet, Awaits
    <3>2. Repaired(p)'
      BY <1>2, <1>4, <2>2 DEF Repaired
    <3>3. Searching(p)'
      BY <1>1, <1>4, <2>2 DEF Searching
    <3>4. Chose(p)'
      BY <1>1, <1>4, <2>2 DEF Chose, Unused, Used
    <3>5. Placed(p)'
      BY <1>1, <1>3, <1>4, <2>2, StatementFacts DEF ChildInv, Placed
    <3>6. QED
      BY <3>1, <3>2, <3>3, <3>4, <3>5 DEF ChildInv, InLine
  <2>3. QED
    BY <2>1, <2>2
<1>7. QED
  BY <1>5, <1>6 DEF SessionInv

\* From the ping on to the statement itself.
LEMMA AfterPing ==
    ASSUME SessionInv, NEW p \in Procs, Procs = {p}, phase[p] \in {"ping", "pong"},
           NEW h \in Handle, Stay(p, "query", h), UNCHANGED <<held, losses, wire, loc>>,
           ~h.unread, h.buf = <<>>, \A c \in Conns : wire[c] = <<>>,
           h.conn \in Conns \ open => loc[p].hit
    PROVE  SessionInv'
<1>1. TypeOK /\ ChildInv(p)
  BY DEF SessionInv
<1>2. /\ phase' = [phase EXCEPT ![p] = "query"] /\ lib' = [lib EXCEPT ![p] = h]
      /\ pc' = pc /\ open' = open /\ wire' = wire /\ loc' = loc /\ held' = held
      /\ losses' = losses
  BY DEF Stay
<1>3. phase'[p] = "query" /\ lib'[p] = h
  BY <1>1, <1>2 DEF TypeOK
<1>4. TypeOK'
  BY <1>1, <1>2 DEF TypeOK
<1>5. Quiet(p)' /\ ~Awaits(p)'
  BY <1>2, <1>3 DEF Quiet, Awaits
<1>6. Repaired(p)' /\ Searching(p)'
  BY <1>2, <1>3 DEF Repaired, Searching
<1>7. Chose(p)' /\ Placed(p)'
  BY <1>1, <1>2, <1>3 DEF ChildInv, Chose, Unused, Used, Placed
<1>8. QED
  BY <1>4, <1>5, <1>6, <1>7 DEF SessionInv, ChildInv, InLine

\* The packets in the library and on the wire, before and after the next is taken.
LEMMA Taken ==
    ASSUME NEW b \in Seq(Packet), NEW w \in Seq(Packet), b # <<>>,
           NEW call, NEW nr \in Nat, NEW ph, NEW s,
           Fits(b \o w, call, nr, ph, s)
    PROVE  /\ Head(b) \in Packet /\ Tail(b) \in Seq(Packet)
           /\ Head(b).of = call /\ Head(b).nr = nr /\ Head(b).kind \in Kinds(ph, s, 1)
           /\ 1 \in 1..Len(b \o w) /\ (b \o w)[1] = Head(b)
           /\ Head(b).kind \in Final => Tail(b) = <<>> /\ w = <<>>
           /\ \/ ph = "answer" /\ s \notin Commands
              \/ ph \in {"fetch", "free"}
              => /\ Fits(Tail(b) \o w, call, nr + 1, "fetch", s)
                 /\ Fits(Tail(b) \o w, call, nr + 1, "free", s)
           /\ \A L, a : Enumerates(b \o w, L, a) => Enumerates(Tail(b) \o w, L, Head(b).val)
<1> DEFINE P == b \o w
           Q == Tail(b) \o w
<1>1. P \in Seq(Packet) /\ Len(P) > 0 /\ Len(P) \in Nat /\ P[1] = Head(b)
  BY ConcatElements, LenProperties
<1>2. Q \in Seq(Packet) /\ OneFurther(Q, P)
  BY <1>1, TailOfConcat DEF OneFurther
<1>3. Head(b) \in Packet /\ Tail(b) \in Seq(Packet)
  BY HeadTailProperties
<1>4. Fits(P, call, nr, ph, s)
  OBVIOUS
<1>5. Q = <<>> => Tail(b) = <<>> /\ w = <<>>
  BY <1>3, ConcatEqualIffEmpty
<1> HIDE DEF P, Q
<1>6. /\ P[1].of = call /\ P[1].nr = nr /\ P[1].kind \in Kinds(ph, s, 1)
      /\ P[1].kind \in Final => Q = <<>>
      /\ \/ ph = "answer" /\ s \notin Commands
         \/ ph \in {"fetch", "free"}
         => Fits(Q, call, nr + 1, "fetch", s) /\ Fits(Q, call, nr + 1, "free", s)
  BY <1>1, <1>2, <1>4, FitsTail
<1>7. ASSUME NEW L, NEW a, Enumerates(P, L, a) PROVE Enumerates(Q, L, P[1].val)
  BY <1>1, <1>2, <1>4, <1>7, FitsTail
<1>8. QED
  BY <1>1, <1>3, <1>5, <1>6, <1>7 DEF P, Q

\* What is known of the next packet, and of those after it.
LEMMA NextPacket ==
    ASSUME TypeOK, NEW p \in Procs, InLine(p), Awaits(p), lib[p].buf # <<>>
    PROVE  /\ InTurn(p)
           /\ Head(lib[p].buf) \in Packet
           /\ Head(lib[p].buf).of = ThisCall(p)
           /\ Head(lib[p].buf).kind \in Kinds(phase[p], pc[p], 1)
           /\ 1 \in 1..Len(Upcoming(p)) /\ Upcoming(p)[1] = Head(lib[p].buf)
           /\ Rest(p) \in Handle
           /\ Rest(p).conn = lib[p].conn
           /\ Rest(p).unread = lib[p].unread
           /\ Rest(p).buf = Tail(lib[p].buf)
           /\ Rest(p).nr = lib[p].nr + 1
           /\ Head(lib[p].buf).kind \in Final =>
                Rest(p).buf = <<>> /\ \A c \in Conns : wire[c] = <<>>
<1> DEFINE b == lib[p].buf
           w == wire[lib[p].conn]
<1>1. /\ lib[p] \in Handle /\ lib[p].conn \in Conns /\ lib[p].nr \in Nat
      /\ b \in Seq(Packet) /\ w \in Seq(Packet) /\ b # <<>>
      /\ \A c \in Conns \ {lib[p].conn} : wire[c] = <<>>
      /\ Fits(b \o w, ThisCall(p), lib[p].nr, phase[p], pc[p])
  BY DEF TypeOK, InLine, Listening, Upcoming, Handle
<1> HIDE DEF b, w
<1>2. /\ Head(b) \in Packet /\ Tail(b) \in Seq(Packet)
      /\ Head(b).of = ThisCall(p) /\ Head(b).nr = lib[p].nr
      /\ Head(b).kind \in Kinds(phase[p], pc[p], 1)
      /\ 1 \in 1..Len(b \o w) /\ (b \o w)[1] = Head(b)
      /\ Head(b).kind \in Final => Tail(b) = <<>> /\ w = <<>>
  <2> DEFINE call == ThisCall(p)
             nr == lib[p].nr
             ph == phase[p]
             s == pc[p]
  <2>1. b \in Seq(Packet) /\ w \in Seq(Packet) /\ b # <<>>
    BY <1>1
  <2>2. nr \in Nat /\ Fits(b \o w, call, nr, ph, s)
    BY <1>1
  <2> HIDE DEF call, nr, ph, s
  <2>3. /\ Head(b) \in Packet /\ Tail(b) \in Seq(Packet)
        /\ Head(b).of = call /\ Head(b).nr = nr /\ Head(b).kind \in Kinds(ph, s, 1)
        /\ 1 \in 1..Len(b \o w) /\ (b \o w)[1] = Head(b)
        /\ Head(b).kind \in Final => Tail(b) = <<>> /\ w = <<>>
    BY ONLY <2>1, <2>2, Taken, ZenonT(60)
  <2>4. QED
    BY <2>3 DEF call, nr, ph, s
<1>3. /\ Rest(p) \in Handle /\ Rest(p).conn = lib[p].conn /\ Rest(p).unread = lib[p].unread
      /\ Rest(p).buf = Tail(b) /\ Rest(p).nr = lib[p].nr + 1
  <2> DEFINE t == Tail(b)
             n == lib[p].nr + 1
  <2>1. Rest(p) = [lib[p] EXCEPT !.buf = t, !.nr = n]
    BY DEF Rest, b
  <2>2. t \in Seq(Packet) /\ n \in Nat
    BY <1>1, <1>2
  <2> HIDE DEF t, n
  <2>3. /\ Rest(p) \in Handle /\ Rest(p).conn = lib[p].conn
        /\ Rest(p).unread = lib[p].unread /\ Rest(p).buf = t /\ Rest(p).nr = n
    BY <1>1, <2>1, <2>2 DEF Handle
  <2>4. QED
    BY <2>3 DEF t, n
<1>4. Head(b).kind \in Final => \A c \in Conns : wire[c] = <<>>
  BY <1>1, <1>2 DEF w
<1>5. QED
  BY <1>1, <1>2, <1>3, <1>4 DEF b, w, InTurn, Upcoming

\* A packet that does not end the answer was taken.
LEMMA AfterRow ==
    ASSUME SessionInv, NEW p \in Procs, Procs = {p},
           phase[p] \in {"answer", "fetch", "free"},
           phase[p] = "answer" => pc[p] \notin Commands,
           lib[p].buf # <<>>,
           NEW ph \in {"fetch", "free"}, NEW h \in Handle, Stay(p, ph, h),
           h.conn = lib[p].conn, h.buf = Tail(lib[p].buf), h.nr = lib[p].nr + 1, h.unread,
           UNCHANGED <<held, losses, wire>>,
           NEW l \in Locals, loc' = [loc EXCEPT ![p] = l],
           l.s = loc[p].s, l.e = loc[p].e, l.hit = loc[p].hit, l.scanned = loc[p].scanned,
           l.scanned => l.ip = loc[p].ip,
           NEW a, pc[p] = "scan" /\ phase[p] # "free" => Enumerates(Upcoming(p), Used(p), a),
           pc[p] = "scan" /\ ph = "fetch" =>
                /\ phase[p] # "free"
                /\ NoGapYet(l.scan, Used(p), l.s)
                /\ l.scan.prev = Head(lib[p].buf).val,
           pc[p] = "scan" /\ ph = "free" => ScanResult(l.scan, l.s, l.e) = Unused(p)
    PROVE  SessionInv'
<1> DEFINE b == lib[p].buf
           w == wire[lib[p].conn]
           Q == Tail(b) \o w
<1>1. TypeOK /\ ChildInv(p) /\ Awaits(p) /\ InLine(p)
  BY DEF SessionInv, ChildInv, Awaits
<1>2. /\ lib[p] \in Handle /\ lib[p].conn \in Conns /\ lib[p].nr \in Nat
      /\ b \in Seq(Packet) /\ w \in Seq(Packet) /\ b # <<>>
      /\ \A c \in Conns \ {lib[p].conn} : wire[c] = <<>>
      /\ Fits(b \o w, ThisCall(p), lib[p].nr, phase[p], pc[p])
  BY <1>1 DEF TypeOK, InLine, Listening, Upcoming, Handle
<1>3. /\ phase' = [phase EXCEPT ![p] = ph] /\ lib' = [lib EXCEPT ![p] = h]
      /\ pc' = pc /\ open' = open /\ wire' = wire /\ held' = held /\ losses' = losses
  BY DEF Stay
<1>4. phase'[p] = ph /\ lib'[p] = h /\ loc'[p] = l
  BY <1>1, <1>3 DEF TypeOK
<1>5. TypeOK'
  <2>1. phase' \in [Procs -> {"none", "ping", "pong", "query", "answer", "fetch", "free"}]
    BY <1>1, <1>3 DEF TypeOK
  <2>2. lib' \in [Procs -> Handle] /\ loc' \in [Procs -> Locals]
    BY <1>1, <1>3 DEF TypeOK
  <2>3. QED
    BY <1>1, <1>3, <2>1, <2>2 DEF TypeOK
<1>6. Upcoming(p)' = Q /\ Upcoming(p) = b \o w
  BY <1>3, <1>4 DEF Upcoming
<1> HIDE DEF b, w
<1>7. \/ phase[p] = "answer" /\ pc[p] \notin Commands
      \/ phase[p] \in {"fetch", "free"}
  OBVIOUS
<1>8. /\ Fits(Q, ThisCall(p), lib[p].nr + 1, ph, pc[p])
      /\ Enumerates(b \o w, Used(p), a) => Enumerates(Q, Used(p), Head(b).val)
  <2> DEFINE call == ThisCall(p)
             nr == lib[p].nr
             now == phase[p]
             s == pc[p]
             L == Used(p)
  <2>1. b \in Seq(Packet) /\ w \in Seq(Packet) /\ b # <<>>
    BY <1>2
  <2>2. nr \in Nat /\ Fits(b \o w, call, nr, now, s)
    BY <1>2
  <2>3. (now = "answer" /\ s \notin Commands) \/ now \in {"fetch", "free"}
    BY <1>7
  <2> HIDE DEF call, nr, now, s, L
  <2>4. /\ Fits(Q, call, nr + 1, "fetch", s)
        /\ Fits(Q, call, nr + 1, "free", s)
        /\ Enumerates(b \o w, L, a) => Enumerates(Q, L, Head(b).val)
    BY ONLY <2>1, <2>2, <2>3, Taken, ZenonT(60) DEF Q
  <2>5. QED
    BY <2>4 DEF call, nr, now, s, L
<1> HIDE DEF Q
<1>9. Fits(Q, ThisCall(p), h.nr, ph, pc[p])
  BY <1>8
<1>10. Listening(p)' /\ Awaits(p)'
  <2>1. ThisCall(p)' = ThisCall(p)
    BY <1>3, <1>4 DEF ThisCall
  <2>2. Fits(Upcoming(p), ThisCall(p), lib[p].nr, phase[p], pc[p])'
    BY <1>3, <1>4, <1>6, <1>9, <2>1
  <2>3. lib'[p].unread <=> (phase'[p] \in {"fetch", "free"})
    BY <1>4 DEF Handle
  <2>4. QED
    BY <1>2, <1>3, <1>4, <2>2, <2>3 DEF Listening, Awaits
<1>11. Repaired(p)'
  BY <1>1, <1>3, <1>4 DEF ChildInv, Repaired
<1>12. Searching(p)'
  <2>1. Used(p)' = Used(p) /\ Unused(p)' = Unused(p)
    BY <1>3, <1>4 DEF Used, Unused
  <2>2. CASE pc[p] = "scan" /\ ph = "fetch"
    <3>1. Enumerates(Q, Used(p), l.scan.prev)
      BY <1>6, <1>8, <2>2 DEF b
    <3>2. QED
      BY <1>3, <1>4, <1>6, <2>1, <2>2, <3>1 DEF Searching
  <2>3. CASE pc[p] = "scan" /\ ph = "free"
    BY <1>3, <1>4, <2>1, <2>3 DEF Searching
  <2>4. QED
    BY <1>3, <2>2, <2>3 DEF Searching
<1>13. Chose(p)' /\ Placed(p)'
  BY <1>1, <1>3, <1>4 DEF ChildInv, Chose, Unused, Used, Placed
<1>14. QED
  BY <1>5, <1>10, <1>11, <1>12, <1>13 DEF SessionInv, ChildInv, InLine

\* A call is written; N is what the server makes of it.
LEMMA AfterCall ==
    ASSUME SessionInv, NEW p \in Procs, Procs = {p}, phase[p] \in {"ping", "query"},
           lib[p].conn \in Conns,
           Stay(p, Waiting[phase[p]], [lib[p] EXCEPT !.nr = 1]),
           UNCHANGED <<held, losses, loc>>,
           NEW N \in Seq(Packet), wire' = [wire EXCEPT ![lib[p].conn] = N],
           Fits(N, <<p, pc[p], phase[p]>>, 1, Waiting[phase[p]], pc[p]),
           pc[p] = "scan" /\ phase[p] = "query" => Enumerates(N, Used(p), 0),
           lib[p].conn \notin open => N = <<>>
    PROVE  SessionInv'
<1> DEFINE h == [lib[p] EXCEPT !.nr = 1]
           ph == Waiting[phase[p]]
           conn == lib[p].conn
<1>1. TypeOK /\ ChildInv(p) /\ Quiet(p)
  BY DEF SessionInv, ChildInv, InLine, Awaits
<1>2. /\ lib[p] \in Handle /\ h \in Handle
      /\ h.conn = conn /\ h.buf = <<>> /\ h.nr = 1 /\ h.unread = FALSE
  BY <1>1 DEF TypeOK, Quiet, Handle
<1>3. /\ ph \in {"pong", "answer"}
      /\ ph = "pong" <=> phase[p] = "ping"
  BY DEF Waiting
<1>4. /\ phase' = [phase EXCEPT ![p] = ph] /\ lib' = [lib EXCEPT ![p] = h]
      /\ pc' = pc /\ open' = open /\ loc' = loc /\ held' = held /\ losses' = losses
  BY DEF Stay
<1> HIDE DEF h, ph
<1>5. phase'[p] = ph /\ lib'[p] = h
  BY <1>1, <1>4 DEF TypeOK
<1>6. /\ wire' \in [Conns -> Seq(Packet)]
      /\ wire'[conn] = N
      /\ \A c \in Conns \ {conn} : wire'[c] = <<>>
  BY <1>1 DEF TypeOK, Quiet
<1>7. TypeOK'
  <2>1. phase' \in [Procs -> {"none", "ping", "pong", "query", "answer", "fetch", "free"}]
    BY <1>1, <1>3, <1>4 DEF TypeOK
  <2>2. lib' \in [Procs -> Handle]
    BY <1>1, <1>2, <1>4 DEF TypeOK
  <2>3. QED
    BY <1>1, <1>4, <1>6, <2>1, <2>2 DEF TypeOK
<1>8. Upcoming(p)' = N
  <2>1. Upcoming(p)' = <<>> \o N
    BY <1>2, <1>5, <1>6 DEF Upcoming
  <2>2. QED
    BY <2>1, ConcatEmptySeq
<1>9. ThisCall(p)' = <<p, pc[p], phase[p]>>
  BY <1>3, <1>4, <1>5 DEF ThisCall
<1>10. Listening(p)' /\ Awaits(p)'
  <2>1. Fits(N, <<p, pc[p], phase[p]>>, 1, ph, pc[p])
    BY DEF ph
  <2>2. Fits(Upcoming(p), ThisCall(p), lib[p].nr, phase[p], pc[p])'
    BY <1>2, <1>4, <1>5, <1>8, <1>9, <2>1
  <2>3. QED
    <3>1. phase'[p] \notin {"fetch", "free"} /\ Awaits(p)'
      BY <1>3, <1>5 DEF Awaits
    <3>2. lib'[p].unread <=> (phase'[p] \in {"fetch", "free"})
      BY <1>2, <1>5, <3>1
    <3>3. lib'[p].conn \in Conns /\ \A c \in Conns \ {lib'[p].conn} : wire'[c] = <<>>
      BY <1>2, <1>5, <1>6
    <3>4. QED
      BY <2>2, <3>1, <3>2, <3>3 DEF Listening
<1>11. Repaired(p)'
  <2>1. CASE conn \in open
    BY <1>2, <1>4, <1>5, <2>1 DEF Repaired
  <2>2. CASE conn \notin open
    <3>1. CASE phase[p] = "ping"
      BY <1>2, <1>3, <1>5, <1>6, <2>2, <3>1 DEF Repaired
    <3>2. CASE phase[p] = "query"
      BY <1>1, <1>2, <1>4, <1>5, <3>2 DEF ChildInv, Repaired
    <3>3. QED
      BY <3>1, <3>2
  <2>3. QED
    BY <2>1, <2>2
<1>12. Searching(p)'
  <2>1. Used(p)' = Used(p)
    BY <1>4 DEF Used
  <2>2. QED
    BY <1>3, <1>4, <1>5, <1>8, <2>1 DEF Searching
<1>13. Chose(p)' /\ Placed(p)'
  BY <1>1, <1>3, <1>4, <1>5 DEF ChildInv, Chose, Unused, Used, Placed
<1>14. QED
  BY <1>7, <1>10, <1>11, <1>12, <1>13 DEF SessionInv, ChildInv, InLine

LEMMA CallKeeps ==
    ASSUME SessionInv, NEW p \in Procs, Procs = {p}, Call(p)
    PROVE  SessionInv'
<1> DEFINE conn == lib[p].conn
           call == <<p, pc[p], phase[p]>>
<1>1. phase[p] \in {"ping", "query"} /\ held' = held /\ losses' = losses
  BY DEF Call
<1>2. TypeOK /\ ChildInv(p) /\ Quiet(p)
  BY <1>1 DEF SessionInv, ChildInv, InLine, Awaits
<1>3. pc[p] \in Statements
  BY <1>1, <1>2 DEF TypeOK, ChildInv, Placed
<1>4. CASE /\ conn \in open
           /\ \E answer \in Answers(p) : wire' = [wire EXCEPT ![conn] = @ \o Numbered(answer, call)]
           /\ Stay(p, Waiting[phase[p]], [lib[p] EXCEPT !.nr = 1])
           /\ UNCHANGED loc
  <2>1. PICK answer \in Answers(p) : wire' = [wire EXCEPT ![conn] = wire[conn] \o Numbered(answer, call)]
    BY <1>4
  <2> DEFINE N == Numbered(answer, call)
  <2>2. /\ N \in Seq(Packet)
        /\ Fits(N, call, 1, Waiting[phase[p]], pc[p])
        /\ pc[p] = "scan" /\ phase[p] = "query" => Enumerates(N, Used(p), 0)
    BY <1>1, <1>2, <1>3, AnswersFit
  <2>3. conn \in Conns /\ wire[conn] = <<>>
    BY <1>2, <1>4 DEF TypeOK, Quiet
  <2> HIDE DEF N
  <2>4. wire[conn] \o N = N
    BY <2>2, <2>3, ConcatEmptySeq
  <2>5. wire' = [wire EXCEPT ![conn] = N]
    BY <2>1, <2>4 DEF N
  <2>6. QED
    BY <1>1, <1>4, <2>2, <2>3, <2>5, AfterCall
<1>5. CASE /\ conn \in Conns \ open
           /\ Stay(p, Waiting[phase[p]], [lib[p] EXCEPT !.nr = 1])
           /\ UNCHANGED <<wire, loc>>
  <2>1. wire[conn] = <<>> /\ wire' = [wire EXCEPT ![conn] = <<>>]
    BY <1>2, <1>5 DEF TypeOK, Quiet
  <2>2. <<>> \in Seq(Packet) /\ Len(<<>>) = 0
    OBVIOUS
  <2>3. Fits(<<>>, call, 1, Waiting[phase[p]], pc[p]) /\ Enumerates(<<>>, Used(p), 0)
    BY <2>2 DEF Fits, Enumerates
  <2>4. QED
    BY <1>1, <1>5, <2>1, <2>2, <2>3, AfterCall
<1>6. ~lib[p].unread
  BY <1>2 DEF Quiet
<1>7. QED
  BY <1>4, <1>5, <1>6 DEF Call

LEMMA ForkKeeps ==
    ASSUME SessionInv, NEW p \in Procs, Procs = {p}, Fork(p)
    PROVE  SessionInv'
<1>1. PICK type \in {"discover", "request"}, list \in Lists :
        LET first == IF type = "discover" THEN "conf" ELSE "clrSelect" IN
        /\ pc' = [pc EXCEPT ![p] = first]
        /\ phase' = [phase EXCEPT ![p] = FirstPhase(first)]
        /\ loc' = [loc EXCEPT ![p] = [NoLocals EXCEPT !.type = type,
                                          !.s = list[1], !.e = list[2]]]
        /\ lib' = [lib EXCEPT ![p] = NewHandle]
        /\ wire' = [wire EXCEPT ![p] = <<>>]
  BY DEF Fork
<1> DEFINE first == IF type = "discover" THEN "conf" ELSE "clrSelect"
           l == [NoLocals EXCEPT !.type = type, !.s = list[1], !.e = list[2]]
<1>2. /\ first \in Statements /\ first # "scan" /\ first # "idle"
      /\ FirstPhase(first) = "ping"
  BY DEF Statements, Singles, Loops, FirstPhase, Pinged
<1>3. list[1] \in Ips /\ list[2] \in Ips /\ list[1]..list[2] \subseteq Ips
  BY ListsAssumption
<1>4. /\ l \in Locals /\ l.s = list[1] /\ l.e = list[2]
      /\ l.scanned = FALSE
  BY <1>3, IpsAssumption DEF NoLocals, Locals, ScanStart, Scanning
<1>5. /\ pc[p] = "idle" /\ TypeOK /\ ChildInv(p)
      /\ held' = held /\ open' = open /\ losses' = losses
  BY DEF Fork, SessionInv
<1>6. /\ pc' = [pc EXCEPT ![p] = first] /\ phase' = [phase EXCEPT ![p] = "ping"]
      /\ loc' = [loc EXCEPT ![p] = l] /\ lib' = [lib EXCEPT ![p] = NewHandle]
      /\ wire' = [wire EXCEPT ![p] = <<>>]
  BY <1>1, <1>2
<1> HIDE DEF first, l
<1>7. pc'[p] = first /\ phase'[p] = "ping" /\ loc'[p] = l /\ lib'[p] = NewHandle
  BY <1>5, <1>6 DEF TypeOK
<1>8. wire' \in [Conns -> Seq(Packet)] /\ \A c \in Conns : wire'[c] = <<>>
  <2>1. \A c \in Conns : wire[c] = <<>>
    BY <1>5 DEF ChildInv, Placed, InLine, Awaits, Quiet
  <2>2. QED
    BY <1>5, <1>6, <2>1 DEF TypeOK
<1>9. TypeOK'
  <2>1. pc' \in [Procs -> Statements \cup {"idle"}]
    BY <1>2, <1>5, <1>6 DEF TypeOK
  <2>2. phase' \in [Procs -> {"none", "ping", "pong", "query", "answer", "fetch", "free"}]
    BY <1>5, <1>6 DEF TypeOK
  <2>3. lib' \in [Procs -> Handle] /\ loc' \in [Procs -> Locals]
    BY <1>4, <1>5, <1>6, NewTypes DEF TypeOK
  <2>4. QED
    BY <1>5, <1>8, <2>1, <2>2, <2>3 DEF TypeOK
<1>10. Quiet(p)' /\ ~Awaits(p)'
  BY <1>7, <1>8 DEF Quiet, Awaits, NewHandle
<1>11. Repaired(p)' /\ Searching(p)' /\ Chose(p)'
  BY <1>2, <1>4, <1>7 DEF Repaired, Searching, Chose
<1>12. Placed(p)'
  BY <1>2, <1>3, <1>4, <1>7 DEF Placed
<1>13. QED
  BY <1>9, <1>10, <1>11, <1>12 DEF SessionInv, ChildInv, InLine

LEMMA FreshHandle ==
    ASSUME NEW c \in Conns \cup {Closed}
    PROVE  /\ [NewHandle EXCEPT !.conn = c] \in Handle
           /\ [NewHandle EXCEPT !.conn = c].conn = c
           /\ [NewHandle EXCEPT !.conn = c].buf = <<>>
           /\ [NewHandle EXCEPT !.conn = c].unread = FALSE
<1>1. NewHandle \in Handle /\ NewHandle.buf = <<>> /\ NewHandle.unread = FALSE
  BY NewTypes DEF NewHandle
<1>2. QED
  BY <1>1 DEF Handle

LEMMA ReconnectKeeps ==
    ASSUME SessionInv, NEW p \in Procs, Procs = {p}, Reconnect(p)
    PROVE  SessionInv'
<1> DEFINE none == [NewHandle EXCEPT !.conn = Closed]
<1>1. /\ phase[p] \in {"ping", "query"} /\ held' = held /\ losses' = losses
  BY DEF Reconnect
<1>2. TypeOK /\ ChildInv(p) /\ Quiet(p)
  BY <1>1 DEF SessionInv, ChildInv, InLine, Awaits
<1>3. pc[p] \in Statements
  BY <1>1, <1>2 DEF TypeOK, ChildInv, Placed
<1>4. CASE /\ open' = open \cup {p}
           /\ wire' = [wire EXCEPT ![p] = <<>>]
           /\ lib' = [lib EXCEPT ![p] = [NewHandle EXCEPT !.conn = p]]
           /\ UNCHANGED <<pc, phase, loc>>
  <2> DEFINE h == [NewHandle EXCEPT !.conn = p]
  <2>1. h \in Handle /\ h.conn = p /\ ~h.unread /\ h.buf = <<>> /\ p \in Conns
    BY FreshHandle DEF Conns
  <2> HIDE DEF h
  <2>2. lib'[p] = h
    BY <1>2, <1>4 DEF TypeOK, h
  <2>3. wire' \in [Conns -> Seq(Packet)] /\ \A c \in Conns : wire'[c] = <<>>
    BY <1>2, <1>4 DEF TypeOK, Quiet
  <2>4. lib' \in [Procs -> Handle]
    BY <1>2, <1>4, <2>1 DEF TypeOK, h
  <2>5. TypeOK'
    BY <1>1, <1>2, <1>4, <2>1, <2>3, <2>4 DEF TypeOK
  <2>6. Quiet(p)'
    BY <2>1, <2>2, <2>3 DEF Quiet
  <2>7. ~Awaits(p)' /\ Searching(p)'
    BY <1>1, <1>4 DEF Awaits, Searching
  <2>8. Repaired(p)'
    BY <1>4, <2>1, <2>2 DEF Repaired
  <2>9. Chose(p)' /\ Placed(p)'
    BY <1>1, <1>2, <1>4 DEF ChildInv, Chose, Unused, Used, Placed
  <2>10. QED
    BY <2>5, <2>6, <2>7, <2>8, <2>9 DEF SessionInv, ChildInv, InLine
<1>5. CASE /\ IF phase[p] = "ping"
              THEN Stay(p, "query", none) /\ UNCHANGED loc
              ELSE Advance(p, "fail", none, loc[p])
           /\ UNCHANGED wire
  <2>1. none \in Handle /\ none.conn = Closed /\ ~none.unread /\ none.buf = <<>>
    BY FreshHandle
  <2>2. none.conn \notin Conns
    BY <2>1, ConnsAssumption
  <2> HIDE DEF none
  <2>3. \A c \in Conns : wire[c] = <<>>
    BY <1>2 DEF Quiet
  <2>4. CASE phase[p] = "ping"
    BY <1>1, <1>5, <2>1, <2>2, <2>3, <2>4, AfterPing
  <2>5. CASE phase[p] # "ping"
    <3>1. loc[p] \in Locals /\ Advance(p, "fail", none, loc[p]) /\ UNCHANGED <<held, losses, wire>>
      BY <1>1, <1>2, <1>5, <2>5 DEF TypeOK
    <3>2. loc[p].scanned => pc[p] \in AfterScan \cup {"scan"} /\ loc[p].ip = Unused(p)
      BY <1>2 DEF ChildInv, Chose
    <3>3. QED
      BY <1>3, <2>1, <2>2, <2>3, <3>1, <3>2, AfterAdvance
  <2>6. QED
    BY <2>4, <2>5
<1>6. QED
  BY <1>4, <1>5 DEF Reconnect

LEMMA ReceiveKeeps ==
    ASSUME SessionInv, NEW p \in Procs, Procs = {p}, Receive(p)
    PROVE  SessionInv'
<1> DEFINE c == lib[p].conn
           w == wire[c]
<1>1. /\ Awaits(p) /\ lib[p].buf = <<>> /\ TypeOK /\ ChildInv(p) /\ Listening(p)
      /\ held' = held /\ open' = open /\ losses' = losses /\ pc' = pc /\ phase' = phase
      /\ loc' = loc
  BY DEF Receive, SessionInv, ChildInv, InLine
<1>2. PICK n \in 1..Len(w) :
        /\ lib' = [lib EXCEPT ![p].buf = SubSeq(w, 1, n)]
        /\ wire' = [wire EXCEPT ![c] = SubSeq(w, n + 1, Len(w))]
  BY DEF Receive
<1> DEFINE b == SubSeq(w, 1, n)
           v == SubSeq(w, n + 1, Len(w))
           h == [lib[p] EXCEPT !.buf = b]
<1>3. c \in Conns /\ w \in Seq(Packet) /\ lib[p] \in Handle
  BY <1>1 DEF Listening, TypeOK
<1>4. b \in Seq(Packet) /\ v \in Seq(Packet) /\ b \o v = w /\ <<>> \o w = w
  <2> HIDE DEF w
  <2>1. Len(w) \in Nat /\ n \in Nat /\ \A k \in 1..Len(w) : w[k] \in Packet
    BY <1>3, LenProperties, ElementOfSeq
  <2>2. b \in Seq(Packet)
    BY <2>1, SubSeqProperties
  <2>3. v \in Seq(Packet)
    BY <2>1, SubSeqProperties
  <2>4. b \o v = SubSeq(w, 1, Len(w))
    BY <1>3, <2>1, ConcatAdjacentSubSeq
  <2>5. QED
    BY <1>3, <2>2, <2>3, <2>4, SubSeqFull, ConcatEmptySeq
<1> HIDE DEF b, v, w, c
<1>5. h \in Handle /\ h.conn = c /\ h.buf = b /\ h.nr = lib[p].nr /\ h.unread = lib[p].unread
  BY <1>3, <1>4 DEF Handle, c
<1>6. lib' = [lib EXCEPT ![p] = h] /\ wire' = [wire EXCEPT ![c] = v]
  BY <1>1, <1>2 DEF b, v, TypeOK
<1> HIDE DEF h
<1>7. lib'[p] = h /\ wire'[c] = v /\ \A d \in Conns \ {c} : wire'[d] = wire[d]
  BY <1>1, <1>3, <1>6 DEF TypeOK
<1>8. lib' \in [Procs -> Handle] /\ wire' \in [Conns -> Seq(Packet)]
  BY <1>1, <1>3, <1>4, <1>5, <1>6 DEF TypeOK
<1>9. TypeOK'
  BY <1>1, <1>8 DEF TypeOK
<1>10. Upcoming(p)' = w /\ Upcoming(p) = w
  BY <1>1, <1>4, <1>5, <1>7 DEF Upcoming, c, w
<1>11. ThisCall(p)' = ThisCall(p) /\ Awaits(p)' /\ Used(p)' = Used(p) /\ Unused(p)' = Unused(p)
  BY <1>1 DEF ThisCall, Awaits, Used, Unused
<1>12. Listening(p)'
  <2>1. Fits(Upcoming(p), ThisCall(p), lib[p].nr, phase[p], pc[p])'
    BY <1>1, <1>5, <1>7, <1>10, <1>11 DEF Listening
  <2>2. \A d \in Conns \ {c} : wire'[d] = <<>>
    BY <1>1, <1>7 DEF Listening, c
  <2>3. QED
    BY <1>1, <1>3, <1>5, <1>7, <2>1, <2>2 DEF Listening
<1>13. Repaired(p)'
  <2>1. n \in 1..Len(w) /\ Len(<<>>) = 0
    BY DEF w
  <2>2. w # <<>>
    BY <2>1
  <2>3. Repaired(p) /\ lib[p].conn = c
    BY <1>1 DEF ChildInv, c
  <2>4. QED
    BY <1>1, <1>5, <1>7, <2>2, <2>3 DEF Repaired, w
<1>14. Searching(p)' /\ Chose(p)' /\ Placed(p)'
  BY <1>1, <1>10, <1>11 DEF ChildInv, Searching, Chose, Placed
<1>15. QED
  BY <1>9, <1>11, <1>12, <1>13, <1>14 DEF SessionInv, ChildInv, InLine

LEMMA PongKeeps ==
    ASSUME SessionInv, NEW p \in Procs, Procs = {p}, Pong(p)
    PROVE  SessionInv'
<1>1. /\ phase[p] = "pong" /\ lib[p].buf # <<>> /\ Stay(p, "query", Rest(p))
      /\ UNCHANGED <<held, losses, wire, loc>>
  BY DEF Pong, InTurn
<1>2. TypeOK /\ ChildInv(p) /\ Awaits(p) /\ InLine(p) /\ Listening(p)
  BY <1>1 DEF SessionInv, ChildInv, InLine, Awaits
<1>3. Head(lib[p].buf).kind \in Final
  BY <1>1, <1>2, NextPacket DEF Kinds, Final
<1>4. /\ Rest(p) \in Handle /\ Rest(p).buf = <<>> /\ \A c \in Conns : wire[c] = <<>>
      /\ ~Rest(p).unread /\ Rest(p).conn = lib[p].conn
  BY <1>1, <1>2, <1>3, NextPacket DEF Listening
<1>5. Rest(p).conn \in Conns \ open => loc[p].hit
  BY <1>1, <1>2, <1>4 DEF ChildInv, Repaired
<1>6. QED
  BY <1>1, <1>4, <1>5, AfterPing

LEMMA AnswerKeeps ==
    ASSUME SessionInv, NEW p \in Procs, Procs = {p}, Answer(p)
    PROVE  SessionInv'
<1> DEFINE packet == Head(lib[p].buf)
<1>1. /\ phase[p] = "answer" /\ lib[p].buf # <<>>
      /\ UNCHANGED <<held, losses, wire>>
  BY DEF Answer, InTurn
<1>2. TypeOK /\ ChildInv(p) /\ Awaits(p) /\ InLine(p) /\ Listening(p)
  BY <1>1 DEF SessionInv, ChildInv, InLine, Awaits
<1>3. pc[p] \in Statements /\ loc[p] \in Locals
  BY <1>1, <1>2 DEF TypeOK, ChildInv, Placed
<1>4. /\ packet.kind \in Kinds(phase[p], pc[p], 1)
      /\ Rest(p) \in Handle /\ Rest(p).conn = lib[p].conn /\ ~Rest(p).unread
      /\ Rest(p).buf = Tail(lib[p].buf) /\ Rest(p).nr = lib[p].nr + 1
      /\ packet.kind \in Final => Rest(p).buf = <<>> /\ \A c \in Conns : wire[c] = <<>>
      /\ 1 \in 1..Len(Upcoming(p)) /\ Upcoming(p)[1] = packet
  BY <1>1, <1>2, NextPacket DEF Listening
<1>5. packet.kind \in IF pc[p] \in Commands THEN {"ok", "err"} ELSE {"head", "err"}
  BY <1>1, <1>4 DEF Kinds
<1>6. ASSUME packet.kind \in Final, NEW o, Advance(p, o, Rest(p), loc[p])
      PROVE  SessionInv'
  <2>1. Rest(p).conn \in Conns \ open => loc[p].hit
    BY <1>1, <1>2, <1>4 DEF ChildInv, Repaired
  <2>2. loc[p].scanned => pc[p] \in AfterScan \cup {"scan"} /\ loc[p].ip = Unused(p)
    BY <1>2 DEF ChildInv, Chose
  <2>3. QED
    BY <1>1, <1>3, <1>4, <1>6, <2>1, <2>2, AfterAdvance
<1>7. ASSUME pc[p] \notin Commands, packet.kind = "head",
             Stay(p, "fetch", [Rest(p) EXCEPT !.unread = TRUE]),
             loc' = [loc EXCEPT ![p].scan = ScanStart]
      PROVE  SessionInv'
  <2> DEFINE h == [Rest(p) EXCEPT !.unread = TRUE]
             l == [loc[p] EXCEPT !.scan = ScanStart]
  <2>1. /\ h \in Handle /\ h.conn = lib[p].conn /\ h.buf = Tail(lib[p].buf)
        /\ h.nr = lib[p].nr + 1 /\ h.unread
    BY <1>4 DEF Handle
  <2>2. ScanStart \in Scanning /\ ScanStart.prev = 0 /\ NoGapYet(ScanStart, Used(p), loc[p].s)
    BY DEF ScanStart, Scanning, NoGapYet
  <2>3. /\ l \in Locals /\ l.s = loc[p].s /\ l.e = loc[p].e /\ l.hit = loc[p].hit
        /\ l.scanned = loc[p].scanned /\ l.ip = loc[p].ip /\ l.scan = ScanStart
    BY <1>3, <2>2 DEF Locals
  <2>4. loc' = [loc EXCEPT ![p] = l]
    BY <1>2, <1>7 DEF TypeOK
  <2> HIDE DEF h, l
  <2>5. pc[p] = "scan" => Enumerates(Upcoming(p), Used(p), 0)
    BY <1>1, <1>2 DEF ChildInv, Searching
  <2>6. pc[p] = "scan" => packet.val = 0
    BY <1>4, <1>7, <2>5 DEF Enumerates
  <2>7. Stay(p, "fetch", h)
    BY <1>7 DEF h
  <2>8. pc[p] = "scan" => NoGapYet(l.scan, Used(p), l.s) /\ l.scan.prev = packet.val
    BY <2>2, <2>3, <2>6
  <2>9. QED
    BY <1>1, <1>7, <2>1, <2>3, <2>4, <2>5, <2>7, <2>8, AfterRow
<1>8. QED
  BY <1>5, <1>6, <1>7 DEF Answer, Final

LEMMA ScanFacts ==
    ASSUME TypeOK, NEW p \in Procs, ChildInv(p), pc[p] # "idle"
    PROVE  /\ loc[p] \in Locals /\ loc[p].scan \in Scanning
           /\ loc[p].s \in Ips /\ loc[p].e \in Ips /\ loc[p].s..loc[p].e \subseteq Ips
           /\ loc[p].s \in Nat /\ loc[p].s > 0 /\ loc[p].e \in Nat
           /\ Used(p) \subseteq loc[p].s..loc[p].e
           /\ Unused(p) \in Ips \cup {NoIp}
<1>1. /\ loc[p] \in Locals /\ loc[p].scan \in Scanning
      /\ loc[p].s \in Ips /\ loc[p].e \in Ips /\ loc[p].s..loc[p].e \subseteq Ips
      /\ Used(p) \subseteq loc[p].s..loc[p].e
  BY DEF TypeOK, Locals, ChildInv, Placed, Used
<1>2. loc[p].s \in Nat /\ loc[p].s > 0 /\ loc[p].e \in Nat
  <2>1. \A x \in Ips : x \in Nat /\ x > 0
    BY IpsAssumption DEF NoIp
  <2>2. QED
    BY <1>1, <2>1
<1>3. QED
  BY <1>1, <1>2, FreeAddressType DEF Unused

LEMMA FetchRowKeeps ==
    ASSUME SessionInv, NEW p \in Procs, Procs = {p}, FetchRow(p)
    PROVE  SessionInv'
<1> DEFINE packet == Head(lib[p].buf)
           scan == ScanRow(loc[p].scan, loc[p].s, packet.val)
<1>1. /\ phase[p] = "fetch" /\ lib[p].buf # <<>> /\ packet.kind = "row"
      /\ UNCHANGED <<held, losses, wire>>
  BY DEF FetchRow, InTurn
<1>2. TypeOK /\ ChildInv(p) /\ Awaits(p) /\ InLine(p) /\ Listening(p)
  BY <1>1 DEF SessionInv, ChildInv, InLine, Awaits
<1>3. pc[p] \in Statements /\ loc[p] \in Locals /\ pc[p] # "idle"
  BY <1>1, <1>2 DEF TypeOK, ChildInv, Placed
<1>4. /\ Rest(p) \in Handle /\ Rest(p).conn = lib[p].conn /\ Rest(p).unread
      /\ Rest(p).buf = Tail(lib[p].buf) /\ Rest(p).nr = lib[p].nr + 1
      /\ 1 \in 1..Len(Upcoming(p)) /\ Upcoming(p)[1] = packet
  BY <1>1, <1>2, NextPacket DEF Listening
<1>5. CASE /\ pc[p] \in Singles
           /\ Stay(p, "free", Rest(p))
           /\ loc' = [loc EXCEPT ![p].ip = IF pc[p] = "offer" THEN loc[p].s ELSE @]
  <2> DEFINE l == [loc[p] EXCEPT !.ip = IF pc[p] = "offer" THEN loc[p].s ELSE loc[p].ip]
  <2>1. /\ l \in Locals /\ l.s = loc[p].s /\ l.e = loc[p].e /\ l.hit = loc[p].hit
        /\ l.scanned = loc[p].scanned
        /\ l.ip = IF pc[p] = "offer" THEN loc[p].s ELSE loc[p].ip
    BY <1>2, <1>3, ScanFacts DEF Locals
  <2>2. loc' = [loc EXCEPT ![p] = l]
    BY <1>2, <1>5 DEF TypeOK
  <2> HIDE DEF l
  <2>3. l.scanned => l.ip = loc[p].ip
    <3>1. "offer" \notin AfterScan
      BY DEF AfterScan, Storing
    <3>2. QED
      BY <1>2, <2>1, <3>1 DEF ChildInv, Chose
  <2>4. pc[p] # "scan"
    BY <1>5 DEF Singles
  <2>5. QED
    BY <1>1, <1>4, <1>5, <2>1, <2>2, <2>3, <2>4, AfterRow
<1>6. CASE /\ pc[p] = "scan"
           /\ Stay(p, IF scan.more THEN "fetch" ELSE "free", Rest(p))
           /\ loc' = [loc EXCEPT ![p].scan = scan]
  <2> DEFINE k == loc[p].scan
             L == Used(p)
             l == [loc[p] EXCEPT !.scan = scan]
             ph == IF scan.more THEN "fetch" ELSE "free"
  <2>1. Enumerates(Upcoming(p), L, k.prev) /\ NoGapYet(k, L, loc[p].s)
    BY <1>1, <1>2, <1>6 DEF ChildInv, Searching
  <2>2. Successive(L, k.prev, packet.val)
    BY <1>1, <1>4, <2>1 DEF Enumerates, Before
  <2>3. /\ k \in Scanning /\ loc[p].s \in Nat /\ loc[p].s > 0 /\ loc[p].e \in Nat
        /\ L \subseteq loc[p].s..loc[p].e
    BY <1>2, <1>3, ScanFacts
  <2>4. /\ scan \in Scanning
        /\ scan.more => NoGapYet(scan, L, loc[p].s) /\ scan.prev = packet.val
        /\ ~scan.more => ScanResult(scan, loc[p].s, loc[p].e) = Unused(p)
    <3> DEFINE s == loc[p].s
               e == loc[p].e
               b == packet.val
    <3>1. /\ s \in Nat /\ e \in Nat /\ s > 0 /\ L \subseteq s..e /\ k \in Scanning
          /\ NoGapYet(k, L, s) /\ Successive(L, k.prev, b)
      BY <2>1, <2>2, <2>3
    <3> HIDE DEF s, e, b, k, L
    <3>2. GoneOn(ScanRow(k, s, b), L, s, e, b)
      <4>1. s \in Nat /\ e \in Nat /\ s > 0
        BY <3>1
      <4>2. L \subseteq s..e
        BY <3>1
      <4>3. k \in Scanning /\ NoGapYet(k, L, s)
        BY <3>1
      <4>4. Successive(L, k.prev, b)
        BY <3>1
      <4>5. QED
        BY ONLY <4>1, <4>2, <4>3, <4>4, ScanRowRight, ZenonT(60)
    <3>3. QED
      BY <3>2 DEF GoneOn, s, e, b, k, L, Unused
  <2> HIDE DEF scan
  <2>5. /\ l \in Locals /\ l.s = loc[p].s /\ l.e = loc[p].e /\ l.hit = loc[p].hit
        /\ l.scanned = loc[p].scanned /\ l.ip = loc[p].ip /\ l.scan = scan
    BY <1>3, <2>4 DEF Locals
  <2>6. loc' = [loc EXCEPT ![p] = l]
    BY <1>2, <1>6 DEF TypeOK
  <2>7. ph \in {"fetch", "free"} /\ (ph = "fetch" => scan.more) /\ (ph = "free" => ~scan.more)
    OBVIOUS
  <2>8. Stay(p, ph, Rest(p))
    BY <1>6
  <2> HIDE DEF l, ph, packet, L, k
  <2>9. /\ ph = "fetch" => NoGapYet(l.scan, Used(p), l.s) /\ l.scan.prev = Head(lib[p].buf).val
        /\ ph = "free" => ScanResult(l.scan, l.s, l.e) = Unused(p)
    BY <2>4, <2>5, <2>7 DEF L, packet
  <2>10. Enumerates(Upcoming(p), Used(p), k.prev)
    BY <2>1 DEF L
  <2>11. QED
    BY <1>1, <1>4, <2>5, <2>6, <2>7, <2>8, <2>9, <2>10, AfterRow
<1>7. CASE /\ pc[p] \in Loops \ {"scan"}
           /\ Stay(p, "fetch", Rest(p))
           /\ UNCHANGED loc
  <2>1. loc' = [loc EXCEPT ![p] = loc[p]]
    BY <1>2, <1>7 DEF TypeOK
  <2>2. pc[p] # "scan"
    BY <1>7
  <2>3. QED
    BY <1>1, <1>3, <1>4, <1>7, <2>1, <2>2, AfterRow
<1>8. QED
  BY <1>5, <1>6, <1>7 DEF FetchRow

\* The locals of p where the search ends, and what is known of them.
Ending(p, k, whole) == [Chosen(p, k) EXCEPT !.scanned = whole]

Settled(l, p, whole, ip) ==
    /\ l \in Locals
    /\ l.s = loc[p].s /\ l.e = loc[p].e /\ l.hit = loc[p].hit
    /\ l.scanned = whole /\ l.ip = ip

LEMMA EndingSettled ==
    ASSUME NEW p \in Procs, loc[p] \in Locals, NEW k, NEW whole \in BOOLEAN,
           ScanResult(k, loc[p].s, loc[p].e) \in Ips \cup {NoIp}
    PROVE  Settled(Ending(p, k, whole), p, whole, ScanResult(k, loc[p].s, loc[p].e))
<1> DEFINE r == ScanResult(k, loc[p].s, loc[p].e)
<1>1. r \in Ips \cup {NoIp}
  OBVIOUS
<1>2. Chosen(p, k) = [loc[p] EXCEPT !.ip = r, !.scanned = TRUE]
  BY DEF Chosen
<1> HIDE DEF r
<1>3. Ending(p, k, whole) = [loc[p] EXCEPT !.ip = r, !.scanned = whole]
  BY <1>2 DEF Ending, Locals
<1>4. Settled(Ending(p, k, whole), p, whole, r)
  BY <1>1, <1>3 DEF Settled, Locals
<1>5. QED
  BY <1>4 DEF r

LEMMA FetchEndKeeps ==
    ASSUME SessionInv, NEW p \in Procs, Procs = {p}, FetchEnd(p)
    PROVE  SessionInv'
<1> DEFINE packet == Head(lib[p].buf)
           whole == packet.kind = "eof"
           found == [Chosen(p, loc[p].scan) EXCEPT !.scanned = whole]
           l == IF pc[p] = "scan" THEN found ELSE loc[p]
           o == IF pc[p] \in Singles THEN "none" ELSE "done"
<1>1. /\ phase[p] = "fetch" /\ lib[p].buf # <<>> /\ packet.kind \in {"eof", "err"}
      /\ Advance(p, o, Read(p), l) /\ UNCHANGED <<held, losses, wire>>
  BY DEF FetchEnd, InTurn
<1>2. TypeOK /\ ChildInv(p) /\ Awaits(p) /\ InLine(p)
  BY <1>1 DEF SessionInv, ChildInv, Awaits
<1>3. pc[p] \in Statements /\ loc[p] \in Locals /\ pc[p] # "idle"
  BY <1>1, <1>2 DEF TypeOK, ChildInv, Placed
<1>4. /\ Rest(p) \in Handle /\ Rest(p).conn = lib[p].conn /\ Rest(p).buf = <<>>
      /\ \A c \in Conns : wire[c] = <<>>
      /\ 1 \in 1..Len(Upcoming(p)) /\ Upcoming(p)[1] = packet
  BY <1>1, <1>2, NextPacket DEF Final
<1>5. /\ Read(p) \in Handle /\ Read(p).conn = lib[p].conn /\ Read(p).buf = <<>>
      /\ ~Read(p).unread
  BY <1>4 DEF Read, Handle
<1>6. Read(p).conn \in Conns \ open => loc[p].hit
  BY <1>1, <1>2, <1>5 DEF ChildInv, Repaired
<1>7. CASE pc[p] = "scan"
  <2> DEFINE k == loc[p].scan
             L == Used(p)
             r == ScanResult(k, loc[p].s, loc[p].e)
  <2>1. Enumerates(Upcoming(p), L, k.prev) /\ NoGapYet(k, L, loc[p].s)
    BY <1>1, <1>2, <1>7 DEF ChildInv, Searching
  <2>2. /\ k \in Scanning /\ loc[p].s \in Nat /\ loc[p].s > 0 /\ loc[p].e \in Nat
        /\ loc[p].s \in Ips /\ loc[p].e \in Ips /\ loc[p].s..loc[p].e \subseteq Ips
        /\ L \subseteq loc[p].s..loc[p].e
    BY <1>2, <1>3, ScanFacts
  <2>3. r \in Ips \cup {NoIp}
    BY <2>1, <2>2, ScanBrokenOff
  <2>4. whole => r = Unused(p)
    <3>1. SUFFICES ASSUME whole PROVE r = Unused(p)
      OBVIOUS
    <3>2. \A x \in L : x <= k.prev
      BY <1>4, <2>1, <3>1 DEF Enumerates, Before
    <3>3. QED
      BY <2>1, <2>2, <3>2, ScanEndRight DEF Unused
  <2>5. whole \in BOOLEAN /\ l = Ending(p, k, whole)
    BY <1>7 DEF Ending
  <2> HIDE DEF whole, l, r, k, o
  <2>6. /\ l \in Locals /\ l.s = loc[p].s /\ l.e = loc[p].e /\ l.hit = loc[p].hit
        /\ l.scanned = whole /\ l.ip = r
    <3>1. Settled(Ending(p, k, whole), p, whole, r)
      BY <1>3, <2>3, <2>5, EndingSettled DEF r
    <3>2. QED
      BY <2>5, <3>1 DEF Settled
  <2>7. QED
    BY <1>1, <1>3, <1>4, <1>5, <1>6, <1>7, <2>4, <2>6, AfterAdvance
<1>8. CASE pc[p] # "scan"
  <2>1. l = loc[p] /\ (loc[p].scanned => pc[p] \in AfterScan /\ loc[p].ip = Unused(p))
    BY <1>2, <1>8 DEF ChildInv, Chose
  <2> HIDE DEF l, o
  <2>2. QED
    BY <1>1, <1>3, <1>4, <1>5, <1>6, <2>1, AfterAdvance
<1>9. QED
  BY <1>7, <1>8

LEMMA FreeKeeps ==
    ASSUME SessionInv, NEW p \in Procs, Procs = {p}, Free(p)
    PROVE  SessionInv'
<1> DEFINE packet == Head(lib[p].buf)
           k == loc[p].scan
           l == IF pc[p] = "scan" THEN Chosen(p, k) ELSE loc[p]
           o == IF pc[p] \in Singles THEN "row" ELSE "done"
<1>1. /\ phase[p] = "free" /\ lib[p].buf # <<>> /\ UNCHANGED <<held, losses, wire>>
      /\ IF packet.kind = "row" THEN Stay(p, "free", Rest(p)) /\ UNCHANGED loc
         ELSE Advance(p, o, Read(p), l)
  BY DEF Free, InTurn
<1>2. TypeOK /\ ChildInv(p) /\ Awaits(p) /\ InLine(p) /\ Listening(p)
  BY <1>1 DEF SessionInv, ChildInv, InLine, Awaits
<1>3. pc[p] \in Statements /\ loc[p] \in Locals /\ pc[p] # "idle"
  BY <1>1, <1>2 DEF TypeOK, ChildInv, Placed
<1>4. /\ Rest(p) \in Handle /\ Rest(p).conn = lib[p].conn /\ Rest(p).unread
      /\ Rest(p).buf = Tail(lib[p].buf) /\ Rest(p).nr = lib[p].nr + 1
      /\ packet.kind \in Kinds(phase[p], pc[p], 1)
      /\ packet.kind \in Final => Rest(p).buf = <<>> /\ \A c \in Conns : wire[c] = <<>>
  BY <1>1, <1>2, NextPacket DEF Listening
<1>5. pc[p] = "scan" => ScanResult(k, loc[p].s, loc[p].e) = Unused(p)
  BY <1>1, <1>2 DEF ChildInv, Searching
<1>6. CASE packet.kind = "row"
  <2>1. Stay(p, "free", Rest(p)) /\ loc' = [loc EXCEPT ![p] = loc[p]]
    BY <1>1, <1>2, <1>6 DEF TypeOK
  <2>2. QED
    BY <1>1, <1>3, <1>4, <1>5, <2>1, AfterRow
<1>7. CASE packet.kind # "row"
  <2>1. packet.kind \in Final
    BY <1>1, <1>4, <1>7 DEF Kinds, Final
  <2>2. /\ Read(p) \in Handle /\ Read(p).conn = lib[p].conn /\ Read(p).buf = <<>>
        /\ ~Read(p).unread
    BY <1>4, <2>1 DEF Read, Handle
  <2>3. Read(p).conn \in Conns \ open => loc[p].hit
    BY <1>1, <1>2, <2>2 DEF ChildInv, Repaired
  <2>4. Advance(p, o, Read(p), l)
    BY <1>1, <1>7
  <2>5. CASE pc[p] = "scan"
    <3>1. Unused(p) \in Ips \cup {NoIp}
      BY <1>2, <1>3, ScanFacts
    <3>2. l = Ending(p, k, TRUE)
      BY <1>3, <2>5 DEF Ending, Chosen, Locals
    <3> HIDE DEF l, k, o
    <3>3. /\ l \in Locals /\ l.s = loc[p].s /\ l.e = loc[p].e /\ l.hit = loc[p].hit
          /\ l.ip = Unused(p)
      <4>1. Settled(Ending(p, k, TRUE), p, TRUE, ScanResult(k, loc[p].s, loc[p].e))
        BY <1>3, <1>5, <2>5, <3>1, EndingSettled
      <4>2. QED
        BY <1>5, <2>5, <3>2, <4>1 DEF Settled
    <3>4. QED
      BY <1>1, <1>3, <1>4, <2>1, <2>2, <2>3, <2>4, <2>5, <3>3, AfterAdvance
  <2>6. CASE pc[p] # "scan"
    <3>1. l = loc[p] /\ (loc[p].scanned => pc[p] \in AfterScan /\ loc[p].ip = Unused(p))
      BY <1>2, <2>6 DEF ChildInv, Chose
    <3> HIDE DEF l, o
    <3>2. QED
      BY <1>1, <1>3, <1>4, <2>1, <2>2, <2>3, <2>4, <3>1, AfterAdvance
  <2>7. QED
    BY <2>5, <2>6
<1>8. QED
  BY <1>6, <1>7

LEMMA BrokenKeeps ==
    ASSUME SessionInv, NEW p \in Procs, Procs = {p}, Broken(p)
    PROVE  SessionInv'
<1> DEFINE h == [lib[p] EXCEPT !.conn = Closed, !.buf = <<>>, !.unread = FALSE]
           o == IF phase[p] = "free" /\ pc[p] \in Singles THEN "row"
                ELSE IF pc[p] \in Singles THEN "none" ELSE "done"
           k == loc[p].scan
           whole == phase[p] = "free"
           l == IF pc[p] = "scan" THEN [Chosen(p, k) EXCEPT !.scanned = whole] ELSE loc[p]
<1>1. /\ Awaits(p) /\ UNCHANGED <<held, losses, wire>>
      /\ \/ lib[p].buf = <<>> /\ (lib[p].conn # Closed => wire[lib[p].conn] = <<>>)
         \/ lib[p].buf # <<>> /\ ~InTurn(p)
      /\ \/ phase[p] = "pong" /\ Stay(p, "query", h) /\ UNCHANGED loc
         \/ phase[p] = "answer" /\ Advance(p, "fail", h, loc[p])
         \/ phase[p] \in {"fetch", "free"} /\ Advance(p, o, h, l)
  BY DEF Broken
<1>2. TypeOK /\ ChildInv(p) /\ InLine(p) /\ Listening(p)
  BY <1>1 DEF SessionInv, ChildInv, InLine
<1>3. pc[p] \in Statements /\ loc[p] \in Locals /\ pc[p] # "idle" /\ lib[p] \in Handle
  BY <1>1, <1>2 DEF TypeOK, ChildInv, Placed, Awaits
<1>4. \A c \in Conns : wire[c] = <<>>
  <2>1. lib[p].buf = <<>> /\ (lib[p].conn # Closed => wire[lib[p].conn] = <<>>)
    BY <1>1, <1>2, NextPacket
  <2>2. lib[p].conn \in Conns /\ lib[p].conn # Closed
    BY <1>2, ConnsAssumption DEF Listening
  <2>3. QED
    BY <1>2, <2>1, <2>2 DEF Listening
<1>5. h \in Handle /\ h.conn \notin Conns /\ h.buf = <<>> /\ ~h.unread
  <2>1. <<>> \in Seq(Packet)
    OBVIOUS
  <2>2. QED
    BY <1>3, <2>1, ConnsAssumption DEF Handle
<1>6. loc[p].scanned => pc[p] \in AfterScan /\ loc[p].ip = Unused(p)
  BY <1>2 DEF ChildInv, Chose
<1>7. CASE phase[p] = "pong" /\ Stay(p, "query", h) /\ UNCHANGED loc
  <2> HIDE DEF h
  <2>1. QED
    BY <1>1, <1>4, <1>5, <1>7, AfterPing
<1>8. CASE phase[p] = "answer" /\ Advance(p, "fail", h, loc[p])
  <2> HIDE DEF h
  <2>1. QED
    BY <1>1, <1>3, <1>4, <1>5, <1>6, <1>8, AfterAdvance
<1>9. CASE phase[p] \in {"fetch", "free"} /\ Advance(p, o, h, l)
  <2> HIDE DEF h
  <2>1. CASE pc[p] = "scan"
    <3> DEFINE r == ScanResult(k, loc[p].s, loc[p].e)
    <3>1. /\ k \in Scanning
          /\ loc[p].s \in Ips /\ loc[p].e \in Ips /\ loc[p].s..loc[p].e \subseteq Ips
          /\ Used(p) \subseteq loc[p].s..loc[p].e /\ Unused(p) \in Ips \cup {NoIp}
      BY <1>2, <1>3, ScanFacts
    <3>2. whole => r = Unused(p)
      BY <1>2, <2>1 DEF ChildInv, Searching
    <3>3. r \in Ips \cup {NoIp}
      <4>1. CASE phase[p] = "fetch"
        <5>1. NoGapYet(k, Used(p), loc[p].s)
          BY <1>2, <2>1, <4>1 DEF ChildInv, Searching
        <5>2. QED
          BY <3>1, <5>1, ScanBrokenOff
      <4>2. CASE phase[p] = "free"
        BY <3>1, <3>2, <4>2
      <4>3. QED
        BY <1>9, <4>1, <4>2
    <3>4. whole \in BOOLEAN /\ l = Ending(p, k, whole)
      BY <2>1 DEF Ending
    <3> HIDE DEF whole, l, r, k, o
    <3>5. /\ l \in Locals /\ l.s = loc[p].s /\ l.e = loc[p].e /\ l.hit = loc[p].hit
          /\ l.scanned = whole /\ l.ip = r
      <4>1. Settled(Ending(p, k, whole), p, whole, r)
        BY <1>3, <3>3, <3>4, EndingSettled DEF r
      <4>2. QED
        BY <3>4, <4>1 DEF Settled
    <3>6. QED
      BY <1>1, <1>3, <1>4, <1>5, <1>9, <2>1, <3>2, <3>5, AfterAdvance
  <2>2. CASE pc[p] # "scan"
    <3>1. l = loc[p]
      BY <2>2
    <3> HIDE DEF l, o
    <3>2. QED
      BY <1>1, <1>3, <1>4, <1>5, <1>6, <1>9, <3>1, AfterAdvance
  <2>3. QED
    BY <2>1, <2>2
<1>10. QED
  BY <1>1, <1>7, <1>8, <1>9

LEMMA AbortKeeps ==
    ASSUME SessionInv, NEW p \in Procs, Procs = {p}, Abort(p)
    PROVE  SessionInv'
<1>1. /\ phase[p] = "query" /\ TypeOK /\ ChildInv(p)
      /\ held' = held /\ losses' = losses /\ wire' = wire
      /\ pc' = [pc EXCEPT ![p] = "idle"] /\ phase' = [phase EXCEPT ![p] = "none"]
      /\ lib' = [lib EXCEPT ![p] = NewHandle] /\ loc' = [loc EXCEPT ![p] = NoLocals]
      /\ open' = open \ {p}
  BY DEF Abort, Die, SessionInv
<1>2. Quiet(p)
  BY <1>1 DEF ChildInv, InLine, Awaits
<1>3. pc'[p] = "idle" /\ phase'[p] = "none" /\ lib'[p] = NewHandle /\ loc'[p] = NoLocals
  BY <1>1 DEF TypeOK
<1>4. TypeOK'
  BY <1>1, NewTypes DEF TypeOK
<1>5. Quiet(p)' /\ ~Awaits(p)'
  BY <1>1, <1>2, <1>3 DEF Quiet, Awaits, NewHandle
<1>6. Repaired(p)' /\ Searching(p)' /\ Chose(p)' /\ Placed(p)'
  BY <1>3 DEF Repaired, Searching, Chose, Placed, NoLocals
<1>7. QED
  BY <1>4, <1>5, <1>6 DEF SessionInv, ChildInv, InLine

\* What is lost is the end of what was under way.
LEMMA LoseKeeps ==
    ASSUME SessionInv, NEW p \in Procs, Procs = {p}, Lose
    PROVE  SessionInv'
<1>1. /\ losses < MaxLosses /\ losses' = losses + 1 /\ open' = {}
      /\ loc' = [q \in Procs |-> [loc[q] EXCEPT !.hit = pc[q] # "idle"]]
      /\ held' = held /\ pc' = pc /\ phase' = phase /\ lib' = lib
      /\ TypeOK /\ ChildInv(p)
  BY DEF Lose, SessionInv
<1>2. PICK kept \in [Conns -> 0..(MaxRows + Cardinality(Ips) + 2)] :
        /\ \A c \in Conns : kept[c] <= Len(wire[c])
        /\ wire' = [c \in Conns |-> SubSeq(wire[c], 1, kept[c])]
  BY DEF Lose
<1>3. ASSUME NEW c \in Conns
      PROVE  /\ kept[c] \in Nat /\ kept[c] <= Len(wire[c]) /\ wire[c] \in Seq(Packet)
             /\ wire'[c] = SubSeq(wire[c], 1, kept[c]) /\ wire'[c] \in Seq(Packet)
  <2>1. kept[c] \in Nat /\ kept[c] <= Len(wire[c]) /\ wire[c] \in Seq(Packet)
        /\ wire'[c] = SubSeq(wire[c], 1, kept[c])
    BY <1>1, <1>2 DEF TypeOK
  <2>2. <<>> \in Seq(Packet)
    OBVIOUS
  <2>3. SubSeq(wire[c], 1, kept[c]) \in Seq(Packet)
    BY <2>1, <2>2, ConcatOfPart
  <2>4. QED
    BY <2>1, <2>3
<1>4. ASSUME NEW c \in Conns, wire[c] = <<>> PROVE wire'[c] = <<>>
  <2>1. Len(<<>>) = 0
    OBVIOUS
  <2>2. kept[c] = 0
    BY <1>3, <1>4, <2>1
  <2>3. SubSeq(wire[c], 1, 0) = <<>>
    BY SubSeqEmpty
  <2>4. QED
    BY <1>3, <2>2, <2>3
<1>5. losses' \in 0..MaxLosses
  BY <1>1, BoundsAssumption DEF TypeOK
<1>6. wire' \in [Conns -> Seq(Packet)]
  BY <1>2, <1>3
<1>7. loc[p] \in Locals /\ loc'[p] = [loc[p] EXCEPT !.hit = pc[p] # "idle"]
  BY <1>1 DEF TypeOK
<1>8. /\ loc'[p] \in Locals
      /\ loc'[p].s = loc[p].s /\ loc'[p].e = loc[p].e /\ loc'[p].scan = loc[p].scan
      /\ loc'[p].scanned = loc[p].scanned /\ loc'[p].ip = loc[p].ip
      /\ pc[p] # "idle" => loc'[p].hit
  BY <1>7 DEF Locals
<1>9. TypeOK'
  <2>1. loc' \in [Procs -> Locals]
    BY <1>1, <1>8
  <2>2. QED
    BY <1>1, <1>5, <1>6, <2>1 DEF TypeOK
<1>10. /\ ThisCall(p)' = ThisCall(p)
       /\ Awaits(p)' <=> Awaits(p)
       /\ Used(p)' = Used(p) /\ Unused(p)' = Unused(p)
  BY <1>1, <1>8 DEF ThisCall, Awaits, Used, Unused
<1>11. ASSUME Listening(p)
       PROVE  /\ Fits(Upcoming(p)', ThisCall(p), lib[p].nr, phase[p], pc[p])
              /\ \A L, a : Enumerates(Upcoming(p), L, a) => Enumerates(Upcoming(p)', L, a)
  <2> DEFINE b == lib[p].buf
             w == wire[lib[p].conn]
             n == kept[lib[p].conn]
             P == b \o w
             Q == b \o SubSeq(w, 1, n)
  <2>1. /\ b \in Seq(Packet) /\ w \in Seq(Packet) /\ n \in Nat /\ n <= Len(w)
        /\ lib[p].nr \in Nat
        /\ Upcoming(p) = P /\ Upcoming(p)' = Q
    BY <1>1, <1>3, <1>11 DEF TypeOK, Handle, Listening, Upcoming
  <2>2. Fits(P, ThisCall(p), lib[p].nr, phase[p], pc[p])
    BY <1>11, <2>1 DEF Listening
  <2> HIDE DEF b, w, n
  <2>3. /\ P \in Seq(Packet) /\ Q \in Seq(Packet) /\ Len(Q) <= Len(P)
        /\ \A k \in 1..Len(Q) : Q[k] = P[k]
    BY <2>1, ConcatElements, ConcatOfPart
  <2> HIDE DEF P, Q
  <2>4. /\ \A call, ph, s : \A nr \in Nat : Fits(P, call, nr, ph, s) => Fits(Q, call, nr, ph, s)
        /\ \A L, a : Enumerates(P, L, a) => Enumerates(Q, L, a)
    BY <2>3, FitsPart
  <2>5. Fits(Q, ThisCall(p), lib[p].nr, phase[p], pc[p])
    BY <2>1, <2>2, <2>4
  <2>6. QED
    BY <2>1, <2>4, <2>5
<1>12. InLine(p)'
  <2>1. CASE Awaits(p)
    <3>1. Listening(p)
      BY <1>1, <2>1 DEF ChildInv, InLine
    <3>2. Fits(Upcoming(p), ThisCall(p), lib[p].nr, phase[p], pc[p])'
      BY <1>1, <1>10, <1>11, <3>1
    <3>3. Listening(p)'
      BY <1>1, <1>4, <3>1, <3>2 DEF Listening
    <3>4. QED
      BY <1>10, <2>1, <3>3 DEF InLine
  <2>2. CASE ~Awaits(p)
    BY <1>1, <1>4, <1>10, <2>2 DEF ChildInv, InLine, Quiet
  <2>3. QED
    BY <2>1, <2>2
<1>13. Repaired(p)'
  BY <1>1, <1>8 DEF ChildInv, Placed, Repaired
<1>14. Searching(p)'
  <2>1. CASE pc[p] = "scan" /\ phase[p] \in {"answer", "fetch", "free"}
    <3>1. Listening(p)
      BY <1>1, <2>1 DEF ChildInv, InLine, Awaits
    <3>2. \A L, a : Enumerates(Upcoming(p), L, a) => Enumerates(Upcoming(p)', L, a)
      BY <1>11, <3>1
    <3>3. QED
      BY <1>1, <1>8, <1>10, <3>2 DEF ChildInv, Searching
  <2>2. CASE ~(pc[p] = "scan" /\ phase[p] \in {"answer", "fetch", "free"})
    BY <1>1, <2>2 DEF Searching
  <2>3. QED
    BY <2>1, <2>2
<1>15. Chose(p)' /\ Placed(p)'
  BY <1>1, <1>8, <1>10 DEF ChildInv, Chose, Placed
<1>16. QED
  BY <1>9, <1>12, <1>13, <1>14, <1>15 DEF SessionInv, ChildInv

-------------------------------------------------------------------------------
(* The theorems                                                                *)

LEMMA SessionInvInit == Init => SessionInv
<1> SUFFICES ASSUME Init PROVE SessionInv
  OBVIOUS
<1>1. TypeOK
  <2>1. <<>> \in Seq(Packet)
    OBVIOUS
  <2>2. QED
    BY <2>1, NewTypes, BoundsAssumption DEF Init, TypeOK, Conns
<1>2. ASSUME NEW p \in Procs PROVE ChildInv(p)
  <2>1. /\ pc[p] = "idle" /\ phase[p] = "none" /\ lib[p] = NewHandle /\ loc[p] = NoLocals
        /\ \A c \in Conns : wire[c] = <<>>
    BY DEF Init
  <2>2. Quiet(p) /\ ~Awaits(p)
    BY <2>1 DEF Quiet, Awaits, NewHandle
  <2>3. Repaired(p) /\ Searching(p) /\ Chose(p) /\ Placed(p)
    BY <2>1 DEF Repaired, Searching, Chose, Placed, NoLocals
  <2>4. QED
    BY <2>2, <2>3 DEF ChildInv, InLine
<1>3. QED
  BY <1>1, <1>2 DEF SessionInv

LEMMA SessionInvStep ==
    ASSUME Procs # {}, \A p, q \in Procs : p = q, SessionInv, [Next]_vars
    PROVE  SessionInv'
<1>1. CASE UNCHANGED vars
  BY <1>1 DEF vars, SessionInv, TypeOK, ChildInv, InLine, Awaits, Listening, Quiet,
     Upcoming, ThisCall, Repaired, Searching, Used, Unused, Chose, Placed
<1>2. ASSUME NEW p \in Procs, Fork(p) \/ Step(p) PROVE SessionInv'
  <2>1. Procs = {p}
    OBVIOUS
  <2>2. QED
    BY <1>2, <2>1, ForkKeeps, CallKeeps, ReconnectKeeps, ReceiveKeeps, PongKeeps,
       AnswerKeeps, FetchRowKeeps, FetchEndKeeps, FreeKeeps, BrokenKeeps, AbortKeeps
    DEF Step
<1>3. CASE Lose
  <2>1. PICK p \in Procs : Procs = {p}
    OBVIOUS
  <2>2. QED
    BY <1>3, <2>1, LoseKeeps
<1>4. QED
  BY <1>1, <1>2, <1>3 DEF Next

LEMMA SessionInvAlways ==
    ASSUME Procs # {}, \A p, q \in Procs : p = q
    PROVE  Spec => []SessionInv
<1>1. SessionInv /\ [Next]_vars => SessionInv'
  BY SessionInvStep
<1>2. QED
  BY <1>1, SessionInvInit, PTL DEF Spec

\* While children do not overlap, the variables keep their types: above all, the
\* address that the end of a search hands to store_offer is one of the list or none.
THEOREM SessionTypes ==
    ASSUME Procs # {}, \A p, q \in Procs : p = q
    PROVE  Spec => []TypeOK
<1>1. SessionInv => TypeOK
  BY DEF SessionInv
<1>2. QED
  BY <1>1, SessionInvAlways, PTL

\* While children do not overlap, a command is sent, and a child ends, only with
\* nothing unread.
THEOREM AnswersReadToTheEnd ==
    ASSUME Procs # {}, \A p, q \in Procs : p = q
    PROVE  Spec => []InSync
<1>1. SessionInv => InSync
  <2>1. SUFFICES ASSUME SessionInv, NEW p \in Procs, phase[p] \in {"none", "ping", "query"}
                 PROVE  /\ ~lib[p].unread /\ lib[p].buf = <<>>
                        /\ lib[p].conn # Closed => wire[lib[p].conn] = <<>>
    BY DEF InSync
  <2>2. Quiet(p) /\ lib[p] \in Handle
    BY <2>1 DEF SessionInv, TypeOK, ChildInv, InLine, Awaits
  <2>3. QED
    BY <2>2 DEF Quiet, Handle
<1>2. QED
  BY <1>1, SessionInvAlways, PTL

\* While children do not overlap, what a child reads is the answer to the call it
\* has made.
THEOREM RepliesAreOwn ==
    ASSUME Procs # {}, \A p, q \in Procs : p = q
    PROVE  Spec => []OwnReply
<1>1. SessionInv => OwnReply
  BY NextPacket DEF SessionInv, ChildInv, OwnReply
<1>2. QED
  BY <1>1, SessionInvAlways, PTL

\* While children do not overlap, no statement is written to a connection that was
\* closed before the child started.
THEOREM PingRepairs ==
    ASSUME Procs # {}, \A p, q \in Procs : p = q
    PROVE  Spec => []LossRepaired
<1>1. SessionInv => LossRepaired
  <2>1. SUFFICES ASSUME SessionInv, NEW p \in Procs,
                        phase[p] \in {"answer", "fetch", "free"}, lib[p].conn \notin open
                 PROVE  loc[p].hit
    BY DEF LossRepaired
  <2>2. Listening(p) /\ Repaired(p)
    BY <2>1 DEF SessionInv, ChildInv, InLine, Awaits
  <2>3. QED
    BY <2>1, <2>2 DEF Listening, Repaired
<1>2. QED
  BY <1>1, SessionInvAlways, PTL

\* While children do not overlap, the loop of dhcpv4_db_offer_dyn_ip, row by row,
\* chooses the address that FreeAddress says.
THEOREM ScanChoosesFree ==
    ASSUME Procs # {}, \A p, q \in Procs : p = q
    PROVE  Spec => []ScanRight
<1>1. SessionInv => ScanRight
  BY DEF SessionInv, ChildInv, Chose, ScanRight, Unused, Used
<1>2. QED
  BY <1>1, SessionInvAlways, PTL
===============================================================================
