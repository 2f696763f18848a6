-------------------------------- MODULE IpScan --------------------------------
(* The loop of dhcpv4_db_offer_dyn_ip, row by row.  LeaseTable!DynIp says what  *)
(* it finds; this is how it looks for it, with store_prev and free_ip.         *)
EXTENDS LeaseTable

Scanning == [prev: Nat, free: Nat, more: BOOLEAN]

ScanStart == [prev |-> 0, free |-> 0, more |-> TRUE]

MutantScanRow(k, s, current) ==
    IF k.prev = 0 \/ current - k.prev = 1
    THEN [k EXCEPT !.prev = current]
    ELSE [k EXCEPT !.free = current - 1, !.more = FALSE]

\* One turn of the loop; ~more after a break.
ScanRow(k, s, current) ==
    IF k.prev = 0 /\ current > s THEN [k EXCEPT !.more = FALSE]
    ELSE IF k.prev = 0 \/ current - k.prev = 1 THEN [k EXCEPT !.prev = current]
    ELSE [k EXCEPT !.free = current - 1, !.more = FALSE]

MutantScanResult(k, s, e) ==
    LET unless0(x, y) == IF x = 0 THEN y ELSE x
    IN  unless0(IF k.prev = 0 THEN s ELSE k.free, k.prev + 1)

\* What follows the loop, for the list s..e.
ScanResult(k, s, e) ==
    LET unless0(x, y) == IF x = 0 THEN y ELSE x
        found == unless0(IF k.prev = 0 THEN s ELSE k.free, k.prev + 1)
    IN  IF found > e THEN NoIp ELSE found
===============================================================================
