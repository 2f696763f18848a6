----------------------------- MODULE LeaseHistory -----------------------------
(* LeaseServer with a history variable: the interfaces for which the look-up of  *)
(* their own address ever broke off.  What this leaves in the table stays there, *)
(* so a property of the table has to know of it.                                 *)
EXTENDS LeaseServer

VARIABLE misled    \* the interfaces that once looked as if they held no address

HVars == <<vars, misled>>

HInit == Init /\ misled = {}

HNext ==
    /\ Next
    /\ misled' = misled \cup {dg'[p].iface : p \in {q \in Procs : pc'[q] = "scan" /\ loc'[q].cut}}

HSpec == HInit /\ [][HNext]_HVars

-------------------------------------------------------------------------------

\* While children do not overlap and the list of an interface does not change, an
\* interface has one row, unless the look-up of its own address once broke off: failing
\* queries, restarts, scans that broke off, and what the look-ups of other interfaces
\* went wrong with, never give it a second one.  request_ip needs this: its update names
\* the interface alone, and fails on the unique chaddr as soon as there are two rows.
OneLeasePerIface ==
    \A ip, q \in Leased(leases) :
        leases[ip].iface = leases[q].iface /\ leases[ip].iface \notin misled => ip = q
===============================================================================
