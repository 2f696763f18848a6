------------------------------ MODULE RouteTable ------------------------------
(* The host routes the daemon installs and the kernel's side of RTM_NEWROUTE   *)
(* and RTM_DELROUTE as dhcp_route.c uses them.  For one destination the kernel  *)
(* keeps a list of routes that differ in their device; the first one carries   *)
(* the traffic.  The daemon never reads the kernel's answer, so a refused      *)
(* request is a request without effect.                                        *)
EXTENDS Sequences, Integers

Devices(rs) == {rs[k] : k \in DOMAIN rs}

\* dhcp_rtv4_add: NLM_F_CREATE without NLM_F_REPLACE, NLM_F_EXCL or
\* NLM_F_APPEND: an identical route is refused, a route to another device goes
\* in front of those that are there.
RouteAdd(rs, dev) == IF dev \in Devices(rs) THEN rs ELSE <<dev>> \o rs

\* dhcp_rtv4_delete: the request names the destination and no device, so the
\* kernel removes the first route of the list, whatever its device.
RouteDelete(rs) == IF rs = <<>> THEN rs ELSE Tail(rs)
===============================================================================
