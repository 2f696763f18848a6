----------------------------- MODULE LeaseService -----------------------------
(* What the lease server promises, without children, statements or routes.     *)
(*                                                                             *)
(* There is one book of leases.  An interface that asks for an address gets a   *)
(* free one, or has its own replaced; one that accepts an offer has it          *)
(* confirmed.  Nobody else's lease is touched: a lease ends because its         *)
(* interface asks again, or because it is dynamic and its time is over.  The    *)
(* exception is a server that could not read the book to its end: it is blind,   *)
(* and may give up the lease of anybody for the interface that asks.            *)
EXTENDS Integers

CONSTANTS
    Ips,      \* the addresses
    Ifaces,   \* the interfaces
    Macs,     \* hardware addresses
    Free      \* "this address is not leased"

VARIABLES
    book,       \* per address, its lease or Free
    clock,      \* the time, in seconds
    asking,     \* the interfaces whose DISCOVER is being served
    accepting,  \* the interfaces whose REQUEST is being served
    blind       \* the interfaces that ask and for which the book was not read to its end

state == <<book, clock, asking, accepting, blind>>

Lease == [iface: Ifaces, mac: Macs, confirmed: BOOLEAN, static: BOOLEAN, till: Int]

Books == [Ips -> Lease \cup {Free}]

Held == {ip \in Ips : book[ip] # Free}

\* The step changes nothing but the entry of one address.
Rewrites(ip) ==
    /\ book' \in Books
    /\ \A q \in Ips \ {ip} : book'[q] = book[q]
    /\ clock' = clock

\* The entry made for an address does not take a hardware address from another.
MacUnique(ip) == \A q \in Held \ {ip} : book[q].mac # book'[ip].mac

-------------------------------------------------------------------------------

\* A free address is offered to an interface that asks.
Offer(ip) ==
    /\ book[ip] = Free
    /\ Rewrites(ip)
    /\ book'[ip] # Free
    /\ book'[ip].iface \in asking
    /\ ~book'[ip].confirmed
    /\ MacUnique(ip)

\* An interface that asks gives up an address it has, or a blind server gives up
\* the address of another for it.
Withdraw(ip) ==
    /\ ip \in Held
    /\ book[ip].iface \in asking \/ blind # {}
    /\ Rewrites(ip)
    /\ book'[ip] = Free

\* An interface that accepts has its lease confirmed and its time set anew.
Confirm(ip) ==
    /\ ip \in Held
    /\ book[ip].iface \in accepting
    /\ Rewrites(ip)
    /\ book'[ip] # Free
    /\ book'[ip] = [book[ip] EXCEPT !.confirmed = TRUE,
                                    !.mac = book'[ip].mac, !.till = book'[ip].till]
    /\ MacUnique(ip)

\* Dynamic leases whose time is over end, any number of them at once.
Expire ==
    /\ book' \in Books
    /\ \A ip \in Ips : book'[ip] # book[ip] =>
        /\ book'[ip] = Free
        /\ ~book[ip].static
        /\ book[ip].till < clock
    /\ clock' = clock

Tick == clock' = clock + 1 /\ book' = book

\* Who is being served is up to the interfaces.
Served ==
    /\ asking' \in SUBSET Ifaces
    /\ accepting' \in SUBSET Ifaces
    /\ blind' \in SUBSET asking'

-------------------------------------------------------------------------------

Init ==
    /\ book = [ip \in Ips |-> Free]
    /\ clock = 0
    /\ asking = {}
    /\ accepting = {}
    /\ blind = {}

Next ==
    /\ \/ \E ip \in Ips : Offer(ip) \/ Withdraw(ip) \/ Confirm(ip)
       \/ Expire
       \/ Tick
    /\ Served

Spec == Init /\ [][Next]_state
===============================================================================
