# Verification of moonDHCPd

moonDHCPd is a DHCP server for access networks in which an *interface* of an
access server (NAS) stands for a subscriber.  Leases live in a MySQL table that
several servers may share, and a confirmed lease can carry a host route into the
subscriber's interface.  This directory models the server in TLA+, checks the
models with TLC and proves the main results with TLAPS.

## The system

| Component | State | Operations |
|---|---|---|
| Lease database access (`dhcp_db.c`, `sql/structure.sql`) | table `leases` (unique address, unique chaddr); read-only here: `interfaces`, `iplists`, `options_template_data` | `dhcpv4_discover_ip`, `dhcpv4_request_ip`, `offer_ip`, `offer_dyn_ip`, `store_offer`, `clear_leases`, `db_options` |
| Route manager (`dhcp_route.c`) | the kernel's routes; one netlink socket | `dhcp_rtv4_add`, `dhcp_rtv4_delete` |
| Message processing (`mydhcp.c` 722-881) | none beyond a request | `dhcpv4_process_discover`, `dhcpv4_process_request` |
| Packet and option codec (`mydhcp.c` 1-720) | an option list per request | parse, find, add, encode |
| Listener (`listener.c`) | the UDP socket | receive, fork a child, dispatch, send |
| Startup (`main.c`) | configuration, database connection | read configuration, connect, clear expired leases, listen |
| Web interface (`web-control/`) | the tables of the configuration | add, edit and delete masks, lists and option templates |
| Logging, address printing | none | output |

**How they interact.** The listener forks a child for each datagram and does not
wait for it; the child parses the datagram, runs `process_discover` or
`process_request`, sends the answer and ends.  Children of one server, several
servers, and the web interface meet only in the database and, for one server, in
the kernel's routing table.  There are no transactions and no locks (the tables
are MyISAM): what is atomic is one SQL statement or one netlink request.

**What is hard here.**

- *Interleaving.*  Every handler reads, decides and writes in separate
  statements: clear = select, remove routes, delete; DISCOVER = look for a held
  address, scan for a free one, delete, insert; REQUEST = select, read the
  template, update, remove and add a route.
- *Failure between steps.*  Any query can fail and each caller takes it
  differently; an answer that breaks off looks to `mysql_fetch_row` like its end;
  the insert of `store_offer` can be refused after its delete; a machine can restart
  anywhere, losing processes and routes but not the table.
- *Order of messages.*  Datagrams are lost, repeated and late, and nothing ties
  a REQUEST to an OFFER but the row in the table.
- *Time.*  Offers and dynamic leases expire by the clock of whoever clears.
- *Shared tables.*  A server clears its own rows only but scans everybody's.
- *The route table as a second copy.*  It is only ever written, each request
  names the address alone or the address and a device, and answers are not read.

**What makes it correct.**

- Database access: an address is leased to one interface at a time and stays
  with it while the lease is live (for ever when static); addresses come from the
  list of the interface; an interface has one row, which `request_ip` relies on;
  clearing never takes a live lease; answers say what the table says.
- Routes: a route exists for, and leads to, the interface that holds the address.
- Codec: what is encoded fits the buffer and decodes to the same list; the
  address and times a client is told are those that were stored.
- Listener: one child per datagram, an answer per served request.
- Web interface: no list or template that is in use disappears.

## Modules

| Module | Models | Status |
|---|---|---|
| `LeaseTable` | the table `leases` and every statement on it, as operators | done |
| `RouteTable` | what the kernel does with the two netlink requests | done |
| `LeaseServer` | the daemon: children, servers, clock, faults; composes the two above | done |
| `LeaseHistory` | `LeaseServer` with the interfaces whose own look-up ever broke off | done |
| `MCLeaseServer`, `MCLeaseHistory` | instances for TLC: datagrams, lists, templates | done |
| `Messages` | one child from datagram to answer: filters, parser, dispatch, option list, encoder | done |
| `MCMessages` | instances for TLC: datagrams, option lists, sizes | done |
| `LeaseService` | abstract: one book of leases, and who may change what in it; implemented by the serial `LeaseServer` | done |
| `IpScan` | the loop of `offer_dyn_ip`, row by row | done |
| `DbSession`, `MCDbSession` | commands, rows and connections under the statements; uses `IpScan` | done |
| `DhcpNetwork`, `MCDhcpNetwork` | clients and a lossy network around `LeaseServer` | done |
| `WebControl`, `MCWebControl` | the requests of the web interface | done |
| `LeaseServerProofs`, `SerialProofs` | theorems about `LeaseServer`: any children, and one child at a time | done |
| `DhcpNetworkProofs`, `DbSessionProofs`, `MessagesProofs`, `WebControlProofs` | theorems about the module of that name | done |
| `LeaseTableProofs`, `NumberLemmas` | the scan, and facts about sets of numbers the others need | done |

`LeaseTable` and `RouteTable` are the data under `LeaseServer`; `DhcpNetwork`
extends `LeaseServer` by those who talk to it, `DbSession` looks below it at one of
its steps, `Messages` inside two of them, and `LeaseService` is what it looks like
from outside.

Every invariant and every action property that a passing run checks is also the
statement of a theorem (see Proofs); the three liveness properties are TLC's alone.

### LeaseTable and RouteTable

`leases` is a function from addresses to rows, so the unique address holds by
construction, while the unique `chaddr` is a guard (`CanInsert`, `Confirm`).
Each operator carries the `where` clause it stands for.  Two things deserve a
remark.  `Confirm` is the UPDATE of `request_ip`: its condition names the
interface and not the address, so it rewrites every row of the interface, and
with MyISAM a refused second row leaves the first one changed; the operator
returns the set of outcomes.  `DynIp` is what the loop of `offer_dyn_ip`
computes, written by what it finds (end of the first run of leased addresses,
next leased address) instead of by its counters.

`RouteTable` describes the kernel for the flags the daemon uses: `NLM_F_CREATE`
alone puts a route in front of the others of the same destination and refuses a
duplicate; a delete without a device removes the first one.

Definitions named `Mutant...` in these modules are wrong on purpose.  Each is
the following definition with a plausible slip; the project's checks put it in
the place of the right one and expect the named property to fail, which shows
that the property is able to.

### LeaseServer

`pc[p]` is the statement child `p` runs next, `dg[p]` its datagram, `loc[p]` the
locals that matter: the address, the clock read by `clear_leases` and the rows
its select returned, the configuration row, the time to store, `istatic` and
`routed`, and the type and lease time of the answer.

| Code | Labels and actions |
|---|---|
| `listener`, fork and dispatch | `Fork` |
| `discover_ip`, configuration query | `conf`: `ReadConf` |
| `clear_leases` | `clrSelect`, `clrRoutes`: `ClearSelect`, `ClearRoute`, `ClearDelete` |
| `offer_ip`, `offer_dyn_ip` | `offer`, `scan`: `OfferHeld`, `Scan` |
| `store_offer` | `storeDelete`, `storeInsert`: `StoreDelete`, `StoreInsert` |
| `request_ip` | `find`, `lease`, `update`, `rtDelete`, `rtAdd`: `Find`, `ReadLease`, `Update`, `RequestRouteDelete`, `RequestRouteAdd` |
| `db_options` for the answer, send | `opts`, `send`: `ReadOptions`, `Send` |
| a query returns an error, at each place | `QueryFails` |
| a query succeeds and its answer breaks off, at each place; in the scan | `AnswerBreaks`; `ScanBreaks` |
| `main` up to `listener` | `Boot`, then the labels of `clear_leases` |
| clock, web interface, kill, restart of a machine | `Tick`, `Reconfigure`, `Stop`, `Reboot` |

When an answer breaks off, `mysql_fetch_row` returns NULL as it does after the last
row, nobody asks `mysql_errno`, and the rows seen so far are taken for all.  Most of
the time this is one more way to refuse a client or to clear less.  In a DISCOVER it is
more, with one child already: a look-up that breaks off (`dhcp_db.c:274`) says that the
interface holds no address, so that it gets a second row; a scan that breaks off
(`dhcp_db.c:316`) finds the first address it did not see free, and `store_offer` deletes
the row of that address, be it a live lease of another interface.  `loc[p].cut` marks the
child to which this happened, so that the properties can say what else stays true:
`OwnerKeepsAddress` and `ServesLeases` except that one DISCOVER and hold again for the
next, whatever rows it left.  A second row stays, so `OneLeasePerIface` has to remember:
`LeaseHistory` keeps in `misled` the interfaces whose own look-up ever broke off, and
excepts those alone.

The datagrams are left open: any member of `Datagrams` can arrive at any time and
any number of times, which covers loss, repetition and delay, and clients that
request what they were never offered.

Abstractions: addresses are small numbers; `leases_log` and the columns nobody
reads are left out; the two queries of `db_options` are one step (nothing the
daemon does changes a template, and the row's template is fixed once read); a
child of `Boot` stands for the daemon's own first call of `clear_leases`; filters
of the listener that end a child without a trace are left out.  A statement is
atomic, which is what MyISAM gives to statements on separate connections.
Children of the *same* server share one connection, which is worse; that is the
subject of `DbSession`.

The lease time of a template is a 32-bit number which `nhgetl` (`mydhcp.c:39`)
widens with its sign; `Signed` does the same for words of `Word` values, so that an
infinite lease time becomes -1, an expiry in the past.

### LeaseService

The abstract specification knows a book of leases, a clock, and the interfaces that
are being served.  A lease can be offered to an interface that asks, from an address
nobody holds, withdrawn while its own interface asks again, confirmed while its own
interface accepts, or expire; nothing else happens to it.  `ServesLeases` maps the
table to the book (interface, hardware address, state, static, time), a child at
`storeDelete` or `storeInsert` to an interface that asks, and one at `update` to an
interface that accepts.  An interface whose DISCOVER read an answer that broke off is
`blind` as well until its delete, and for it the lease of another may be withdrawn.
A statement of the daemon is then one step of the service or a stutter: the selects, the
routes and the answers are invisible, and so are a reboot and a failing query.  What makes this more than a restatement is that the
daemon's guards are elsewhere: that the address of a DELETE is its own interface's
or free was decided two statements earlier, and that the UPDATE, which names no
address, hits one row only follows from the history of the table.

### IpScan and DbSession

`LeaseServer` takes a statement as one step, with an answer that is its own.
`DbSession` is what that rests on.  `pc[p]` is the statement, `phase[p]` how far
child `p` is with it (`ping`, `pong`, `query`, `answer`, `fetch`, `free`), `lib[p]`
its copy of `db_conn`: the connection, packets received and not looked at, the
number of the next packet, and whether a result is unread.  `wire[c]` is what the
MySQL server has sent on connection `c`.

| Code | Actions |
|---|---|
| fork | `Fork`: the child inherits handle and socket |
| `mysql_ping`, `mysql_query`, with MYSQL_OPT_RECONNECT | `Call`, `Reconnect`, `Pong`, `Answer` |
| `mysql_fetch_row`, once or in a loop | `FetchRow`, `FetchEnd` |
| `mysql_free_result` | `Free` |
| reading the socket; a connection that is gone or out of step | `Receive`, `Broken` |
| the double free of `request_ip` 146-147 | `Abort` |
| MySQL restarts or drops idle connections | `Lose` |

`Follows` is the order of statements in the handlers of `dhcp_db.c`, for each
outcome, with the early returns.  The contents of rows are left out, except in the
scan, whose rows are the addresses that `IpScan` counts through.  The MySQL server
and client library are external; they are described by what the code relies on:
packets of one answer are numbered, a command is refused while a result is unread,
a wrong number ends the connection, and an answer broken off by an error looks to
`mysql_fetch_row` like its end.  A child that is handed a NULL result dies, as the
C library would have it.

### DhcpNetwork

`cl[c]` is a client: its state (`init`, `selecting`, `requesting`, `bound`,
`renewing`), the interface it sits at, its address, when it sent its request and
until when it may use the address.  `net` holds the messages under way in any order.
`Arrive` is `Fork` for a datagram of `net`, `Respond` is `Send` with an answer put on
`net`; all other steps of children are those of `LeaseServer`.  A client takes any
offer, counts its lease from the time of its request, starts again when it is
refused or when nothing of its exchange is under way any more, renews when its time
is about to end, and may be started anew behind another interface.  In
`RepeatingSpec` it also repeats a DISCOVER while an earlier copy is still under way.

### WebControl

The tables of the configuration as far as they refer to each other: `masks`
(`interfaces`, with its list and template), `lists`, `templates`, `options`, and the
AUTO_INCREMENT of each.  Requests of one statement are atomic; the two deletions are
check, delete and, for a template, delete of its options (`req[w]`).  A request may
name any id ever given out, because pages can be of any age.  In `req[w].seen` a
deletion keeps the table `interfaces` as it was at its check; no action reads it, it
lets `OnlyRacesBreak` say what a race is.

### Messages

`LeaseServer` takes a datagram as understood and an answer as sent; `Messages` is
the inside of those two steps, for one child, octet by octet.  `phase` is the part
of the code, `input`, `at`, `n` and `opts` are the parser's buffer, position, rest
and list, `list`, `rest`, `pos` and `data` the encoder's.

| Code | Phases and actions |
|---|---|
| `listener` 40-54, `mydhcp_parse_ipv4_pkt` up to its loop | `receive`: `Receive` |
| one turn of the parser's loop, its breaks | `parse`: `ParsePad`, `ParseOption`, `ParseEnd` |
| `listener` 56-97, `process_discover`, `process_request` | `dispatch`: `Dispatch` |
| one turn of `generate_rawoptions`, its breaks | `encode`: `EncodeOption`, `EncodeEnd` |
| `generate_rawpkt`, sending | `packet`: `Packet` |
| a client reads the answer with the same parser | `check`: `ParsePad`, `ParseOption`, `ParseEnd` |

The database stands behind `OptionLists` and `Offered`.  The parser reads the four
octets behind the datagram as well (`optslen` still counts the magic cookie when the
options are copied, `mydhcp.c:265`).  They are zeros, because the listener clears its
buffer, and parse as PAD; but the listener takes datagrams up to the size of the buffer
(`listener.c:35`), and of one that leaves fewer than four octets the copy reads on in
the memory behind it (`Behind`).  Such octets can become an option, even a message type.
`OptionsFromDatagram` says that nothing else can: every option begins in the datagram or
behind the end of the buffer, and none ends more than four octets behind the datagram.

A conversion of an address to text and back is modelled by what it
does: it loses the last of 15 characters (`ParsedAddress`).  `nhgetl2` of an option
with fewer than four octets, the type of an option without any, the address of an OFFER
for which `discover_ip` wrote none, and the memory behind the buffer are read from
`Garbage`.  The code of an option is any integer (`structure.sql:131`) and its data of any
length (a list of addresses grows by four octets with each blank); the encoder cuts both
to an octet (`mydhcp.c:164`).  `AnswerDecodes` promises the client the same list only
if nothing of it was cut and no code is PAD or END (`Encodable`); what it says of the
room in a packet holds of every list.

## Runs

All runs end by exhausting their state space or with the expected violation.  The
clock stops at `MaxTime`, after which the system may well have nothing left to
do; a child of `Messages` ends, and ids of `WebControl` run out.  These runs do not check
for deadlock.  `session` and `shared_connection` do: the next child can always be forked.

| Run | Question | Bounds |
|---|---|---|
| `serial` | Does the protocol work when children do not overlap? `OneLeasePerIface`, `AnswerStands`, `OwnerKeepsAddress`, and `ServesLeases`: is every step one of `LeaseService`? | one child, two servers, two interfaces on one list of two addresses, a client seen on both interfaces, a template that begins with a lease time, which `request_ip` frees twice so that the child may abort, query failures, broken answers and reboots, four clock values; lists without routes, since none of these questions reads them |
| `static` | `StaticRouted`: does a confirmed static lease have its route and no other? | one child, static list, configuration row that appears and disappears, stop and start of the daemon, a lease time whose highest bit is set |
| `concurrent` | What survives any interleaving? `TypeOK`, `PoolRespected`, `NoLiveLeaseCleared` | two children, two servers, overlapping lists one of which is static and without routes, query failures, broken answers and reboots |
| `messages` | Do options come from the datagram, does an answer decode to what was put in, does every child end? `OptionsFromDatagram`, `AnswerDecodes`, `Terminates` | a buffer of 280 octets, a header of 10; all bodies of up to four octets out of five, messages with missing, empty, repeated and cut options, datagrams that leave 0 to 4 octets of the buffer; answers with one or two further options of lengths around 255, the packet and the block, and codes 0, 255, 268 and -1 |
| `session` | Do commands and answers stay in step on every path (`InSync`, `OwnReply`), does the scan find what `FreeAddress` says (`ScanRight`), does a lost connection cost a later child anything (`LossRepaired`), does every child end (`ChildEnds`)? | one child at a time, every subset of four addresses leased, lists 1-4, 2-3 and 3-3, answers of up to two rows besides the scan's, two losses of connections, failing statements and broken answers |
| `network` | Is an address in use leased to its user (`UseIsLeased`), does everybody get one (`EventuallyBound`)? | two clients, one of which is moved, an address for each, one child, one message lost, offers that last to the end of a time unit and leases of one more, three clock values |
| `web` | What can break references (`OnlyRacesBreak`), do left-over options turn up again (`TemplatesStartEmpty`)? | two administrators, one mask, two lists, two templates, two options with two codes, the last statement of a deletion may fail |
| `double_use`, `shared_connection`, `route_astray`, `template_time`, `static_race` | What the documentation promises and the code does not do, see below | the smallest instance that shows it |

Why the bounds are enough.  Two addresses and two interfaces give every relation
of two leases (same list, full list, gap, past the end).  Two children give every
interleaving of two handlers, and no guard looks at more than one other row.
In `serial`, times 1 and a clock up to 3 let a lease be offered, confirmed,
expire and be given to somebody else.  In `concurrent` the times are 0, "less
than one unit of the clock", so that one tick makes a lease expire while a child
is between any two statements.  Children are interchangeable (symmetry) in the
runs with two.

In `session` the four addresses give the scan each of its cases: no row, a row
above the start, a run that ends in a gap, at the end of the list, past it; the other
selects either need one row or read all, so two rows suffice, and with two losses a
connection can be lost, replaced and lost again.  In `network` one lost message
suffices to make a client start again at each point of the exchange; three times
let a lease left at the old interface expire while its client asks in vain at the
new one.  In `web` an option row, a template and a mask can be left behind
and a second template added afterwards.

In `messages` the sizes are smaller than the real 4096 and 236, in the same order:
header plus cookie and some options fit, the block is larger than what a packet
can carry, and an option longer than an octet can say fits into both.  All comparisons
of the code are between sums of these sizes and option lengths, and sums on both sides
of each limit and on it occur.

`Terminates` assumes weak fairness of the steps of one child.  A child is a process
of its own which runs straight through parser and encoder and waits for nobody, so
the scheduler grants it.  `ChildEnds` assumes the same of each child; with one child at a time
nobody else takes the packets it waits for.  The properties of `LeaseServer` itself
are safety properties.

`EventuallyBound` assumes, all named in `Fairness` of `DhcpNetwork`: weak fairness
of the steps of a child and of the clock (processes run, time passes), that a
daemon that is down is started, that a client reads what it receives and follows its
timers, and strong fairness of taking a datagram of each client from the socket: a
child is forked for whatever the socket holds, in order of arrival, so that a
datagram waits for the others before it and no longer.  Losses are bounded
(`MaxLosses`), the usual assumption that of messages sent again and again some get
through.  The clock stops at `MaxTime`: from some time on an exchange is quicker
than the lifetime of its offer; with an exchange slower than that for ever, no client
would be served.

### Where the code and its comments disagree

- `double_use`: a DISCOVER turns an allocated row back into an offered one that
  lasts `OFFER_LEASE_TIME`.  When a repeated DISCOVER is served after the ACK, the
  client ignores the second offer and goes on using the address, the row expires,
  and the address is given to somebody else within the lease time the first client
  was told (`moondhcp.conf:12`, `defines.h:51`).  `network` shows that without such
  a repetition an address in use is always leased to its user.
- `shared_connection`: children of one server use the connection inherited from the
  daemon; with two at a time one reads the rows of the other's query, so that the
  options it sends are not those of its own lease (`dhcp_db.c:25`).  `session` shows
  that without overlap nothing is ever left on the connection.
- `route_astray`: the routes of leases that became offers again are left behind
  (`clear_leases` removes the routes of allocated rows only), and a lease can then be
  confirmed while its address is routed to another interface (`dhcp_db.c:354`).
- `template_time`: a lease time that comes first in its template is lost when
  `request_ip` reads the template, so the default is stored although the client
  is told the template's (`moondhcp.conf:12`).
- `static_race`: an address pinned to an interface "for ever" (`dhcp_db.c:218`) can
  pass to another one through two servers that scan at the same time.

More were met while modelling and have no run of their own.  One child is enough to unpin
a static address, when the insert of `store_offer` is refused after its delete for a
client that still has a lease elsewhere, and one child whose look-up or scan breaks off
to give an interface a second row or to take a live lease from another one
(`dhcp_db.c:274`, `dhcp_db.c:316`; `serial` reaches both, and its properties say how far
the damage goes).  A DISCOVER from an unconfigured interface
is answered without an address (`dhcp_db.c:247`).  When the options fill the block
exactly up to the octet reserved for END (`mydhcp.c:159`) and another one follows,
END is written one octet behind the block; such a block is too long for a packet and
is not sent.  The text buffer of the parser has 15 octets, so an address of 15
characters loses its last one, and a client with such an address cannot renew by
`ciaddr`.  A datagram that fills the receive buffer is parsed up to four octets past it.
Options whose code or length exceeds an octet are sent with both cut to one, and the
client reads something else from there on.

## Proofs

The theorems hold for any sets of addresses, interfaces, servers, clients and
children, any lists, templates, times and faults, any sizes of the codec and any
datagrams, under the assumptions the modules name: addresses are positive numbers,
lists lie inside `Ips` (in `DbSession` finite), datagrams and templates have their
types, null values are distinct from real ones (`NilAssumption`, `NoRowAssumption`,
`BookAssumption`, `ConnsAssumption`, `NoneAssumption`), the datagrams clients send are
among those the server may get (`MessagesAssumption`), `Header + 10 <= MaxLine`, and
datagrams fit their buffer (`InputsAssumption`; `listener.c:35` receives no more).
TLC evaluates all of them.

| Theorem | States | Supposes |
|---|---|---|
| `TypeCorrect`, `PoolsHold` | `Spec => []TypeOK`, `[]PoolRespected` | |
| `LiveLeasesStay` | `Spec => NoLiveLeaseCleared` | |
| `OwnersKeepAddresses` | `Spec => OwnerKeepsAddress` | one child |
| `AnswersStand` | `Spec => []AnswerStands` | one child |
| `OneLeaseEach` | `HSpec => []OneLeasePerIface` (`LeaseHistory`) | one child, `OneList` |
| `Serves` | `Spec => ServesLeases`, the refinement of `LeaseService` | one child |
| `StaticLeasesRouted` | `Spec => []StaticRouted` | one child, `OneList`, `AllStatic`, `Seated`, `NothingFails` |
| `NetworkImplementsServer` | `NetSpec => Spec` | |
| `NetworkTypes` | `NetSpec => []NetTypeOK` | |
| `UsedAddressesAreLeased`, `NoAddressUsedTwice` | `NetSpec => []UseIsLeased`, `[]NoDoubleUse` | one child, `Apart`, `LongEnough`, `"broken" \notin Faults` |
| `SessionTypes`, `AnswersReadToTheEnd`, `RepliesAreOwn`, `PingRepairs`, `ScanChoosesFree` | `Spec => []TypeOK`, `[]InSync`, `[]OwnReply`, `[]LossRepaired`, `[]ScanRight` (`DbSession`) | exactly one child |
| `ScanFindsFree` | the address `offer_dyn_ip` chooses is in the list and has no row | |
| `MessageTypes`, `OptionsComeFromDatagram`, `AnswersDecode`, `StepsRunOut` | `Spec => []TypeOK`, `OptionsFromDatagram`, `[]AnswerDecodes`, `[][LeadsOn]_vars` (`Messages`) | |
| `WebTypes`, `NewTemplatesAreEmpty` | `WebSpec => []WebTypeOK`, `TemplatesStartEmpty` | |
| `OnlyRaces` | `WebSpec => OnlyRacesBreak` | `"check" \notin Faults` |

*What is supposed.* One child is `\A p, q \in Procs : p = q`: handlers do not overlap,
as on a quiet network. It is a real restriction; `static_race` and `shared_connection`
are what two children do, and the theorems without it hold for any number. `OneList`:
the configuration row of an interface may come and go and change, but not the bounds
of its list. `AllStatic`, `Seated`, `NothingFails`: leases are static (the code asks
for `static` of the list and `ptp` of the interface), a client stays behind one
interface, no query fails, no answer breaks off and no host restarts (the daemon may stop
and start); a routed dynamic lease leaves routes behind, see `route_astray`. `Apart`: clients sit
at interfaces of their own. `LongEnough`: no template tells a client more time than the
row is stored for, which a template that puts its lease time first would
(`template_time`). In the network no answer breaks off: one that does can take an address
from a client that uses it. `OwnersKeepAddresses`, `OneLeaseEach` and `Serves` suppose
nothing of faults; what a broken answer may do is part of their statements. The first
and the last except the DISCOVER whose own look-up or scan broke off, from that
moment to its delete; `OneLeaseEach` excepts the interfaces of which a look-up broke off,
but not those whose scan did, nor those whose row a broken scan took. The
instances satisfy what their theorems suppose: `serial` one
child and one list each, `static` all of `StaticLeasesRouted`, `network` and
`double_use` both `Apart` and `LongEnough`, `session` one child, `web` is checked with
the last statement failing and the check not. As `double_use` differs from the theorem
only in repeated DISCOVERs, these alone are to blame for what it finds.

**LeaseServer, any children.** `TypeOK` is not inductive: that an address chosen by a
scan is an address of the table, and that a row stored later lies in the list of its
interface, depends on what the child holds at the label it is at. `IndInv` adds to
`TypeOK` and `PoolRespected` that the configuration is one of the allowed ones and,
for each child, `ChildOK`: its label fits the type of its datagram, its list is one
its interface may have, the address it is about to store lies in that list, and the
address it is about to confirm and route lies in a list of its interface. There is one
lemma per action. The scan needs `ScanFindsFree`, which rests on facts about sets of
numbers proved in `NumberLemmas`: a run of leased addresses has an end, and a set of
numbers has a least element above a bound. `ClockInv` says that the clock a child read
for `clear_leases` is not later than the clock now; rows that are expired for it are
expired, whatever has happened since.

**LeaseServer, one child.** `SerialInv` says what a single child knows: the address it
is about to delete and insert has no row, or the row of its own interface, or the row
is already gone. A child whose answer broke off (`cut`) is excepted until its delete, after
which the address has no row, whosever it was. Each further result adds what it needs.

- `AnswersGrounded`: from the statement that writes or reads the row to `send`, the
  row of the address in the answer is the client's.
- `Sought`: until `store_offer` has deleted, the address held or found belongs to the
  only row of the interface, or there is none. Then an insert makes no second row. The
  delete and the refused insert are why this is not simply `OneLeasePerIface`. Both are
  stated for the interfaces outside a set that only grows, which is `misled`.
- The refinement goes statement by statement (`BookOK` types the mapped table). A
  `DELETE` of `store_offer` is a withdrawal by the interface that asks, of nothing, or
  by a blind server;
  the `UPDATE`, whose condition names the interface and not the address, changes one
  row at most, since a second one would get the same hardware address and is refused
  (`ConfirmCases`); the delete of `clear_leases` removes rows whose time is over.
- `RouteInv`: what the child knows about its row at each label (`AllKnow`; with static
  leases it never has a route to clear), that a row comes from a datagram and so from
  the one interface and server of its client (`RowsSent`), that an address has at most
  one route on a server and it leads to the interface the address belongs to, through
  the moment between delete and insert too (`RoutesOwned`), and that the route of a
  confirmed lease is there unless a child is about to add it (`RoutesMade`).

**DhcpNetwork.** A step of the network is a step of `LeaseServer` or leaves it alone,
so its theorems carry over. `UseIsLeased` needs an invariant of the exchange: a client
has one request under way at most, in one of four places, as a datagram, in the child,
as an answer, or nowhere because it was lost (`OneExchange`); and the row of the
address lasts until the client's `until`, until the time an ACK under way tells, and
as long as a child that has confirmed it will tell (`UseInv`). Only a DISCOVER from
its own interface could turn the row back before, and a client that waits for an ACK
or has one has no DISCOVER under way.

**DbSession.** `SessionInv` has a part for each way to be out of step: commands and
phases fit (`Fits`), the rows not yet fetched are the sent ones in order
(`Enumerates`), nothing is left on the wire or in the library between calls (`Quiet`),
packets in transit are numbered on from the one expected (`Listening`), a child whose
connection is gone meets that at its ping (`Repaired`). For the scan, `Searching` says
what the counters of `offer_dyn_ip` know after each row: while the loop goes on, all
addresses from the start to the last one read are leased; when it ends, they give the
first free address. `Chose` keeps that until the offer is stored.

**Messages.** `IndInv` of `MessagesProofs` is `TypeOK`, that what the parser consumed and
what it takes to be left add up to the octets it was given, and that `pos` never falls
below -1. `InputInv` says what those octets are, the body and `Behind`; an option does not
begin with the zeros between body and end of the buffer, which are PAD, and does not end
behind what is given, which is `OptionsFromDatagram`.
`AnswersDecode` adds `DecodeInv`. While the encoder runs, the options already written
stand one behind the other, each at the sum of the sizes before it (`BlockInv`), and
the rest of the block is still PAD. When it ends, END stands where the next option
would, or one octet further when the next did not fit; the octet between was written
by nobody and reads as PAD (`EndInv`). This holds of cut codes and lengths too, so it
gives what is said of the room in a packet. If nothing was cut (`AllEncodable`), the
client has read a beginning of the list (`ReadInv`) and is always in front of a whole
option it has not read, of that octet, or of END (`Standing`), so that it can neither
stop early nor read past the end. The sizes of the beginnings of a list are a
recursive function, `Sizes`. That it exists and grows is proved by least
counterexample (`MeasureExists`, `SizesMeasure`, `SizesGrow`), since induction rules
that take an operator cannot be used here. `StepsRunOut` is the half of `Terminates`
that needs no fairness: each step leads on in the code, or leaves fewer octets to read
or fewer options to write.

**WebControl.** `WebInv` says that ids in use were given out and that an option's
template was; a new template has an id above them all. `SeenUnused` says that the copy
of `interfaces` taken at a check names no user of what is about to be deleted, so that
a user there is at the delete came in between.

*Only model-checked:* `Terminates`, `ChildEnds` and `EventuallyBound`, which are
liveness properties and need `ENABLED` of fair actions, which the provers cannot
reason about.

## Not modelled

- The lookup of an interface's name (`interface_name`) is taken to succeed.  When the
  interface vanishes between the datagram and the lookup, the code goes on with
  whatever its buffer holds.
- The text of addresses in options, the fields of the answer copied from the request,
  and the external program started after an ACK: none of them is read again.
- Interfaces of the same name on two servers, which the table cannot tell apart, and
  several clients behind one interface (`ptp` = 0), which share its one address.
- A server host that disappears without closing its connections, and the names,
  ranges and values the web interface edits (their effect on the daemon is
  `Reconfigure`).  `dhcp_rtv4_findroute` is never called.
- Summer time: expiry is stored as local time.
- Configuration parsing, daemonising, logging and the formatting of addresses for the
  log hold no state that a decision depends on.
