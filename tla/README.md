# OpenBSC: TLA+ models, checks and proofs

This directory specifies the protocol core of OpenBSC in TLA+: what the program
keeps about radio channels, connections, subscribers and messages, how each
message, timer and operator command changes it, and what has to be true of it
whatever the base stations, the mobile stations and the other network elements
do and in whichever order. TLC checks the modules on small instances; TLAPS
proves the central facts for all instances.

The programs of the repository (osmo-nitb, osmo-bsc, osmo-bsc_nat, osmo-sgsn,
osmo-gbproxy, the MGCP gateway) are single processes around one `select()`
loop. A handler, a timer callback and everything they call run to completion.
So one action of a module is one whole handler, calls included; all concurrency
is between the process and what surrounds it: commands and answers under way,
timers that have been started, requests that wait in queues.

## Inventory

| Part | Sources (`src/openbsc/src/`) | State | What is hard | Correct if |
|---|---|---|---|---|
| Channel allocation | `libbsc/chan_alloc.c` | `gsm_lchan`: type, state, SAPIs, owner | a slot is reused at once; what belongs to its last user may hit the next | free means free in the BTS; every release ends |
| RSL | `libbsc/abis_rsl.c` | five timers per channel | answers that are late, missing, or cross a release; radio failure | the record follows the BTS |
| RLL requests | `libbsc/bsc_rll.c` | list of requests | duplicates, channel freed meanwhile | each request is answered once |
| BSC API | `libbsc/bsc_api.c` | connection with main, secondary and handover channel; T10 | three channels of one connection fail or are cleared independently | pointers are mutual; assignments end |
| Handover | `libbsc/handover_logic.c`, `handover_decision.c`, `meas_rep.c`, `meas_proc.c` | handover records; T3103; measurements | the connection disappears under a handover | records name living channels; handovers end |
| Paging | `libbsc/paging.c` | per BTS: requests, slots, two timers, T3113 | several BTS page for one request | results reach the request they belong to |
| Request queue | `libmsc/gsm_subscriber.c` | FIFO per subscriber | the holder of the channel must continue the queue in every way it may end | every request is answered |
| Connections in the MSC part | `libmsc/osmo_msc.c`, `transaction.c`, `gsm_04_08.c`, `auth.c`, `token_auth.c`, `silent_call.c` | operations pending on a connection, transactions | loss of the connection in the middle of any of them | a connection lives exactly while something needs it |
| Call control | `libmsc/gsm_04_08.c`, `mncc*.c` | CC state and timer per transaction | both ends clear at once; timers | calls are bridged and released in pairs |
| SMS | `libmsc/sms_queue.c`, `gsm_04_11.c`, `db.c` | pending list and its counter, CP/RP state, stored SMS | retries, paging failures, SMS sent outside the queue | an SMS is neither lost nor sent twice |
| OML | `libbsc/abis_nm.c`, `abis_om2000.c`, `bts_*.c`, `bsc_init.c`, `utils/bs11_config.c` | command queue, state of managed objects, software load | one answer lets the next command go; links restart in the middle | the queue never stalls; a BTS comes up as configured |
| Gb | `libgb/gprs_ns.c`, `gprs_bssgp.c`, `gprs/gb_proxy.c` | NSVC flags and one timer; BVCs and peers; flow control | procedures of both ends cross; the proxy learns from what it relays | both ends agree; messages reach their BSS |
| SGSN | `gprs/gprs_gmm.c`, `gprs_llc.c`, `gprs_sndcp.c`, `sgsn_libgtp.c`, `gprs_sgsn.c` | MM and PDP contexts, LLC counters, reassembly | retransmission, counters that wrap, segments out of order | contexts match the MS and the GGSN |
| osmo-bsc | `osmo-bsc/*.c`, `libbsc/bsc_msc.c` | link to the MSC, SCCP connections, RF state | loss of the link; delayed RF commands | no connection survives the link |
| NAT | `osmo-bsc_nat/*.c` | rewritten SCCP references, endpoints | references reused | messages reach the connection they belong to |
| Media | `libmgcp/*.c`, `libtrau/*.c` | endpoints, mux map | reallocation while in use | an endpoint has one user |
| Control, VTY, tools | `libctrl`, `*_vty.c`, `ipaccess`, `utils` | - | - | - |

`PROJECT.json` lists the parts with their status, and under `hazards` the places
where the code is hard to test, each with the properties that watch it.

## Modules

| Module | Contents |
|---|---|
| `LchanOps` | `struct gsm_lchan` and the functions of `chan_alloc.c`, `abis_rsl.c`, `bsc_rll.c` that change it, as operators from record to record |
| `Lchan` | the channels of a TRX with the BTS at the other end of the RSL link |
| `BscApi` | connections, assignments and handovers on top of `LchanOps` |
| `Paging` | paging, the request queue and the life of connections in the MSC part |
| `SmsQueue` | the SMS queue, the transfers it feeds and the SMS table |
| `Calls` | call control and the built-in call router |
| `Mm` | location updating, identity, authentication, ciphering |
| `Ns` | the network service of the Gb interface between Gb proxy and SGSN |
| `Gb` | BSSGP between base station subsystems, Gb proxy and SGSN |
| `Sgsn` | mobility and session management of the SGSN, with LLMEs and GTP |
| `Llc` | UI frames and the reassembly of N-PDUs |
| `OsmoBsc` | osmo-bsc's link to the MSC, its SCCP connections, RF control |
| `FifoLink` | abstract: an ordered channel per connection that may die |
| `Nat` | the BSC NAT |
| `Mgcp` | the media gateway |
| `Oml` | bring-up of base stations, software load, the BS-11 tool |
| `MC...` | instances for TLC; `MCMsc`, `MCGprs` and `MCNat` hold several modules |
| `LchanProofs`, `BscApiProofs`, `NsProofs`, `OsmoBscProofs`, `MmProofs`, `PagingProofs`, `MgcpProofs` | theorems about the module they are named after |
| `GprsProofs` | theorems about `Sgsn`, `Llc` and `Gb` |

In most modules the state of a program is one record and a C function is an
operator from record to record under the function's own name, because the
functions call each other; an action is one event of the `select()` loop that
applies such operators. Each module has a set of faults and a set of
environments (`CallEnv`, `SgEnv`, ...): configuration and the faults that may
happen, chosen once in the initial state. A run checks several environments at
once. Where the code fails under a fault, a run meets that fault wherever its state
space allows, and the property allows what goes wrong there, by name and with a
comment; the faults that no run has, because the property then only fails, are
listed under "What does not hold". Nothing is assumed away without being named in
one of these two ways.

### LchanOps and Lchan

`Lchan` (the record) keeps the fields of `struct gsm_lchan` that control
depends on; each timer is a Boolean, `act_timer` also says which of its two
callbacks is set. `rllr` counts the requests of `bsc_rll.c` for a data link.
`out` is the RSL queue towards the BTS. Each C function has its operator under
its own name; `rll_est_ind`, `rll_est_conf`, `rll_rel_ind`, `rll_rel_conf` are
the cases of `abis_rsl_rx_rll()`.

The BTS is a record of the facts the BSC wants to know: is the channel active,
which data links are up, may commands be dropped (`deaf`). RSL is a FIFO, so
the answer of the BTS and its handling by the BSC are one action; until then
the command is in `out`. The calls of the layer above are actions of their own:
`ActivateForConn`, `ReleaseByOwner`, `RllEstablish`.

`Faults` chooses what may go wrong; see `FaultKinds`. With the empty set the
BTS answers before any guard timer expires, the MS leaves when told to and
channels are given up only once they are active.

### BscApi

`net` is the state of the process: channel records, connections, handover
records. The functions of `bsc_api.c` and `handover_logic.c` are operators on
it because they call each other (a freed channel signals its connection, which
clears the others). `net.bad` records that a NULL pointer was followed or a
branch was reached that the code itself reports as a bug; after that the program
has stopped (`Running`). `ms` holds the orders given to mobile stations (ASSIGNMENT,
HANDOVER, MODE MODIFY), which they obey, refuse, answer late or lose. The
environment `env` fixes which program it is: under osmo-bsc the MSC assigns
channels; under osmo-nitb (which has no `assign_fail`) there are handovers, and
call control asks for assignments. An MS makes its first access on a channel while
T3101 waits for it there. `Faults`: `nack`, `radio`, `slow_bts`, `late_ms` (the MS
reports after T10 or T3103), `reassign` (a second assignment during the first) and
`early_ho` (a handover from a channel the MS is only moving to).

Left out here because `Lchan` has them: guard timers, SAPI 3, a silent BTS.

### Paging

`net.bts` holds the paging state of each base station, `net.sub` the location
area and request queue of each subscriber, `net.conn` its connection with what
keeps it open: the five second anchor, a security operation, a silent call,
transactions. T3113 runs exactly while a request is in the list, so it has no
variable. `SendPaging` is the mutual recursion of
`subscr_send_paging_request()` and `subscr_put_channel()` by the state it ends
in. `fresh` is a history field: no location update since the paging began.

The environment `env` fixes the location areas of the base stations, the users
and the faults. Four faults lead to states in which the code makes no promise
about the queue (`Tame` excludes them): the subscriber changes its area while
it is paged (a FIXME in `paging.c`), uses a connection that is still being
secured, is called silently, or has its queue cleared by the operator. The
other properties are checked with them too.

### SmsQueue

`net.entry` is the list `pending_sms`, `net.pending` the counter beside it,
`push_queue` and `resend_pending` the timers; `stored`, `sent` and `attempts`
are the SMS table, `lac` the column of the subscriber table that the select
statements use. `req` holds the SMS that wait for paging, `trans` the SMS of
the transactions on a connection; a transaction that got RP-ERROR stays without
its SMS. `held` says that something other than an SMS keeps the connection
open. Paging is reduced to its three results; module `Paging` has the rest. The
loop of `sms_submit_pending()` is a function of the number of rounds.

An SMS is also sent without an entry: after RP-ACK, on RP-SMMA, on attach, on
the operator's demand. `QueueOnly` singles out the environments where only the
queue sends. `twice` and `old` are history fields: acknowledged more than once;
last paged for before the receiver attached.

### Calls

`cc` holds the transactions (with transaction identifier, call reference, CC
state and timer), the order of the list they are in, the calls of
`mncc_builtin.c`, what waits for paging, the connections, which channels have an
RTP socket and which are joined. The indications to the router and its requests
back run inside one message of the MS, one timeout or one paging result, so
they are operators on `cc`; `cc.bad` records the use of a freed transaction or
call, a message for a transaction without connection, or joining channels
without sockets. `datastatelist` is the table of that name; every message first
releases the anchor of its connection (`AnchorGone`). Faults: `radio`,
`loss_while_paging`, `early_connect` (CONNECT before the sockets are there),
`crossing` (DISCONNECT crosses the clearing of the network), `stray` (a message of
a call that has ended). All of them are in the run.

### Mm

One connection and one subscriber: the location updating operation, the
security operation with its callback, the key in use, the anchor; the
subscriber's row with its last authentication tuple; the key the MS has. Users
(calls, SMS) come and go. `proved` is a history field: the MS has ciphered on
this connection. Environments: the three policies, A5 on or off, a known Ki.
Faults: `lost_auth`, `slow_ms`, `repeats`, `ss_release`.

### Sgsn, Llc and Gb

`Sgsn` has MM contexts, PDP contexts and LLMEs in slots; a slot something still
points to is not reused, so that a use of freed memory is seen (`sg.bad`). TLLIs
are a kind (local, foreign, random) and a P-TMSI, which is what `gprs_gmm.c`
and `gprs_llc.c` look up by. GTP requests wait for the GGSN, timers T3350,
T3370 and T3395 count up to `MaxExp`. A message to the MS may be lost, and the MS
hears one only if it is addressed to a TLLI it has: `sg.by` is the context that
sent the message of a step. The GGSN has at most two deletions of a session to
answer (`FewDels`). Faults:
`slow_ggsn`, `power_cycle`, `detach_busy`, `ggsn_restart`, `came_back`,
`rau_repeat`, `gtp_full`.

`Llc` sends N-PDUs in segments; V(U) and N-PDU numbers wrap at small bounds,
`llEnv.mod` for the 512 frame numbers. Faults: `lose`,
`lose_first`, `twice`, `overtake`, `refuse`.

`Gb` has the BVC contexts of the SGSN, the peers of the proxy and a queue in
each direction between them; messages between proxy and BSS are handled at
once. With `flow` it looks at one flow control bucket beside the level the BSS
itself would see. Faults: `loss`, `early_data`, `reset_blocked`, `burst`.

### OsmoBsc and FifoLink

The link to the MSC with its connect, reconnect, ping and pong timers; SCCP
connections with their queue for the time before the confirmation; the radio
connections they belong to; the RF state with its delay, grace and check
timers. `wire` is what the MSC has not read. `FifoLink` says what a BSSAP
connection promises: messages arrive in order and none twice; one that finds no
room when it is sent is left out, and a connection that dies loses only the last
ones of those under way. `Link` is the refinement mapping: what a
connection has under way is the numbers of its messages on `wire` and in its
queue. A connection has numbers for three messages at least (`ObMaxMsg`), because
CR, CLEAR REQUEST and CLEAR COMPLETE are always sent. `pings` is off where
`ping_timeout` is negative; `mute` records that CLEAR REQUEST or CLEAR COMPLETE
was dropped. Faults: `link_loss`, `silent`, `slow_msc`, `no_socket`, `full` (the
queue to the MSC has no room, `msc_queue_write()`).

### Nat and Mgcp

`Nat` has the links of the BSCs, the list of SCCP connections with the three
references each has (real, patched, remote), the endpoints, the state of MGCP
transactions, USSD provider, control connection and pending commands. Every
connection a BSC opens carries a number of its own, for the properties only.
`freed` records that the link of a BSC was read after it was freed. When the link
to the MSC is lost its queue is emptied first and the BSCs are closed then, so the
RLSDs this gives stay in the queue for the next link. Faults: `lost_bsc`,
`lost_msc`, `unconfirmed`, `reassigns`, `other_cic`, `same_refs`; `parts` says what
else happens in an environment.

`Mgcp` has the endpoints with the ports, peers and stream state of up to four
ends; the call agent and the parties of each call are part of the state.
`heard` and `jump` are history fields: which call a party heard, whether its
stream broke. An element of `heard` names the side the audio came from, the call
of its sender, the call the endpoint had and the call of the party it was sent
to. `extends` has the pairs of calls where the identifier of the second begins with
that of the first: `handle_create_con()` compares only as many characters as the
endpoint's identifier has. What the gateway sends to a transcoder comes back in a
step of its own (`TranscoderSends`). Faults: `lossy`, `late_dup`, `late_rtp`,
`changes`, `busy`.

### Oml

`om` is the program (command queue, `pend` for `abis_nm_pending`, state of the
managed objects, software load, the state machine of the tool) together with the
base station and the messages in both directions. Three kinds of environment: a
nanoBTS brought up by its reports, a BS-11 set up by a list of commands, the
BS-11 tool with one of its commands, starting from any phase of the base
station. `rsls` counts the RSL links under the present OML link and `loads` the
software loads. Faults: `lossy`, `nack`, `rsl_again`, `any_order`, `locks`, `hasty`,
`load`, `second_load`, `abort`, `closes`.

### Ns

`nsvc` is the NS-VC at each end: the Gb proxy, which has `remote_end_is_sgsn`
and resets the SGSN again when it does not answer, and osmo-sgsn, which waits to
be reset (`known` says that it has the NS-VC in its list). `state` is the pair
of flags `blocked` and `alive`; the one timer of an NS-VC is its mode or
`none`. Handlers give the NS-VC and the PDUs they send; `gprs_ns_rcvmsg()` looks
the NS-VC up by the address of the sender, so `addr` is where the proxy is and
each message bears an address. STATUS is left out because its receiver only
logs it; `refused` records that data was answered by it.

Loss, duplicates, reordering, restarts of either end, a new address, operator
commands and timers that expire while a message is under way are faults; each
uses up a part of the budget `faults`, and `seen` keeps their kinds.

The link does not recover from everything. `RxAliveAck` sends UNBLOCK only when
the proxy's own end is blocked. So when the SGSN's end is blocked again after
the proxy's is unblocked (a RESET or UNBLOCK ACK of an earlier round comes late:
restart and loss together, several early timers, messages out of order), the two
ends disagree until someone resets them; data is answered by STATUS, which is
only logged. A BLOCK by the operator of the proxy lasts until the next ALIVE ACK.

## Runs

| Run | Checks | Bounds |
|---|---|---|
| `Lchan_orderly` | `ReallyFree`, `ReleaseCompletes` | SDCCH and TCH/F, SAPIs 0 and 3, one owner, 3 commands under way |
| `Lchan_faults` | `LchanSound`, `RachResolved` | one channel, all faults, 2 commands under way |
| `BscApi_pointers` | `PointersSound` | SDCCH and two TCH/F, two connections |
| `BscApi_live` | `ProceduresEnd` | the same with one connection |
| `Paging` | `PagingSound`, `PagingServes` | two base stations in one area or in two, one subscriber, six environments |
| `SmsQueue` | `SmsSound`, `SmsServes` | two subscribers, two SMS, five environments, max-pending 1 or 2, max-failure 1 or 2 |
| `Ns` | `NsSound`, `LinkComesUp` | three faults of one kind, or three restarts of either end; one retry, two addresses |
| `Msc` | `MscPointersGood`, `CallSupervised`, `TalkingTogether`, `IdleReleased`, `AttachedProperly` | two subscribers, four transactions, two references per counter; one MS, three keys, 36 environments |
| `Gprs` | `SgPointersGood`, `OneContext`, `ProcedureWatched`, `AcceptMeansUp`, `NpduIntact`, `NewFrameTaken`, `NothingStrays`, `BlockedAgreed` | one MS, three P-TMSIs, two contexts; three N-PDUs of up to three segments; two BSS, two messages under way |
| `OsmoBsc` | `LossFreesAll`, `RfFollows`, `InOrderToMsc`, `SilenceNoticed`, `LostRadioEnds` | one radio connection after the other on two SCCP connections, five messages each, a queue of two |
| `Nat` | `NatPointersGood`, `EndpointsGood`, `RoutedToOwner`, `RefusedStaysOut`, `OwnPeer`, `StreamContinues` | two BSCs, two connections, two circuits; two endpoints, three calls, four pairs of ports |
| `Oml` | `QueueServed`, `OnAirAsTold`, `SwWhole`, `Settles` | one TRX with two timeslots, three links, files of three and two segments, 20 environments and those of the tool |

Some properties are conjunctions of named parts, each with its own comment:
`LchanSound` = `TypeOK`, `ActReqKept`, `BusyIsReal`, `LinksAgree`;
`PointersSound` = `TypeOK`, `OnlyKnownCrashes` and, while the program runs,
`PointersMutual`, `HandoverAnchored`, `AssignmentTimed`; `ProceduresEnd` = `AssignmentEnds`, `HandoverEnds`,
`AllReleased`; `PagingSound` = `TypeOK`, `PagingAlive`, `PagedForHead`,
`HeadWatched`; `PagingServes` = `AttachedStays`, `Answered`; `SmsSound` =
`TypeOK`, `Counted`, `EntryWorkedOn`, `OneCopy`; `SmsServes` = `SubmitBounded`,
`AttachKept`, `NoStarvation`; `NsSound` = `TypeOK`, `Supervised`; `LinkComesUp`
= `Handshake` always, and `Recovers`; `MscPointersGood` = `CallPointersGood`,
`MmPointersGood`; `EndpointsGood` = `EndpointsOwned`, `EndpointsSound`;
`OnAirAsTold` = `RfAsWished`, `AirReady`.

`Msc`, `Gprs` and `Nat` check modules that share no state. The variable `part`
says which of them a behaviour is of; the others stay in one initial state, so
the state space is the sum, not the product.

What the runs show:

* A channel that `chan_alloc.c` would hand out again is closed, without owner,
  timers and messages (`ReallyFree`), as long as answers come before the guard
  timers expire. With every fault allowed, nothing waits on a channel the BTS
  has closed (`BusyIsReal`), `sapis[]` stays exact (`LinksAgree`), an
  activation is always watched by someone (`ActReqKept`) and the data of a
  random access does not stay (`RachResolved`). With orderly answers a release
  ends in a free channel (`ReleaseCompletes`), also when the release of the MS
  crosses that of the network; the run does not have an MS that sets up SAPI 3
  during the release (`collision`).
* The pointers connection - channel - handover record stay consistent through
  refusals, radio failures, a slow BTS and late reports, until the program stops;
  it does so, on a NULL pointer, in the two cases of `OnlyKnownCrashes` and in no
  other. With a BTS and an MS that answer in time assignments and handovers end, and
  channels without owner become free (`BscApi_live`).
* Each paging on a base station belongs to the request at the head of the queue
  and that request is always waited for; a base station with something to page
  always has a timer; an expired paging from before a location update does not
  detach the subscriber; requests are answered.
* The counter of the SMS queue equals its list on every path, each entry has
  someone at work who will end it, one call submits no more than there is place
  for (one at least), a lone queue has one copy of an SMS under way, and a
  subscriber who can be paged is served however often others refuse.
* Calls: whatever the two ends and the timers do, no transaction or call is used
  after it was freed, a leg being set up or cleared has a timer or a paging (or
  its other leg has), and nobody in the active state is left without the other.
  Four things go wrong in the run and are allowed where they do: the walk of
  `gsm0408_clear_request()` over freed memory (`loss_while_paging`), the NULL socket
  (`early_connect`), the leg a crossing DISCONNECT leaves without timer (`crossing`)
  and the transaction of a message nobody handles (`stray`).
* Mobility management: a connection nothing holds is released; a subscriber gets
  attached only while a location update is under way, when the policy admits
  him, and, where ciphering is possible, after having ciphered.
* The crossing RESET, ALIVE and UNBLOCK procedures of the network service bring
  both ends up before any data is refused (`Handshake`), no fault stops the
  supervision of the link (`Supervised`), and after losses, duplicates, restarts
  or a new address both ends come up and stay so (`Recovers`).
* SGSN: contexts, timers, GTP requests and LLMEs do not point to freed memory
  when the MS repeats requests or attaches anew (the exceptions of `SgPointersGood`
  are below); an IMSI has one context; the MS
  is told of a session after the GGSN confirmed it. N-PDUs come out as sent
  though segments are lost or doubled, and frame numbers may wrap. Messages of
  the SGSN reach the BSS that has the BVC, and proxy and SGSN agree on what is
  blocked, when nothing is under way.
* osmo-bsc: queue and socket together implement `FifoLink`; when the link goes
  nothing of it stays; an MSC that stopped answering is noticed where pings are
  sent and the pong timeout is the shorter one; a connection without radio then
  ends, unless the message that would end it was dropped by a full queue;
  transmitters follow the last command.
* NAT and gateway: messages reach the connection they are for, nothing refers to
  the link of a BSC that is gone, control commands are answered once, a refused
  subscriber reaches the MSC no more; an endpoint has one call, its ports are
  given back on every path, a party hears its own call, as one stream where the
  gateway patches it. Not so for audio that is late or left in the transcoder, and
  for a call whose identifier begins with that of the call before it.
* OML: commands wait only behind one that will be answered, through losses of the
  link, refusals and activation requests that come in between; the carrier is as
  the operator wished, if he waits for answers; the first RSL link of an OML link
  brings the system information; the first load ends only when complete; the base
  station comes up unless the program is in one of the three states of `Stuck`, and
  the tool logs off.

### What does not hold

`findings` in `PROJECT.json` lists where the code does not do what a comment, or
its own bookkeeping, says. Five definitions state such promises and are not
checked by a run because they fail: `QuarantineKept` (`Lchan`), `PickedUpLater`
(`Paging`), `DeliveredOnce` (`SmsQueue`), `RouterForgets` (`Calls`) and
`BucketHonest` (`Gb`). `AllReleased` and `PagedForHead` fail with the environments
`SlowBtsEnvs` (`MCBscApi`) and `StaleEnvs` (`MCPaging`); `StuckEnvs` and
`TwiceEnvs` show `PickedUpLater` and `DeliveredOnce`. To see one, put the
environment and the definition into the configuration of the run. The other
findings are exceptions in a property:

| Property | Excepted | What the code does there | In the run |
|---|---|---|---|
| `PointersSound` | osmo-nitb with assignments | a failed assignment calls `assign_fail`, which is NULL; the program stops | yes |
| | `late_ms` with assignments | ASSIGNMENT FAILURE after T10 releases a NULL channel; the program stops | yes |
| | `reassign`, `early_ho` | `secondary_lchan` or `ho_lchan` is overwritten and the old channel keeps a dangling pointer | no |
| `CallPointersGood` | `early_connect` | a NULL `rtp_socket` is read | yes |
| | `loss_while_paging` | a list walk goes on from freed memory | yes |
| `CallSupervised` | `crossing`, call reference 0 | the leg has no timer and the router does not know it | yes |
| | `stray`, NULL state | a transaction nobody ends holds the connection | yes |
| `IdleReleased` | `ss_release` | a connection stays open | yes |
| `SgPointersGood` | `came_back`, `ggsn_restart` | a freed LLME or PDP context is used | yes |
| | `slow_ggsn`, `detach_busy`, `gtp_full` | a freed context, or one without GTP context, is used | no |
| `AcceptMeansUp` | `slow_ggsn` | a repeated request is accepted early | no |
| `NpduIntact` | `lose_first`, `overtake`, losses after a wrap | segments of two N-PDUs are mixed | wrap only |
| `BlockedAgreed` | `reset_blocked` | the proxy goes on dropping data | yes |
| `LostRadioEnds` | `mute` | a dropped CLEAR REQUEST is not sent again | yes |
| `NatPointersGood` | `freed` after a second RLC, or with `same_refs` | `cfg->nr` of a freed link is read | yes |
| `RoutedToOwner` | `reassigns` | the new connection has fields of the old one | yes |
| `OwnPeer` | `extends` | a new call is taken for the call before | yes |
| | `late_rtp`, also through the transcoder | late audio is heard by the next call | yes |
| `QueueServed` | `nack`, `any_order` | the link is read after it was destroyed | yes |
| `RfAsWished` | `hasty` | the answer to an older command overwrites the wish | yes |
| `AirReady` | second RSL link under one OML link | `RSL_UP` stays set, no system information is sent | yes |
| | ARFCN 0 in the cell allocation | the wrong bit is set | no |
| `SwWhole` | second load | `last_seg` is left over | yes |
| `Settles` | `Stuck`: second RSL link, CBCH before BCCH, second load | the objects are forgotten; OPSTART is refused for ever; the load waits | yes |

The proof of `NpduIntact` failed at first, and rightly: the exception for lost
first segments is not enough. When the frame numbers begin again after a loss,
the SGSN takes the next frames for old ones and drops them until the number it
waits for comes, first segments included; what comes then is added to the N-PDU
that is still in the queue. The property now excepts losses and doubles once the
numbers have begun again, and the run has an environment with three frame
numbers in which this happens.

The proofs of `Mgcp` found its two properties about audio true in the run and
false in general. A CRCX that is repeated after its call is over takes the
endpoint from a running call if `force_realloc` is set; looped by the operator,
the endpoint then sends a party of the running call its own audio in the name of
the other call, and starts a new stream. `OwnPeer` now says that a party hears its
own call, and that this is the endpoint's call only without `late_dup`;
`StreamContinues` excepts `late_dup` and `late_rtp`.

More exceptions that are limits rather than errors: a pong timeout longer than
the ping timeout keeps the pong timer from ever expiring, as each ping restarts
it (`SilenceNoticed`); after a lost frame at the wrap of V(U) the SGSN drops frames until the number
comes again (`NewFrameTaken`); an SMS that expires while it is paged for detaches
its receiver, and `subscr_paging_dispatch()`, which stops the other pagings in the
area the subscriber has after the callback, then finds none to stop, so with two
base stations in the area the second goes on paging (`SmsAlone` in
`PagingProofs`; the run has SMS with one base station in the area); a second circuit for a connection overwrites its
endpoint (`other_cic` in `EndpointsOwned`).

### Bounds

Functions of `chan_alloc.c` and `abis_rsl.c` work on one
channel, so one channel with all faults, and two with different configurations
for allocation, meet all cases; the theorems remove the bound. Three channels
are what one connection can hold; a second connection competes for them. A
second base station is what makes paging results ambiguous, two users make a
queue of two. Queues towards the BTS are bounded by `MaxOut`: a command that
does not fit is delayed, which the BTS cannot tell from a later command. `Slots`
of `Paging` is 1 instead of 20 so that base stations run out of them. For the SMS queue two
subscribers make a round of the loop and two SMS for one subscriber the case of
SMS sent past it; `FailLimit` is 2 instead of 10 and `TransIds` 2 instead of 7 so
that both limits are met, `Rounds` 4 instead of 1000 is more than two subscribers
need, and `MaxReq` keeps timers from adding requests without end. In `Ns`
`AliveRetries` is 1 instead of 10: three faults then suffice to make an end give
up. `MaxMsgs` bounds only what timers, users and faults add; answers always fit.

A call has two legs, so four transactions are two calls at once, and `NumTi` 1
makes identifiers run out. Two MM contexts are what one MS can have at a time, by
its old and its new P-TMSI; the third P-TMSI is the one allocated next. Frame
numbers wrap after 4 where the wrap matters and after 16 where it must not
happen. Two BSCs with the same references and two circuits make every lookup of
the NAT ambiguous that can be. `ObLimit` 1 instead of 10 makes the queue of a
connection overflow. `OmWin` 2 with three segments needs two windows, the second
not full; cell allocations of three and of ten frequencies make a mobile
allocation of one and of two octets.

The MS, the BTS and the MSC do anything their protocols allow, up to the
faults chosen. Symmetry is used only for the two TCH/F of `BscApi_pointers` and
the two subscribers of `Msc`, which have no liveness property. Deadlock is not
checked where all work may be done: no more calls, references or links within the
bound.

### Fairness

Weak fairness of the timers: the `select()` loop runs every timer that has
expired (`osmo_timers_update()`). Weak fairness of the BTS: it answers what it
does not drop (`deaf` channels may drop anything, and the guard timers must do).
In `BscApi`
an MS answers its orders or loses them, which lets T10 and T3103 expire. In
`Paging` the MS ends the security procedure, calls end, SMS are acknowledged:
the code has no timer for the first (`gsm_04_08.c` says so in a FIXME), the
others end by timers of CC and CP. In `SmsQueue` pagings end by T3113 and
transfers by RP-ACK or TC1*; the fairness is written out because TLC evaluates
`ENABLED` of an action with the submit loop in it too slowly. In `Ns` messages
that are not lost arrive (weak fairness); the timers have strong fairness,
because `Timer` is enabled only while nothing is under way (an earlier expiry is
the fault `EarlyTimer`) and users may send data in between for ever, which does
not keep a timer of the code from expiring. In `OsmoBsc` timers expire and an MSC
that is alive reads what was written, confirms connections and answers CLEAR
REQUEST and CLEAR COMPLETE; a silent one does none of it. In `Oml` the programs
serve what has arrived and expired, and a base station connects, starts its
objects and answers; fairness of `Receive` and `TeiUp` is written out for the same
reason as in `SmsQueue`. No fairness is assumed for channel requests, location
updates, the operator or any fault. `Calls`, `Mm`, `Sgsn`, `Llc`, `Gb`, `Nat` and
`Mgcp` state no liveness: that a timer is running whenever something is awaited
is their invariant (`CallSupervised`, `ProcedureWatched`).

## Proofs

`LchanProofs` proves, for every set of channels, SAPIs and connections, all
bounds and all faults:

* `TypeCorrect`: `Spec => []TypeOK`
* `ActReqAlwaysKept`: `Spec => []ActReqKept`
* `BusyAlwaysReal`: `Spec => []BusyIsReal`
* `LinksAlwaysAgree`: `Spec => []LinksAgree`
* `LchanAlwaysSound`: `Spec => []LchanSound`, the four together
* `FreeAlwaysReally`: `Spec => []ReallyFree`, where the only faults are
  `late_rel_ind` and `idle_confirm` (the faults of the run `Lchan_orderly`)

Assumptions: SAPIs are numbers up to 7 with 0 among them, the null connection
is not a connection, slots have one of the three configurations. TLC evaluates
them in every run.

The inductive invariant `IInv` is `TypeOK`, `Good` for each channel, and that
while the link is down every channel is free. `Good` is `Watched` (the body of
`ActReqKept`) and, unless the BTS drops commands, `Agree`: a channel in use is
active in the BTS with exactly the recorded data links unless an activation is
still under way, or it is not active, an activation is under way and no data
link is recorded. The last clause is what neither `BusyIsReal` nor `LinksAgree`
says and both need: when the BTS carries the activation out, the BSC's record
must already be empty. The condition on the link is needed because commands
given while it is down are lost. The argument goes channel by channel: each
operator of `LchanOps` that starts no activation satisfies `Keeps` (what it may
do to a pending activation and to the type); `Keeps` is transitive; the actions
of `Lchan` are compositions of those operators. `NextIInv` then has one case
per action.

`ReallyFree` needs more: what is under way to a channel at each stage of its
life. `Phased` says that a channel is in one of five phases (idle, opening,
serving, in quarantine, releasing), which timers run in each, which commands may
still be in `out`, and what the BTS has open. Each action leaves a channel in its
phase or takes it to the next one, and in the idle phase nothing is left.

`BscApiProofs` proves, for every set of channels and connections, every length of
the queues to the BTS, and all environments:

* `PointersSoundHolds`: `Spec => []PointersSound`

`PointersSound` speaks of one assignment or handover at a time (`OneAtATime`):
without `reassign` and `early_ho`, which overwrite a pointer. Everything else is in:
osmo-nitb with assignments, refusals, radio failures, a slow BTS, late reports. The
proof is that a state satisfies `ApiInv`, or `Stopped` (the program has followed
one of the two null pointers of `OnlyKnownCrashes` and does nothing more), or the
environment is not `OneAtATime`.

Mutual pointers are not enough for the step. CHAN ACTIV NACK takes a secondary or
handover channel from its connection but not a main channel, RF CHAN REL ACK frees
the channel whatever it is used for, and ASSIGNMENT COMPLETE releases the channel
the order came from. `ApiInv` therefore has `Phases`: under osmo-bsc a channel is
idle, opening, given up before it opened, up, releasing or ending, and each phase
says which commands the BTS still has to answer, so that a channel that is up has no
activation left to be refused. `MainUp` says what the main channel of a connection
is while it moves: an assignment leads away from an SDCCH, a handover from a traffic
channel, so under osmo-nitb the two exclude each other. `OrdFine` says that ASSIGNMENT COMMAND leads from
the present main to the present secondary channel, that CHANNEL MODE MODIFY and a
secondary channel exclude each other, and that a dead connection has no orders.
`ConnFine` says that the channels of a connection differ, that assignments and
handovers exclude each other and that a dead connection holds nothing; `HosFine` that
records and handover channels correspond one to one; `ChanFine` that a channel with an
owner is not also waiting for a random access. `Core` is the part that holds between
the operators of one step too: `Freed`, which runs through `handle_release`,
`gsm0808_clear` and `subscr_con_free`, is shown to keep it (`FreedDoes`,
`ClearGone`). One lemma carries the invariant over each kind of step: one channel
changes (`ChanStep`), a connection gets a channel (`GainStep`), drops one
(`DropStep`), moves (`MovedStep`) or only changes its record (`ConnOnly`).

`NsProofs` proves, for every number of retries, every set of addresses, and any
number and combination of faults:

* `NsTypeCorrect`: `Spec => []TypeOK`
* `AlwaysSupervised`: `Spec => []Supervised`
* `NsAlwaysSound`: `Spec => []NsSound`, both together

Its assumption is the type of the constants. The invariant `IInv` adds two facts
to the two properties. Tns-alive never runs with its retries used up, or the
counter would leave its type. And as long as the operator does not intervene
only the proxy sends UNBLOCK, so that no UNBLOCK ACK is ever under way to the
SGSN: it would mark an NS-VC alive that was given up, with no timer to watch it.
The second fact is about the messages under way, so the channels are typed by
the PDUs that may be in them (`MsgTo`). Each handler is shown to give a fine
reply to what may reach it (`HandleFine`, `TimerFine`, `ReceiveFine`), and a
fine reply to keep the invariant (`ContinueKeeps`).

`OsmoBscProofs` proves, for every set of connections, all bounds and all
environments:

* `ObInvariant`: the inductive invariant `ObInv`
* `LossFreesAllHolds`: `ObSpec => []LossFreesAll`
* `RfFollowsHolds`: `ObSpec => []RfFollows`
* `InOrderToMscHolds`: `ObSpec => InOrderToMsc`, the refinement of `FifoLink`:
  initial states map to initial states, every step to a step or a stutter

For the refinement the invariant says that the numbers of one connection grow
along the wire and then along its queue, and lie between the number that arrived
last and the one given last; that a confirmed connection has an empty queue, for
a message written at once would overtake what is queued; that a CR on the wire is
the first the MSC hears of its connection; and that numbers are left for the
messages that end a connection. `ObBounds` is the assumption: three numbers or
more, and 0 names no connection. Where the queue is full (`Takes`) a number is
skipped, which `Put` of `FifoLink` allows; when it was the CR, the step is `Open`
without a first message; and of the messages that waited for the confirmation the
first ones arrive, as far as there is room (`FirstMessages`).

`MmProofs` proves, for every number of keys and all environments:

* `MmInvariant`: the inductive invariant `MmInv`
* `MmTypeCorrect`, `IdleReleasedHolds`, `MmPointersGoodHolds`: the invariants
* `AttachedProperlyHolds`: `MmSpec => AttachedProperly`, the action property

`MmInv` adds to the properties that no operation is left on a connection that is
gone and that something holds every connection (unless `ss_release`). Unless
`repeats`, the operations are in the order in which the code starts them: no
identity is awaited and nothing is accepted while a security operation runs, the
one of a service request does not run beside a location update, and a ciphered
connection that no longer secures itself belongs to an MS that has proved itself.
Unless `slow_ms` or `repeats`, a security operation whose callback ends a location
update belongs to one whose identities were received. These two make the action
property provable.

`PagingProofs` proves, for every number of base stations and slots, all
subscribers and all environments in which `SmsAlone` holds (see above):

* `PagingInvariant`: the inductive invariant `PgInv`
* `PagingSoundHolds`: `Spec => []PagingSound`

In all surroundings a subscriber has one request on a base station at most, and a
base station with requests has a timer. In tame surroundings every paging is for
the head of the subscriber's queue and in its area; a head that is marked as paged
is paged somewhere, or its connection is being secured and has nothing else
pending. `PagingSound` alone is not inductive, because what stops pagings looks
only into the present area of the subscriber.

`GprsProofs` proves, for every number of MM contexts, LLMEs and P-TMSIs, every
number of expirations and all faults:

* `SgContextsFine`: the inductive invariant `SgInv`
* `OneContextHolds`: `SgSpec => []OneContext`
* `ProcedureWatchedHolds`: `SgSpec => []ProcedureWatched`
* `AcceptMeansUpHolds`: `SgSpec => AcceptMeansUp`, an action property

None of the three is inductive. A second context for the IMSI would come from an
attach that does not find the first one, so `SgInv` says that the list holds every
context in use, once (`Listed`), and that no context is found by the P-TMSI of
another one (`Apart`): a message reaches the context of its sender, and the new
P-TMSI names nobody. That a procedure stays watched rests on `Timed`, T3370 runs in
the common procedure and only there, and on `MsFine`: an MS that was accepted, and
may send a COMPLETE that stops the timer, is not found at a context still in the
common procedure. The confirmation of a session rests on `PdpsFine`: a PDP context
with a transaction identifier is confirmed or its creation is not answered yet. The
lemmas say what each helper of `gprs_sgsn.c` and `gprs_gmm.c` keeps (`Keeps`,
`Turns`, `Authorized`, `Freed`), then there is one lemma for each action.

It also proves, for every number of N-PDUs and segments, every modulus and all
faults:

* `LlInvariant`: the inductive invariant `LlInv`
* `NewFrameTakenHolds`: `LlSpec => []NewFrameTaken`
* `NpduIntactHolds`: `LlSpec => []NpduIntact`

`LlInv` says how V(UR) follows the frames taken, before the numbers begin again
and, if no frame is lost or doubled, for ever; that frames wait in the order they
were sent in; that the reassembly queue has segments of one N-PDU, none twice, and
is recorded rightly; and that the first segment of an N-PDU comes before the
others or has been taken just before them.

And for every set of BSS, queue length, bucket and environment:

* `GbInvariant`: the inductive invariant `GbInv`
* `NothingStraysHolds`: `GbSpec => []NothingStrays`
* `BlockedAgreedHolds`: `GbSpec => []BlockedAgreed`

That nothing strays needs the peers of the proxy in their places and, of the
messages under way, that data comes only for a BVC the proxy knows. The agreement
when nothing is under way needs what holds while something is: the last
acknowledgement on its way tells what the SGSN thinks, and no RESET on its way
unblocks a BVC silently.

`MgcpProofs` proves, for every number of endpoints, calls, pairs of ports and
identifiers, every modulus of the sequence numbers and all environments:

* `MgInvariant`: the inductive invariant `MgInv`
* `OwnPeerHolds`: `MgSpec => []OwnPeer`
* `StreamContinuesHolds`: `MgSpec => []StreamContinues`
* `EndpointsSoundHolds`: `MgSpec => []EndpointsSound`, the gateway's half of
  `EndpointsGood`

`MgBounds` is the assumption: there are more identifiers than endpoints (or
`generate_call_id()` would not end), and more than one sequence number. `OwnPeer`
is about history, so `MgInv` says why nothing wrong can be added to it: the call
an endpoint serves was given that endpoint (`AgentAt`); the endpoint of a running
call serves it, is free, was taken by a late command that told it no party of
the network, or is kept from the call before, whose identifier begins that of the
running one (`GivenAt`, `TakenLate`); its peers are of the call it serves, or of the
one it was kept from (`PeersAt`). The theorem holds for every relation `extends`
between the calls. For `StreamContinues` the endpoint's state must be that of the packet
its party heard last (`Follows`), and patching must be on where the source can
change (`Patched`); the numbers then go on by arithmetic modulo `MgSeq`
(`NextNumber`). That a free pair of ports and a free identifier are found rests on
the existence of a least element of a set of numbers, and for the identifier on
counting. A command works at one endpoint: `Alone` says what it leaves, and
`AloneKeeps` carries the invariant over.

Each invariant was checked by TLC, with all environments of its module, before it
was proved.

Only model-checked are:

* liveness (`ProceduresEnd`, `RachResolved`, `ReleaseCompletes`, the temporal parts
  of `PagingServes`, `SmsServes` and `LinkComesUp`, `SilenceNoticed`,
  `LostRadioEnds`, `Settles`), which is out of the prover's reach;
* `SmsSound` with its counter along the loop of `sms_submit_pending()`, a function
  of the number of rounds: what it computes needs an induction over data;
* `Handshake` of `Ns` and the action properties inside `PagingServes` and
  `SmsServes`, which stand in one definition with liveness;
* `CallPointersGood`, `CallSupervised` and `TalkingTogether` of `Calls`: call control
  and the router call each other within one message (`mncc_tx_to_cc()`,
  `int_mncc_recv()`), which the module says with `RECURSIVE` operators, and those
  the prover cannot use;
* the properties of `Nat`: `bsc_close_connection()`, `msc_connection_was_lost()` and
  `sccp_close_unconfirmed()` are folds over connections, commands and BSCs, and what a
  fold leaves needs an induction over data; the same holds for `sw_fill_window()`
  of `Oml`, whose queue balance also counts messages in three sequences;
* `SgPointersGood` of `Sgsn`: it rests on which P-TMSIs and TLLIs the MS and the
  contexts remember across lost messages, an invariant that is not worked out.

## Not modelled

Coding of messages, counters and logging. Memory exhaustion (`talloc` failing).
Reference counts of subscribers. Several TRX per base station. The order in
which timers of equal deadline run is left open, which is weaker than the code.

Inside the modelled parts: `lchan_alloc()` takes no timeslot that is unconfigured or
TCH/F_PDCH (`Lchan`). A link to SAPI 3 is answered by a count, not by the callback
of the SMS code that may release the channel (`rll_indication` of `LchanOps`). The
answer to a paging does not begin a security procedure in `Mm`; `Paging` has that
path. RTCP has the port beside RTP in `Mgcp` and shares its fate. In `Oml` state
reports carry no administrative state, requests for software activation are well
formed, and there is one base station, so a NACK drops its link only.

The parts that `PROJECT.json` lists as `not_modelled`: the OML of RBS2000, Nokia
and femtocells (other protocols for what `Oml` models); system information,
measurement averages and the 04.08 helpers (layouts and arithmetic); the socket
to an external call control, whose other end is unknown; voice frames; the
ip.access tools; the command line, whose commands appear as operator actions
where they change protocol state.

## Plan

1. Theorems: the balance of the command queue in `Oml` (`QueueServed`); the
   references of `Nat`; the pointers of `Sgsn`. Folds have to be replaced by
   comprehensions, or by facts about their results, first.
2. Pure functions over bounded inputs: handover decision and measurement
   averages, frequency lists.
3. OM2000 and Nokia bring-up as further environments beside `Oml`.
