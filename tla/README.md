# A formal model of lwIP-tun-dtn

TLA+ specifications of the DTN node in this repository, their TLC models, and
TLAPS proofs. Line numbers refer to the files under `src/` and `include/` of
the repository. `PROJECT.json` lists every run, which definition stands for
which lines, the hazards, the findings and the theorems.

## The system

| part | source | how it takes part |
|---|---|---|
| main loop, TUN input | `main.c` | one thread: `select` with a timeout, read one packet from the TUN device, check the contacts, make a forwarding pass when a contact has opened |
| controller | `dtn_controller.c` | decides for a packet that came in (local, forward, store, not DTN), walks over the stored packets in a pass, keeps a table of attempts per destination |
| storage | `dtn_storage.c` | linked list with a counter, one file per packet in `./dtn_storage`, loaded again at start |
| custody option | `dtn_custody.c` | a 24-byte hop-by-hop header that names the last custodian: add, strip, update, extract |
| ICMPv6 signalling | `dtn_icmpv6.c` | DTN-PCK-RECEIVED acknowledges a stored packet to its previous custodian, who deletes it; the other three messages are logged when received and never sent |
| routing | `dtn_routing.c` | contact windows relative to the start of the process, next hops by contact graph routing |
| contact graph routing | `py_cgr/` | Python, called through an embedded interpreter |
| raw sockets | `raw_socket.c` | transmission, choice of the interface |
| DTN module | `dtn_module.c` | creates and destroys the three parts |
| lwIP timers, clock | `lwip/src/core/timeouts.c`, `port/sys_arch.c` | two cyclic timers, run by the loop; `sys_now()` wraps at 2^32 ms |
| lwIP heap, pools | `lwip/src/core/mem.c`, `memp.c`, `pbuf.c` | every packet that is copied or built is a block of the 32 kB heap; packets read from the TUN device come from a pool |
| lwIP IPv6 stack | `lwip/src/core/ipv6/` | takes packets for this node |

Nothing runs concurrently inside the process. What can interfere between two
of its steps is the passing of time, the end of the process, and whatever the
network delivers: packets and acknowledgements that are lost, late, repeated
or out of order.

## The modules

`DtnPacket` - packets and the functions on them. A packet keeps its addresses,
protocol, length, the chain of hop-by-hop headers and the identity of its
payload; bytes are left out. `StripCustodian` cuts 24 bytes whatever the
header's real length, which is `Mangled` when that length differs. `Quote` is
what an acknowledgement carries back, as
`dtn_storage_delete_packet_by_icmp_data` reads it. `ActualPayloadBytes` is the
eight-bit subtraction of line 634, which wraps to 240 when the quoted packet
carries the custody option; from there the comparison reads bytes behind the
quotation, so `MayMatch` and `MustMatch` leave its result open.

`DtnStorage` - `dtn_storage.c`. State: `packet_list` (entries with their
address, packet and storing time), `stored_packets_count`, `disk` (a file's
content by name), `proc` (running, hung, down), `now`. Each function that
changes state is an action: `StoreSucceeds`/`StoreFails`,
`retrieve_packet_for_dest`, `delete_packet_by_ip_header`,
`delete_packet_by_icmp_data`, `Restart` (create and load), `Crash` and
`CrashInStore` (the process ends; `dtn_storage_destroy` leaves the files too).
The name of a file is destination and time (line 64). The faults are constants:
allocation and reading (`AllocMayFail`; without memory for the buffer the file is
left behind with its header only, lines 88-93), opening and writing
(`DiskFaults`), removing (`RemoveMayFail`), and the write that `fclose` makes of what
was buffered (`FlushMayFail`), whose failure line 110 does not notice: the packet
is then linked and its file incomplete.

`PersistentStore` - what the store promises: a bounded set of named items that
changes only by adding one under a free name and by taking one out. The
process is not visible in it. `DtnStorage!Held` maps the list (while the
process lives) or the complete files (while it does not) to that set.

`DtnNode` - the main loop, controller, acknowledgements and contact windows on
top of `DtnStorage`. `pc` is the place in the loop; `entry` and `next_entry` are
the pointers of `dtn_controller_attempt_forward_stored`; `forwarding_attempts`,
`last_active_states` and `pool` (free pbufs of `PBUF_POOL`) are the other state of
the process. A packet that was stored keeps its pbuf, as in the code. `todo` and
`wire` are the network's side: what it still delivers, and what this node sent
and may yet be acknowledged. `accepted` is a history variable: payloads that
this node has taken into custody and not released. `should_attempt_forward` is
the four actions `FirstAttempt`, `Retry`, `GiveUp`, `TooSoon`; the rest of the loop
body is `ForwardEntry`. Contact graph routing is the set `CgrAnswers(d)` of the
answers it may give.

`DtnNodeHistory` - `DtnNode` with a record of how often each stored packet was
tried; the node itself counts by destination.

`DtnChain` - nodes in a line, from the one at which packets enter to the one
whose stack they are for: direct forwarding (which names the node custodian and
keeps nothing), storing, DTN-PCK-RECEIVED to the custodian that a packet names,
retransmission, giving up, restarts. A pass over the stored packets is one step
here, and the list stands for memory and disk, which `DtnStorage` shows to
agree as long as `fclose` succeeds. What was sent arrives at any later time, in any order, or never.

`ContactWindow` - the comparison of `u32_t` times that makes a contact active,
against what the plan says. `MainLoop` and `DtnRouting` both use it.

`MainLoop` - the timing of the loop in `main.c`: `select` with the smaller of the
contact interval and `sys_timeouts_sleeptime()`, interruptions, the cyclic timers of
`timeouts.c` with their sorted list and their pool, input, contact check and
pass. Each part may take up to `Slow`. `clock` counts further than `sys_now` to tell
apart what the wrapped time does not.

`LwipHeap` - `mem.c`: `mem_init`, `mem_malloc` (first fit from `lfree`,
splitting), `mem_free` with `plug_holes`, `mem_trim`, with the assertion of line
777 that ends the process (`aborted`) when `mem_trim` would split the last block
of the heap. `heap` has a `struct mem` at each offset where a block begins. Sizes
wrap at `SizeMod`, as `mem_size_t` does. `held` and `denied` are the caller's
side: what each block in use was asked for, and the last request if it was denied.

`DtnCustodyWalk` - the loop of `dtn_extract_custodian_option`, over 8-byte units.

`Cgr` - `py_cgr_lib.py`, the call in `dtn_routing_get_dtn_next_hop`, and the two
tables between addresses and node numbers. One call is `FirstRoute` and then, for
each further route, `SpurContact` for every contact of the last route and
`NextRoute`, which moves the best potential route to the result (`cgr_yen`);
`Forward` is `fwd_candidate` and the answer. `cgr_dijkstra` is an operator that
repeats `Round` until no contact is left to visit. Among routes that
`Route.__lt__` puts before each other, any may come first. `AllRoutes` is the
reference: all routes, by enumeration.

`DtnRouting` - around `Cgr`: the contact list that `dtn_routing_load_contacts` makes
of one file, the plan that `cp_load` makes of another (or refuses), and the
controller's decision about a packet: `Arrive` (is the destination in the list?
load the plan, read the clock), the search, `Decide` (is the hop's contact active,
with the clock read again?).

`MCStorage`, `MCNode`, `MCNodeLive`, `MCCustodyWalk`, `MCRouting`, `MCChain`, `MCLoop`, `MCHeap` - values
for the constants. The operators introduced as "faulty variant" change one
definition the way a slip in the code would; they are used to see that each
property can fail.

`SequenceLemmas`, `DtnStorageProofs`, `DtnStorageRefinement`, `DtnNodeProofs`,
`DtnChainProofs`, `ContactWindowProofs`, `LwipHeapProofs` - theorems, see below.

## The runs

Runs that pass:

| run | shows |
|---|---|
| `storage` | list, counter and files agree through stores, removals, calls of `fwrite` that fail, crashes inside a store, and restarts, if `fclose` does not fail; no file outlives its entry; no file is left behind by a load; the whole implements `PersistentStore` |
| `node_faults` | under crashes and all faults but that of `fclose` a packet in custody stays on disk until released; the pass never uses a freed entry, although `should_attempt_forward` frees entries under it; one slot per tracked destination, and at most `MAX_FORWARDING_RETRIES` attempts in it |
| `node_live` | every DTN packet leaves with one custody option naming this node and an undamaged payload; an acknowledgement deletes the stored packet that it quotes; a packet is given up only after `MAX_FORWARDING_RETRIES` attempts of its own, although attempts are counted by destination and destinations outnumber the slots; every stored packet is in the end acknowledged or given up |
| `custody_walk` | for extension headers of at most 31 units the walk finds what adding up their lengths finds |
| `routing` | routes that `cgr_yen` puts together are routes, come in order of delivery, and none is missing that delivers earlier than the last one returned; the next hop belongs to a deliverable route, and to the earliest while no contact has begun; there is an answer whenever there is a deliverable route, unless the K routes are used up; a packet that is forwarded leaves in an open contact, one that is stored had a reason, and none goes back to its sender's address |
| `chain` | an acknowledgement means that a later node has the packet (or it is delivered or given up); no acknowledged packet is lost; every one is in the end delivered or given up |
| `loop` | timers stay in order over the wrap of the clock, each in the list once with a pool that has none to spare; none is later than one iteration takes, none drifts; `sys_check_timeouts` ends however slow its handlers are; in the first turn of the clock no contact counts as active while the plan has it closed; none that is long enough is missed |
| `heap` | blocks stay linked, apart, aligned and merged; `lfree` is the lowest free block; a request is denied only if no free block has room; all this up to the failure of an assertion in `mem_trim` |

Runs in which the code does not do what a comment or document says (the
finding of each is in `PROJECT.json`):

| run | what happens |
|---|---|
| `storage_same_ms` | two packets for a destination in one millisecond get one file; removing one removes the other's file |
| `pool` | each stored packet costs a pbuf of the receive pool |
| `custody_walk_ack` | over the bytes of an acknowledgement the walk can step by 0 |
| `chain_loss` | two packets of one sender: a node stores the first and forwards the second at once; the acknowledgement of the second deletes the first, which no other node has |

### Bounds

- `MaxStored` 2 (5 in the code), `MaxDestinations` 1 or 2 (10), `MaxRetries` 2 (10),
  `RetryDelay` 1 or 2 ticks: small enough that the list, the table and the counter all
  reach their limits, and that a table smaller than the number of destinations
  occurs.
- In `DtnNode` the clock counts modulo 3 to 9 (2^32): it wraps, and contacts
  therefore recur. A tick is one timeout of `select`.
- `SameMsStores` is false except in `storage_same_ms`: no packet is stored for a
  destination while a complete file of that destination and the same clock
  reading exists. This is the assumption under which the store is correct.
- Two or three packets, of one to three senders, with and without the custody
  option. `PoolSize` 3 or 4 (100) lets the list fill and acknowledgements still
  arrive.
- `SlowSteps` lets time pass inside an iteration. In the runs of `DtnNode` it is
  off: an iteration that takes longer than a contact lasts can miss every
  contact, and then nothing is promised to live on. The theorems about `DtnNode`
  hold with it on, and `MainLoop` is about nothing else.
- `Resend` makes the network repeat what it delivered; it is on in `pool` and off
  elsewhere to keep the state space small, where repetitions come from the
  node's own retransmissions, each of which may be acknowledged. The theorems
  hold with it on. (A network that repeats one acknowledgement for ever
  would also keep a packet stored for ever: each ends the tracking of its
  destination, and the count of attempts begins anew.)
- `routing`: every sub-plan of ten contacts among five nodes, with parallel
  contacts, short and long ones, detours and a way back; called before and after
  contacts begin; the sender unknown or a neighbour. Both files have that
  content; six further deployments have a list without a line of the plan, no
  list, no plan, a line with a field missing, more lines than `MAX_LENGTH`, and
  nodes without an address. `base_time`
  is 0, or so late that the clock (64 readings) wraps during the plan. `NumRoutes`
  is 4 (10 in the code), which some plans exceed. Times are whole seconds and
  `Size` is a multiple of the rates (`RoutingAssumption`), so that the divisions are
  exact. 134,088 states. The library itself was run on the 11,532 inputs
  of this run that reach the search with a plan that is not empty: its routes and
  answers are among the model's, and where it raises `KeyError` (720 inputs, the
  source in no contact) the model has no answer.
- `chain`: three nodes, two packets of two senders, `MaxStored` 2, one retry, one
  restart of a node that stores. 227,099 states. Packets overtake each other, meet in one
  store, and are acknowledged late. With one sender see `chain_loss`.
- `loop`: intervals 4 and 2, check interval 4, parts of up to 2, one interrupted
  `select`, a start-up of 9 that is longer than both intervals (as `sleep(2)` is).
  The clock has 54 readings, started at 20, so that it wraps inside the third
  contact; `Horizon` is two rounds of it. A fourth contact lies beyond the range of
  the clock. 285,204 states.
- `heap`: 120 bytes, headers of 8, blocks of at least 12, and six sizes: those
  that round up, one that fits only an empty heap, and one whose rounding
  overflows `mem_size_t` (256 values). 140,163 states. Deadlock is not checked: a
  failed assertion ends the process.
- `node_faults` has 2,995,548 states, `node_live` 206,661.
- `FlushMayFail` is off in the runs, as with it on `MemoryOnDisk` and `CustodyKept` are
  violated, see below. The properties of `node_live` hold with it on (584,493
  states); it is off there too to keep the run short.
- `WalkMayHang` lets the process hang where `dtn_extract_custodian_option` runs on
  a packet without hop-by-hop header; `custody_walk_ack` is the reason.

### Fairness

`LiveSpec` is the node without crashes. `WF(LoopStep)`: a running process is
scheduled, and no call in the loop blocks. `SF(Idle)`: the TUN device is not
readable at every single `select`, so the timeout happens again and again. The
network has no fairness at all: acknowledgements may never come.

`LoopSpec` is `WF(Next)`: the process is scheduled. It is used for `CheckEnds` only;
that contacts are noticed is an action property and needs none.

`ChainLive`, for every node but the last: contacts end (`WF(Closes)`) and recur
(`SF(Opens)`), as a plan that goes on has it, and again and again an opening is
noticed when the retry delay has passed (`SF(NoticeDue)`). That openings are noticed,
if contacts last long enough, is what `MainLoop` shows; that some come after the
delay is assumed of the plan. Packets and acknowledgements may all be lost.

## The proofs

For every value of the constants that satisfies the named assumptions
(`PacketAssumption`, `StorageAssumption`, `NodeAssumption`, `ChainAssumption`,
`LoopAssumption`, `HeapAssumption`):

- `StorageTypesAndCounter`: types, and counter = length of the list, under all
  faults. The inductive invariant adds `Named`: the names of the entries and of
  the complete files are file names, and a file's packet is for the destination
  in its name. A load takes its entries from there.
- `StoredPacketsAreOnDisk`: `MemoryOnDisk` under all faults of allocation, `fopen`,
  `fwrite` and `remove`, if `~SameMsStores` and `~FlushMayFail`.
  The invariant adds `NamesDistinct`: no two entries have one file name, so that
  removing one entry's file leaves the others'.
- `FilesAreExactlyTheStore`: `NoOrphanFile` and `LoadIsComplete`, if in addition
  allocation and `remove` do not fail (`Reliable`). The bound on the number of
  files needs the list's bound while the process lives and must survive the
  crash inside a store, where it holds because the store was not full.
- `StorageImplementsPersistentStore`: under `Reliable` the storage implements
  `PersistentStore`. While the invariant holds, `Held` equals the complete files
  on disk whatever the state of the process; so each step is judged by what it
  does to one file, and crash and restart change nothing.

For the whole node (`NodeSpec`: crashes, restarts, every fault and every delivery):

- `NodeKeepsListConsistent`: each step of the node is, for the storage, a step of
  the shape below or none (lemma `NodeShape`), so the storage invariant carries over.
- `CustodyIsKept`: `CustodyKept`, if `~SameMsStores`, `~FlushMayFail` and stripping leaves the
  payload of every arriving packet intact (`PayloadSurvivesStrip`; a hop-by-hop
  header that is not 24 bytes long breaks it, line 112 of `dtn_custody.c`). The
  invariant adds the storage's: a file is written again only under its own name,
  and a removal that is not a release hits no accepted packet's file.
- `CursorNeverDangles`: `NoDanglingCursor`. `should_attempt_forward` frees the first
  packet of the destination, which is the entry at hand or one before it, never
  the `next_entry` that was saved. The invariant adds that a process that is down
  starts again at the top of the loop.
- `TrackingIsSound`: `TrackingDistinct` and `RetryBound`, for every table size and
  limit. The invariant adds the type of the table.
- `PacketsLeaveLabelled`: `WireWellFormed`, if arriving packets have no other
  hop-by-hop header (`PlainArrivals`) and allocation succeeds (`~AllocMayFail`;
  the code ignores that adding the option failed and sends the packet without). The
  invariant adds `StoreClean`: stored packets and complete files have no option and
  intact payloads, so that adding one leaves exactly one.

The proofs first reduce the next-state relation to its shape (`StorageStep`): a
deletion, whatever it compares, removes one entry, or nothing, or does not
return.

For the line of nodes, the loop and the heap:

- `CustodyIsSafe`: `ChainTypeOK`, `AckMeansBeyond` and `NoneLost` for any number of
  nodes, sizes of stores, retries and restarts, if every sender has one packet
  (`DistinctSources`; `chain_loss` shows why). `NoneLost` alone is not inductive: a
  node that deletes must know that another has the packet, which is
  `AckMeansBeyond`; and that one is not inductive over any set of nodes, only with
  "further on", since the node further on deletes for one still further. The
  invariant adds what is on its way: a packet as its host sent it, with the
  option of the node before.
- `ExactOutsideWrap`, `NeverAcrossWrap`: for every width of the clock, the wrapped
  comparison is the plan's window, except that a contact inside which the
  clock wraps is never active. `NeverActiveWhenClosed`: hence `ActiveOnlyWhenOpen`
  in `MainLoop`, for any plan and timing, until the clock has made a turn since
  start-up and for the contacts of the plan that end before that; the invariant
  is that `clock`, counted modulo a multiple of `ClockMod`, is in range, and in the
  first turn the time since start-up is the same for both moduli.
- `HeapIsSound`: the properties of `heap`, alignment, and that the heap is one free
  block again when all blocks are back (`WholeWhenAllFreed`), for every size of heap, header,
  block, alignment and `mem_size_t`, up to the assertion of `mem_trim`, which changes
  nothing before it fails. The invariant `HeapInv`: `Linked` (blocks are at
  aligned offsets, `next` is the next one, `prev` leads back), `Plugged` (no two free
  neighbours), `IsLowest` (`lfree`), `HeldOK` (blocks in use are those held, and large
  enough), and the last denial. Splitting and absorbing a block are proved to
  keep `Linked` once and used for all three operations; `mem_trim` with a free block
  behind it is an absorption and a split. `WholeWhenAllFreed` follows: without
  blocks in use, `Plugged` leaves room for one free block only.

The types of `DtnStorage`, `DtnChain` and `LwipHeap` are proved and not repeated in the
runs.

Only model-checked: liveness and fairness, which are beyond the prover; contact
graph routing and the decisions made from it, as the search is recursive; the
custody walk; the order and lateness of timers; `NodeTypeOK`, what
acknowledgements delete, and how often a packet is tried.

## Not modelled

- The IPv6 stack of lwIP. Of the vendored tree, which is by far the largest part
  of the repository's lines, the Makefile compiles 18 files: `mem.c`, `memp.c`,
  `pbuf.c`, `timeouts.c`, `netif.c`, `init.c`, `stats.c`, `ip.c`, `def.c`, `inet6.c`,
  `inet_chksum.c`, `ip6.c`, `icmp6.c`, `ip6_addr.c`, `nd6.c`, `mld6.c`, `ip6_frag.c`,
  `ip6_route_table.c`. TCP, UDP, PPP, the applications and the tests are not part of
  the program. What is modelled of lwIP is what the DTN parts depend on: the
  heap, the timers, the clock, and the pools as counters. Packets reach the
  stack only if they are for this node, after they have been acknowledged, and
  nothing comes back from there to the DTN parts.
- Which interface a packet leaves by (`raw_socket.c`, line 123): two prefixes that
  each installation edits. As committed they are node 2's, while the addresses in
  `main.c` and `dtn_routing.c` are node 1's.
- Backlogs and confidences in routing: the library has them, the program never
  sets them.
- Chains and reference counts of pbufs: the program's pbufs have one owner.
- Bytes: checksums, hop limits, formatting of names and log lines.
- The branch of `attempt_forward_stored` for packets to this node: such packets
  are never stored. `dtn_storage_get_packet_copy_for_dest` and
  `dtn_routing_remove_contact` have no caller.
- Failures during start-up, which end the program.
- Lines of nodes only, not meshes: `DtnChain` has one way to the destination.

## What to know about storage and memory

- `dtn_storage_save_packet_to_disk` does not look at the result of `fclose`
  (line 110). A packet of ordinary size is in the stream's buffer until then, so
  that on a full disk the write fails unnoticed: the packet is logged as saved
  and acknowledged, and its file is incomplete. While the process lives nothing
  depends on the file. After a crash the packet is gone, although the
  custodian before has deleted it: with `FlushMayFail` on, TLC finds `MemoryOnDisk`
  and `CustodyKept` violated.
- A file whose `remove` fails is loaded again at the next start.
- `mem_trim` fails an assertion, and lwIP's default for that is `abort`, when it would
  split the last block of the heap (`mem.c`, line 777), although the code behind
  the assertion would handle it. In this program `pbuf_realloc` is called from
  `ip6.c` for packets of the pool only, so that no block of the heap is trimmed.

## What to know about custody

- An acknowledgement need not delete a stored packet of 280 bytes or more: the
  comparison then runs over 240 bytes behind the 8 that were quoted. `AckDeletesStored`
  is about shorter packets. Such a packet is retransmitted until it is given up.
- Attempts are counted before the next hop is known to be in contact (line 116
  of `dtn_controller.c`), so that a packet can be deleted after
  `MAX_FORWARDING_RETRIES` "failed transmission attempts" without having been sent.
- With one sender and two destinations, an acknowledgement can delete the packet
  for the other destination; that destination's slot then outlives its packets,
  and with the table full another packet is retried without being counted. The
  next packet for the destination of that slot finds attempts counted that were
  not its own and can be given up early. `NothingHeldForever` and
  `GivenUpAfterRetries` are therefore checked for senders with one destination each.
- `dtn_strip_custodian_option` cuts 24 bytes (line 112 of `dtn_custody.c`). A packet
  that arrives with another hop-by-hop header of another length is damaged;
  `CustodyKept` and `WireWellFormed` are about packets without one.
- In `dtn_extract_custodian_option` the length of a header of 32 units (256 bytes) is
  0 in a `uint8_t`, and longer ones are taken for short ones. `FollowsChain` is about
  shorter headers.

## What to know about routing

- `cgr_yen` takes the root contact off each route and computes its metrics again
  (line 505). A contact that has begun then counts from its start, not from now,
  and `fwd_candidate` may prefer a route that arrives later than another. This is
  why `EarliestAnswer` is about plans in which no contact has begun.
- A route can be found from two spur contacts and be returned twice (line 483),
  so that fewer than the "best num_routes (K) routes" of line 401 are different.
  Two contacts from the source to node 21, one from there to 23, and one from
  each of these to 32 make four routes; with K = 4 the third is returned twice
  and the fourth is missing. `NoBetterRouteMissed` counts such duplicates among
  the K, and what it promises is that the missing route is not an earlier one.
- Routes over the sender count among the K and are then skipped: when they fill
  the list, a deliverable packet has no next hop and is stored.
- `ForwardedInContact` and `StoredOnlyWhenClosed` are about two files of one content.
  When they differ, or `cp_load` refuses its file, the packet is sent or stored as
  the plan and the list happen to say.
- The tests in lines 539 and 584 of `fwd_candidate` continue the loop they stand
  in, not the one over routes, and exclude nothing.
- The contact list is loaded from `cgr_tutorial_1.txt`; the plan that
  `dtn_routing.c` names in line 288, `cgr_tutorial_Simulation.txt`, is not in the
  repository. `cp_load` then raises, and every DTN packet is stored.
- `is_next_hop_active_contact` looks at one end of a contact: a contact of another
  node with the hop makes the hop count as in contact. `ForwardedInContact` is
  about hops that only this node has contacts with.
- `ipv6_to_nodeid` does not know `fd00:1::2`, the form in which `inet_ntop` writes
  `fd00:01::2`. A node has a number per interface, and the sender is excluded by
  the number of the address that the packet names.
- A contact inside which `sys_now()` wraps is never active. After a wrap the
  library sees all contacts in the future, since `cp_load` does not wrap.
- From 2^32 ms (49.7 days) after start-up on, the contacts of the past are active
  again at the same place of each turn of the clock, and a contact of the plan that
  lies beyond 2^32 ms is active a turn too early (`dtn_routing.c`, line 554).
  `ActiveOnlyWhenOpen` is about the first turn and the contacts that end in it.
