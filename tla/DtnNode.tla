------------------------------- MODULE DtnNode -------------------------------
(***************************************************************************)
(* One DTN node: the main loop of main.c, the controller                   *)
(* (dtn_controller.c), the acknowledgements it handles (dtn_icmpv6.c) and  *)
(* the contact windows it watches (dtn_routing.c), on top of the storage.  *)
(*                                                                         *)
(* The process is single-threaded, so what can happen between two of its   *)
(* steps is the passing of time, its death, and whatever the network does. *)
(* pc says where the loop is: at select and the TUN input ("input"), at    *)
(* the contact check ("poll"), entering attempt_forward_stored ("pass"),   *)
(* at the head of its loop ("entry"), or past should_attempt_forward for   *)
(* the current entry ("send").                                             *)
(*                                                                         *)
(* Contact graph routing is the set of answers it may give.  The network   *)
(* loses, delays, repeats and reorders packets and acknowledgements.       *)
(***************************************************************************)
EXTENDS DtnStorage, ContactWindow

CONSTANTS MaxDestinations,  \* MAX_DESTINATIONS, slots of the tracking table
          RetryDelay,       \* FORWARDING_RETRY_DELAY_MS
          MaxRetries,       \* MAX_FORWARDING_RETRIES
          ContactPlan,      \* sequence of [node, start, end], times from base_time
          StateSlots,       \* size of last_active_states
          Local,            \* the addresses process_incoming takes as its own
          CgrAnswers(_),    \* what get_dtn_next_hop may answer for a destination
          NoHop, NULL, Free,
          PoolSize,         \* PBUF_POOL_SIZE
          WalkMayHang,      \* extract_custodian_option may not return
          SendFaults,       \* raw_socket_send_ipv6 may fail
          SlowSteps,        \* time may pass in the middle of an iteration
          Resend            \* the network may deliver a packet again

Attempt == [destination : Addr, last_attempt_time : Time, retry_count : Nat]

ASSUME NodeAssumption ==
    /\ {MaxDestinations, MaxRetries, StateSlots, PoolSize} \subseteq Nat \ {0}
    /\ RetryDelay \in Nat
    /\ \A c \in DOMAIN ContactPlan :
          /\ ContactPlan[c].node \in Addr
          /\ ContactPlan[c].start \in Nat /\ ContactPlan[c].end \in Nat
    /\ \A d \in Addr : CgrAnswers(d) \subseteq Addr \cup {NoHop}
    /\ NULL \notin Ptr /\ NoHop \notin Addr /\ Free \notin Attempt
    /\ {WalkMayHang, SendFaults, SlowSteps, Resend} \subseteq BOOLEAN

VARIABLES forwarding_attempts,  \* slot -> [destination, last_attempt_time, retry_count] or Free
          last_active_states,   \* the static array of update_contacts
          base_time,            \* sys_now() when the routing function was created
          pool,                 \* free PBUF_POOL pbufs
          pc, entry, next_entry,
          todo,                 \* packets the network still brings
          wire,                 \* packets sent and possibly still acknowledged
          accepted              \* payloads acknowledged upstream, not yet released

controlVars == <<pc, entry, next_entry>>
netVars == <<todo, wire>>
nodeVars == <<forwarding_attempts, last_active_states, base_time, pool, controlVars,
              netVars, accepted>>
vars == <<storageVars, nodeVars>>

Slot == 1 .. MaxDestinations
Contact == 1 .. Len(ContactPlan)
At(loc) == proc = "running" /\ pc = loc
-----------------------------------------------------------------------------
(***************************************************************************)
(* Contact windows.                                                        *)
(***************************************************************************)
WindowOpen(c) == IsActive(now, base_time, ContactPlan[c], ClockMod)

is_dtn_destination(d) == \E c \in Contact : ContactPlan[c].node = d
is_next_hop_active_contact(h) == \E c \in Contact : ContactPlan[c].node = h /\ WindowOpen(c)

\* get_dtn_next_hop answered, and the answer is a neighbour in contact.
NextHopReady(h) == h # NoHop /\ is_next_hop_active_contact(h)

Watched == {c \in Contact : c <= StateSlots}
update_contacts == last_active_states' = [c \in Watched |-> WindowOpen(c)]
ContactOpened == \E c \in Watched : WindowOpen(c) /\ ~last_active_states[c]
-----------------------------------------------------------------------------
(***************************************************************************)
(* The network and the raw socket.  A packet whose transmission fails is   *)
(* freed like one that was sent.                                           *)
(***************************************************************************)
Send(p) ==
    \/ wire' = wire \cup {p}
    \/ SendFaults /\ UNCHANGED wire

\* What leaves after dtn_update_or_add_custodian_option and after
\* dtn_add_custodian_option; their failures to allocate are ignored.
UpdatedForms(p) ==
    {UpdateOrAddCustodian(p, Me)}
    \cup (IF AllocMayFail /\ ~HasCustody(p) THEN {p, StripCustodian(p)} ELSE {})
AddedForms(p) == {AddCustodian(p, Me)} \cup (IF AllocMayFail THEN {p} ELSE {})

Deliver(p) == todo' = IF Resend THEN todo ELSE todo \ {p}

Hang ==
    /\ WalkMayHang
    /\ proc' = "hung"
    /\ UNCHANGED <<packet_list, stored_packets_count, disk, now>>
    /\ UNCHANGED <<forwarding_attempts, last_active_states, base_time, pool, controlVars,
                   wire, accepted>>

Goto(loc) == pc' = loc /\ UNCHANGED <<entry, next_entry>>
-----------------------------------------------------------------------------
(***************************************************************************)
(* dtn_controller_process_incoming, for everything but acknowledgements.   *)
(* A packet stored successfully keeps its PBUF_POOL pbuf for good: the     *)
(* branch returns without freeing it.                                      *)
(***************************************************************************)
\* Faulty variant: the pbuf is freed by the sender and by its caller.
ForwardNowFreesTwice(p) ==
    /\ \E f \in UpdatedForms(p) : Send(f)
    /\ pool' = pool + 1
    /\ UNCHANGED <<storageVars, accepted>>

ForwardNow(p) ==
    /\ \E f \in UpdatedForms(p) : Send(f)
    /\ UNCHANGED <<storageVars, pool, accepted>>

\* Faulty variant: a failed store is acknowledged like a successful one.
StoreIncomingAcksAlways(p) ==
    /\ accepted' = accepted \cup {p.pay}
    /\ (StoreSucceeds(p) /\ pool' = pool - 1) \/ (StoreFails(p) /\ UNCHANGED pool)
    /\ UNCHANGED wire

StoreIncoming(p) ==
    \/ /\ StoreSucceeds(p)
       /\ pool' = pool - 1
       /\ accepted' = accepted \cup {p.pay}
       /\ UNCHANGED wire
    \/ StoreFails(p) /\ UNCHANGED <<pool, accepted, wire>>

process_incoming(p) ==
    \/ /\ p.dest \in Local
       /\ UNCHANGED <<storageVars, pool, accepted, wire>>
    \/ /\ p.dest \notin Local /\ is_dtn_destination(p.dest)
       /\ \E h \in CgrAnswers(p.dest) :
             \/ NextHopReady(h) /\ ForwardNow(p)
             \/ ~NextHopReady(h) /\ StoreIncoming(p)
    \/ /\ p.dest \notin Local /\ ~is_dtn_destination(p.dest)
       /\ Send(p)
       /\ UNCHANGED <<storageVars, pool, accepted>>

\* tunif_input: without a free pbuf the packet read from the TUN is lost.
Receive(p) ==
    /\ At("input") /\ p \in todo
    /\ Deliver(p)
    /\ \/ /\ pool > 0
          /\ process_incoming(p)
          /\ Goto("poll")
          /\ UNCHANGED <<forwarding_attempts, last_active_states, base_time>>
       \/ /\ pool = 0
          /\ Goto("poll")
          /\ UNCHANGED <<storageVars, forwarding_attempts, last_active_states, base_time,
                         pool, wire, accepted>>
       \/ pool > 0 /\ p.hbh = << >> /\ Hang
-----------------------------------------------------------------------------
(***************************************************************************)
(* dtn_icmpv6_process for DTN-PCK-RECEIVED, reached for any such message   *)
(* whatever its destination.  Without memory for the rebuilt message the   *)
(* header alone decides; tracking of the quoted destination ends in every  *)
(* case.                                                                   *)
(***************************************************************************)
SlotsOf(d) == {i \in Slot : forwarding_attempts[i] # Free /\ forwarding_attempts[i].destination = d}
FirstSlot(i, S) == i \in S /\ \A j \in S : i <= j

\* Faulty variant: tracking goes on.
remove_tracking_never(d) == UNCHANGED forwarding_attempts

remove_tracking(d) ==
    forwarding_attempts' =
        [i \in Slot |-> IF FirstSlot(i, SlotsOf(d)) THEN Free ELSE forwarding_attempts[i]]

\* Payloads that are no longer in the list are no longer in custody.
PaysIn(list) == {list[i].p.pay : i \in DOMAIN list}
ReleaseGone == accepted' = accepted \ (PaysIn(packet_list) \ PaysIn(packet_list'))

process_received(q) ==
    /\ \/ delete_packet_by_icmp_data(q)
       \/ AllocMayFail /\ delete_packet_by_ip_header(q)
    /\ IF proc' = "hung" THEN UNCHANGED forwarding_attempts ELSE remove_tracking(q.dest)
    /\ ReleaseGone

ReceiveAck(p) ==
    /\ At("input") /\ p \in wire /\ pool > 0
    /\ wire' = IF Resend THEN wire ELSE wire \ {p}
    /\ process_received(Quote(p))
    /\ Goto("poll")
    /\ UNCHANGED <<last_active_states, base_time, pool, todo>>

\* Input that changes nothing: a packet that is too short or not IPv6, one
\* of the other three DTN messages, one for which there is no memory.
Ignore ==
    /\ At("input")
    /\ Goto("poll")
    /\ UNCHANGED <<storageVars, forwarding_attempts, last_active_states, base_time, pool,
                   netVars, accepted>>

\* The custody walk over the acknowledgement itself does not return.
HangOnAck(p) == At("input") /\ p \in wire /\ pool > 0 /\ Hang /\ UNCHANGED todo
-----------------------------------------------------------------------------
(***************************************************************************)
(* The loop: select times out after CONTACT_CHECK_INTERVAL_MS, the unit of *)
(* the clock; the contacts are checked; a pass over the stored packets is  *)
(* made only when some contact has become active.                          *)
(***************************************************************************)
Idle ==
    /\ At("input")
    /\ now' = (now + 1) % ClockMod
    /\ Goto("poll")
    /\ UNCHANGED <<packet_list, stored_packets_count, disk, proc>>
    /\ UNCHANGED <<forwarding_attempts, last_active_states, base_time, pool, netVars, accepted>>

Poll ==
    /\ At("poll")
    /\ update_contacts
    /\ Goto(IF ContactOpened THEN "pass" ELSE "input")
    /\ UNCHANGED <<storageVars, forwarding_attempts, base_time, pool, netVars, accepted>>

BeginPass ==
    /\ At("pass")
    /\ update_contacts
    /\ pc' = "entry"
    /\ entry' = IF packet_list = << >> THEN NULL ELSE packet_list[1].ptr
    /\ UNCHANGED next_entry
    /\ UNCHANGED <<storageVars, forwarding_attempts, base_time, pool, netVars, accepted>>

EndPass ==
    /\ At("entry") /\ entry = NULL
    /\ Goto("input")
    /\ UNCHANGED <<storageVars, forwarding_attempts, last_active_states, base_time, pool,
                   netVars, accepted>>
-----------------------------------------------------------------------------
(***************************************************************************)
(* should_attempt_forward for the entry at position k of the list.         *)
(***************************************************************************)
After(k) == IF k < Len(packet_list) THEN packet_list[k + 1].ptr ELSE NULL
Cursor(k) == At("entry") /\ k \in DOMAIN packet_list /\ packet_list[k].ptr = entry

time_since_last_attempt(i) == (now - forwarding_attempts[i].last_attempt_time) % ClockMod
\* Faulty variants: milliseconds compared as seconds; one attempt too many.
DueInSeconds(i) == time_since_last_attempt(i) \div 1000 >= RetryDelay
ExhaustedLate(i) == forwarding_attempts[i].retry_count > MaxRetries

Due(i) == time_since_last_attempt(i) >= RetryDelay
Exhausted(i) == forwarding_attempts[i].retry_count >= MaxRetries

\* The answer is yes: the entry is looked at further.
Proceed(k) ==
    /\ pc' = "send" /\ next_entry' = After(k)
    /\ UNCHANGED <<entry, storageVars, last_active_states, base_time, pool, netVars, accepted>>

\* The answer is no: on to the entry that followed before the call.
Skip(k) ==
    /\ entry' = After(k)
    /\ UNCHANGED <<pc, next_entry, last_active_states, base_time, pool, netVars>>

\* Faulty variant: the table is not searched first.
FirstAttemptUnsearched(k) ==
    /\ Cursor(k)
    /\ \E i \in Slot :
          /\ FirstSlot(i, {j \in Slot : forwarding_attempts[j] = Free})
          /\ forwarding_attempts' = [forwarding_attempts EXCEPT ![i] =
                [destination |-> packet_list[k].p.dest, last_attempt_time |-> now, retry_count |-> 1]]
    /\ Proceed(k)

FirstAttempt(k) ==
    LET d == packet_list[k].p.dest
        unused == {i \in Slot : forwarding_attempts[i] = Free}
    IN  /\ Cursor(k) /\ SlotsOf(d) = {}
        /\ forwarding_attempts' =
              [i \in Slot |-> IF FirstSlot(i, unused)
                              THEN [destination |-> d, last_attempt_time |-> now, retry_count |-> 1]
                              ELSE forwarding_attempts[i]]
        /\ Proceed(k)

Retry(k, i) ==
    /\ Cursor(k) /\ FirstSlot(i, SlotsOf(packet_list[k].p.dest))
    /\ Due(i) /\ ~Exhausted(i)
    /\ forwarding_attempts' = [forwarding_attempts EXCEPT ![i].last_attempt_time = now,
                                                          ![i].retry_count = @ + 1]
    /\ Proceed(k)

GiveUp(k, i) ==
    /\ Cursor(k) /\ FirstSlot(i, SlotsOf(packet_list[k].p.dest))
    /\ Due(i) /\ Exhausted(i)
    /\ retrieve_packet_for_dest(packet_list[k].p.dest)
    /\ forwarding_attempts' = [forwarding_attempts EXCEPT ![i] = Free]
    /\ ReleaseGone
    /\ Skip(k)

TooSoon(k, i) ==
    /\ Cursor(k) /\ FirstSlot(i, SlotsOf(packet_list[k].p.dest))
    /\ ~Due(i)
    /\ Skip(k)
    /\ UNCHANGED <<storageVars, forwarding_attempts, accepted>>

(***************************************************************************)
(* The rest of the loop body: ask for a next hop, and send a copy with the *)
(* custody option.  The entry stays stored until it is acknowledged.       *)
(***************************************************************************)
ForwardEntry(k) ==
    /\ At("send") /\ k \in DOMAIN packet_list /\ packet_list[k].ptr = entry
    /\ \/ /\ \E h \in CgrAnswers(packet_list[k].p.dest) :
                 /\ NextHopReady(h)
                 /\ \E f \in AddedForms(packet_list[k].p) : Send(f)
       \/ /\ \E h \in CgrAnswers(packet_list[k].p.dest) : AllocMayFail \/ ~NextHopReady(h)
          /\ UNCHANGED wire
    /\ pc' = "entry" /\ entry' = next_entry
    /\ UNCHANGED <<next_entry, todo, storageVars, forwarding_attempts, last_active_states,
                   base_time, pool, accepted>>

HangOnEntry(k) ==
    /\ At("send") /\ k \in DOMAIN packet_list /\ packet_list[k].ptr = entry
    /\ packet_list[k].p.hbh = << >>
    /\ Hang /\ UNCHANGED todo
-----------------------------------------------------------------------------
(***************************************************************************)
(* The process dies, or leaves the loop and cleans up; it starts again.    *)
(***************************************************************************)
ResetNode ==
    /\ forwarding_attempts' = [i \in Slot |-> Free]
    /\ last_active_states' = [c \in Watched |-> FALSE]
    /\ pool' = PoolSize
    /\ pc' = "input" /\ entry' = NULL /\ next_entry' = NULL

Die ==
    /\ \/ Crash /\ UNCHANGED todo
       \/ \E p \in todo : /\ At("input") /\ pool > 0
                          /\ p.dest \notin Local /\ is_dtn_destination(p.dest)
                          /\ \E h \in CgrAnswers(p.dest) : ~NextHopReady(h)
                          /\ CrashInStore(p)
                          /\ Deliver(p)
    /\ ResetNode
    /\ UNCHANGED <<base_time, wire, accepted>>

Start ==
    /\ Restart
    /\ base_time' = now
    /\ UNCHANGED <<forwarding_attempts, last_active_states, pool, controlVars, netVars, accepted>>

TimePasses ==
    /\ SlowSteps \/ proc # "running"
    /\ Tick
    /\ UNCHANGED nodeVars
-----------------------------------------------------------------------------
NodeInit ==
    /\ StorageInit
    /\ forwarding_attempts = [i \in Slot |-> Free]
    /\ last_active_states = [c \in Watched |-> FALSE]
    /\ base_time = now
    /\ pool = PoolSize
    /\ pc = "input" /\ entry = NULL /\ next_entry = NULL
    /\ todo = Arrivals
    /\ wire = {}
    /\ accepted = {}

PassStep ==
    \E k \in DOMAIN packet_list :
        \/ FirstAttempt(k)
        \/ \E i \in Slot : Retry(k, i) \/ GiveUp(k, i) \/ TooSoon(k, i)
        \/ ForwardEntry(k)
        \/ HangOnEntry(k)

LoopStep == Poll \/ BeginPass \/ EndPass \/ PassStep

Network ==
    \/ \E p \in todo : Receive(p)
    \/ \E p \in wire : ReceiveAck(p) \/ HangOnAck(p)
    \/ Ignore

\* Without crashes: the process runs for as long as the model is watched.
RunNext == Idle \/ LoopStep \/ Network \/ TimePasses
NodeNext == RunNext \/ Die \/ Start

RunSpec == NodeInit /\ [][RunNext]_vars
NodeSpec == NodeInit /\ [][NodeNext]_vars

\* The process is scheduled, and the TUN device is not readable at every
\* single select: the timeout happens again and again.
LiveSpec == RunSpec /\ WF_vars(LoopStep) /\ SF_vars(Idle)
-----------------------------------------------------------------------------
\* Type correctness of the node's own state.
NodeTypeOK ==
    /\ forwarding_attempts \in [Slot -> Attempt \cup {Free}]
    /\ last_active_states \in [Watched -> BOOLEAN]
    /\ base_time \in Time
    /\ pool \in 0 .. PoolSize
    /\ pc \in {"input", "poll", "pass", "entry", "send"}
    /\ entry \in Ptr \cup {NULL} /\ next_entry \in Ptr \cup {NULL}
    /\ todo \subseteq Arrivals
    /\ wire \subseteq Packet
    /\ accepted \subseteq Payload \cup {Mangled}

\* attempt_forward_stored never follows a pointer to a freed entry, though
\* should_attempt_forward may free one under its loop: the entry at hand is
\* in the list whenever it is used, and the saved next_entry is still the
\* one that follows it.
NoDanglingCursor ==
    proc = "running" =>
        /\ pc = "entry" => entry \in Ptrs \cup {NULL}
        /\ pc = "send" => \E k \in DOMAIN packet_list :
                            packet_list[k].ptr = entry /\ next_entry = After(k)

\* A destination is tracked in at most one slot, so the first match that
\* should_attempt_forward and remove_tracking stop at is the only one.
TrackingDistinct == \A i, j \in Slot :
    forwarding_attempts[i] # Free /\ forwarding_attempts[j] # Free
    /\ forwarding_attempts[i].destination = forwarding_attempts[j].destination => i = j

\* A destination in the tracking table has been tried at least once and at
\* most MAX_FORWARDING_RETRIES times.
RetryBound == \A i \in Slot :
    forwarding_attempts[i] # Free => forwarding_attempts[i].retry_count \in 1 .. MaxRetries

\* A packet this node has acknowledged to its previous custodian is on disk
\* until the node releases it, by an acknowledgement of its own or by giving
\* up, whatever crashes and restarts happen in between.  (As long as the
\* write in fclose succeeds and no two stores share a name.)
CustodyKept == \A x \in accepted : \E n \in Complete : disk[n].pay = x

\* Every packet for a DTN destination that leaves the node carries one
\* custody option, in front, naming this node, and an undamaged payload, on
\* the direct path and on the stored one.
WireWellFormed == \A p \in wire :
    is_dtn_destination(p.dest) => p.hbh = <<CustodyHeader(Me)>> /\ p.pay # Mangled

\* No packet stays stored for ever: while contacts recur, every stored packet
\* is acknowledged or given up, whatever happens to the acknowledgements and
\* to the other packets, and even when the tracking table is too small for
\* all destinations.
NothingHeldForever ==
    \A x \in Payload : x \in PaysIn(packet_list) ~> x \notin PaysIn(packet_list)

\* While a packet is stored, an acknowledgement that quotes it takes a packet
\* out of the list: "Delete the stored packet" in dtn_icmpv6_process.
AckDeletesStored ==
    [][\A p \in wire : ReceiveAck(p) /\ p.pay \in PaysIn(packet_list) =>
          Len(packet_list') < Len(packet_list)]_vars

\* A node that stores and forwards goes on receiving: there is a pbuf for
\* the next packet.
KeepsReceiving == proc = "running" => pool > 0
=============================================================================
