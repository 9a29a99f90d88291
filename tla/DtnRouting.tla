----------------------------- MODULE DtnRouting -----------------------------
(***************************************************************************)
(* What the controller does with a packet for another node: it asks the    *)
(* contact list of dtn_routing.c whether the destination is a DTN node,    *)
(* asks contact graph routing (module Cgr) for a next hop, and asks the    *)
(* contact list whether that hop has a contact now.                        *)
(*                                                                         *)
(* The contact list and the contact plan of py_cgr_lib come from two files *)
(* and two loaders.  A file is a sequence of lines; a line is a comment, a *)
(* contact, or a contact with a field missing ("partial"), which only the  *)
(* Python loader refuses.  Times in files are relative to base_time, the   *)
(* clock when the program started.  The clock has ClockMod readings; the   *)
(* C loader's sums wrap like it, the Python loader's do not.               *)
(***************************************************************************)
EXTENDS Cgr, ContactWindow

CONSTANTS Deployments,  \* pairs of the file of the list and the file of the plan
          NoFile,       \* a file that cannot be opened
          BaseTimes, Elapsed, SenderAddresses,
          MaxDelay,     \* of the second reading of the clock after the first
          MaxContacts,  \* MAX_LENGTH
          ClockMod      \* 2^32

ASSUME RoutingAssumption ==
    /\ \A d \in Deployments : \A f \in {d.list, d.plan} \ {NoFile} : \A i \in DOMAIN f :
          /\ f[i].kind \in {"comment", "contact", "partial"}
          /\ f[i].kind # "comment" => /\ {f[i].start, f[i].end, f[i].owlt} \subseteq 0 .. MaxSize - 1
                                      /\ f[i].rate \in Nat \ {0} /\ Size % f[i].rate = 0
    /\ BaseTimes \subseteq 0 .. ClockMod - 1 /\ Elapsed \subseteq Nat /\ MaxDelay \in Nat

VARIABLES deployment, base_time,
          contact_list,  \* node_addr, start_time_ms and end_time_ms of the contacts
          now, sender_ip,
          decision       \* "none" yet, "direct", "forward" or "store"

routingVars == <<deployment, base_time, contact_list, now, sender_ip, decision>>
-----------------------------------------------------------------------------
(***************************************************************************)
(* The two loaders.  The ends of a contact in the list stay relative here; *)
(* IsActive adds base_time to them.                                        *)
(***************************************************************************)
load_contacts(file) ==
    LET known == SelectSeq(file, LAMBDA l : l.kind # "comment" /\ {l.frm, l.to} \subseteq Addressed)
    IN  IF file = NoFile THEN << >>
        ELSE [i \in DOMAIN known |-> [node_addr |-> nodeid_to_ipv6[known[i].to],
                                      start |-> known[i].start, end |-> known[i].end]]

\* The lines that cp_load converts before it has max_contacts contacts.
ReadLines(file) ==
    LET lines == SelectSeq(file, LAMBDA l : l.kind # "comment")
    IN  SubSeq(lines, 1, Min({Len(lines), MaxContacts}))

cp_load_raises(file) ==
    file = NoFile \/ \E i \in DOMAIN ReadLines(file) : ReadLines(file)[i].kind = "partial"

cp_load(file, time_now) ==
    [i \in DOMAIN ReadLines(file) |->
        [ReadLines(file)[i] EXCEPT !.start = @ + time_now, !.end = @ + time_now]]
-----------------------------------------------------------------------------
is_dtn_destination(dest) == \E i \in DOMAIN contact_list : contact_list[i].node_addr = dest

\* Faulty variants: any contact with the hop will do; only the first contact
\* with the hop is looked at.
is_next_hop_listed(hop, time) == \E i \in DOMAIN contact_list : contact_list[i].node_addr = hop
is_next_hop_active_first_only(hop, time) ==
    \E i \in DOMAIN contact_list :
        /\ contact_list[i].node_addr = hop
        /\ \A j \in 1 .. i - 1 : contact_list[j].node_addr # hop
        /\ IsActive(time, base_time, contact_list[i], ClockMod)

is_next_hop_active_contact(hop, time) ==
    \E i \in DOMAIN contact_list :
        /\ contact_list[i].node_addr = hop
        /\ IsActive(time, base_time, contact_list[i], ClockMod)

\* The packet is taken in.  A destination the list does not have is sent to
\* at once.  get_dtn_next_hop loads the plan and reads the clock; an
\* exception of cp_load makes it answer 0.
Arrive ==
    /\ pc = "arrived"
    /\ IF ~is_dtn_destination(nodeid_to_ipv6[Destination])
       THEN /\ decision' = "direct" /\ pc' = "decided"
            /\ UNCHANGED <<contact_plan, curr_time, sender>>
       ELSE IF cp_load_raises(deployment.plan)
       THEN /\ pc' = "done"
            /\ UNCHANGED <<contact_plan, curr_time, sender, decision>>
       ELSE /\ contact_plan' = cp_load(deployment.plan, base_time)
            /\ curr_time' = now
            /\ sender' = ipv6_to_nodeid(sender_ip)
            /\ pc' = "first"
            /\ UNCHANGED decision
    /\ UNCHANGED <<routes, potential_routes, k, spur, answer,
                   deployment, base_time, contact_list, now, sender_ip>>

\* contact_available && active, with the clock read again.
Decide ==
    /\ pc = "done"
    /\ pc' = "decided"
    /\ \E d \in 0 .. MaxDelay : now' = (now + d) % ClockMod
    /\ decision' = IF /\ answer # NoHop
                      /\ is_next_hop_active_contact(nodeid_to_ipv6[answer], now')
                   THEN "forward" ELSE "store"
    /\ UNCHANGED <<contact_plan, curr_time, sender, routes, potential_routes, k, spur, answer,
                   deployment, base_time, contact_list, sender_ip>>

Decided == pc = "decided" /\ UNCHANGED <<vars, routingVars>>

RoutingInit ==
    /\ deployment \in Deployments /\ base_time \in BaseTimes
    /\ contact_list = load_contacts(deployment.list)
    /\ \E e \in Elapsed : now = (base_time + e) % ClockMod
    /\ sender_ip \in SenderAddresses
    /\ decision = "none"
    /\ contact_plan = << >> /\ curr_time = 0 /\ sender = -1
    /\ routes = << >> /\ potential_routes = << >>
    /\ k = 0 /\ spur = 1
    /\ answer = NoHop
    /\ pc = "arrived"

RoutingNext == Arrive \/ (CgrStep /\ UNCHANGED routingVars) \/ Decide \/ Decided

RoutingSpec == RoutingInit /\ [][RoutingNext]_<<vars, routingVars>>
-----------------------------------------------------------------------------
\* The two files are copies of each other, of which cp_load reads all.
SameFile ==
    /\ deployment.list = deployment.plan
    /\ ~cp_load_raises(deployment.plan)
    /\ Len(contact_plan) = Len(contact_list)

\* Contact c of the plan, as its file has it, is open now.
OpenNow(c) ==
    LET l == ReadLines(deployment.plan)[c] IN InWindow(now, base_time, l, ClockMod)

\* A packet that is forwarded on arrival leaves while a contact of this node
\* with the next hop is open, whatever the time the route search took, and
\* although the route and the contact come from two loaders: the lists agree
\* on times, nodes and the wrapped clock.  (For files with one content and a
\* hop that only this node has contacts with: is_next_hop_active_contact
\* does not look at the contact's other end.)
ForwardedInContact ==
    /\ decision = "forward" /\ SameFile
    /\ \A c \in Contacts : contact_plan[c].to = answer => contact_plan[c].frm = Source
    => \E c \in Contacts : contact_plan[c].to = answer /\ OpenNow(c)

\* A packet is not stored needlessly: if there are routes over which it can be
\* delivered, then one of them starts at a neighbour that this node has no
\* open contact with.  (For files with one content, unless K routes were
\* found before one of these or the clock wraps inside a contact.)
StoredOnlyWhenClosed ==
    /\ decision = "store" /\ SameFile /\ Len(routes) < NumRoutes
    /\ \A c \in Contacts : ~SpansWrap(base_time, ReadLines(deployment.plan)[c], ClockMod)
    => LET good == {r \in AllRoutes : Deliverable(r)}
       IN  good # {} => \E r \in good : \A c \in Contacts :
              Hop(c).frm = Source /\ Hop(c).to = NextNode(r) => ~OpenNow(c)

\* A packet does not go back to the address that it came from, its custodian's
\* or its source's: the address becomes text, the text a node number, the
\* number of the answer an address again.
NeverBackToSender ==
    decision = "forward" => nodeid_to_ipv6[answer] # sender_ip
=============================================================================
