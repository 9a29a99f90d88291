--------------------------------- MODULE Cgr ---------------------------------
(***************************************************************************)
(* Contact graph routing: py_cgr_lib.py, and dtn_routing_get_dtn_next_hop, *)
(* which calls it.  One behaviour is one call: cgr_yen collects routes,    *)
(* one spur contact per step; fwd_candidate chooses among them.  DtnRouting *)
(* starts the call and uses its answer.                                    *)
(*                                                                         *)
(* A contact of the plan is known by its position; Root is the contact     *)
(* from the source to itself that cgr_yen puts in front of every route. A  *)
(* route is the sequence of its contacts.  Times are seconds.              *)
(***************************************************************************)
EXTENDS Integers, FiniteSets, SequencesExt

CONSTANTS Destination,  \* ipv6_to_nodeid of the packet's destination
          NumRoutes, Deadline, Size,
          MaxSize,      \* sys.maxsize
          NoHop

Root == 0
RootRate == 100
-----------------------------------------------------------------------------
(***************************************************************************)
(* The two tables of nodes.  An address is written the way inet_ntop       *)
(* writes it; CURR_NODE_ADDR and some lines of the table are written in    *)
(* another way, which inet_ntop never returns.                             *)
(***************************************************************************)
nodeid_to_ipv6 ==
    [n \in {1, 10, 12, 21, 23, 32} |->
        CASE n = 1 -> "fd00:1::1" [] n = 10 -> "fd00:1::2" [] n = 12 -> "fd00:12::1"
          [] n = 21 -> "fd00:12::2" [] n = 23 -> "fd00:23::2" [] n = 32 -> "fd00:23::3"]

Addressed == DOMAIN nodeid_to_ipv6

\* Faulty variant: the table has node 1 only as CURR_NODE_ADDR writes it.
ipv6_to_nodeid_as_written(text) ==
    CASE text = "fd00:01::1" -> 1 [] text = "fd00:01::2" -> 10 [] text = "fd00:12::1" -> 12
      [] text = "fd00:12::2" -> 21 [] text = "fd00:23::2" -> 23 [] text = "fd00:23::3" -> 32
      [] OTHER -> -1

ipv6_to_nodeid(text) ==
    CASE text \in {"fd00:01::1", "fd00:1::1"} -> 1
      [] text = "fd00:01::2" -> 10 [] text = "fd00:12::1" -> 12
      [] text = "fd00:12::2" -> 21 [] text = "fd00:23::2" -> 23 [] text = "fd00:23::3" -> 32
      [] OTHER -> -1

CURR_NODE_ADDR == "fd00:01::2"
Source == ipv6_to_nodeid(CURR_NODE_ADDR)

ASSUME CgrAssumption ==
    /\ NumRoutes \in Nat \ {0} /\ {Deadline, Size, MaxSize} \subseteq Nat
    /\ Destination \in Addressed /\ ipv6_to_nodeid(nodeid_to_ipv6[Destination]) = Destination
-----------------------------------------------------------------------------
VARIABLES contact_plan, curr_time, sender,
          routes, potential_routes,
          k,        \* iterations of cgr_yen's outer loop so far
          spur,     \* position of the spur contact in the last route
          answer, pc

vars == <<contact_plan, curr_time, sender, routes, potential_routes, k, spur, answer, pc>>

Contacts == DOMAIN contact_plan
Hop(c) ==
    IF c = Root
    THEN [frm |-> Source, to |-> Source, start |-> curr_time, end |-> MaxSize + curr_time,
          rate |-> RootRate, owlt |-> 0]
    ELSE contact_plan[c]
Volume(c) == Hop(c).rate * (Hop(c).end - Hop(c).start)

Later(a, b) == IF a < b THEN b ELSE a
-----------------------------------------------------------------------------
(***************************************************************************)
(* Route.refresh_metrics and the order of routes.  All confidences are 1,  *)
(* so that routes of one delivery time and volume precede each other both  *)
(* ways and a sort may leave them in any order.                            *)
(***************************************************************************)
best_delivery_time(r) == FoldLeft(LAMBDA t, c : Later(t, Hop(c).start) + Hop(c).owlt, 0, r)

\* When each contact sends its first byte, the first one at t0, for a packet
\* that takes size / rate to send.
FirstByte(r, t0, size) ==
    LET fb[i \in DOMAIN r] ==
            IF i = 1 THEN t0
            ELSE LET prev == Hop(r[i - 1])
                 IN  Later(Hop(r[i]).start, fb[i - 1] + size \div prev.rate + prev.owlt)
    IN  fb

VolumeLimit(r, fb) ==
    Min({LET stop == Min({Hop(r[j]).end : j \in i .. Len(r)})
         IN  Min({(stop - fb[i]) * Hop(r[i]).rate, Volume(r[i])}) : i \in DOMAIN r})

volume(r) == VolumeLimit(r, FirstByte(r, Hop(r[1]).start, 0))

\* Faulty variant: the volume goes before the delivery time.
PrecedesByVolume(r, s) == volume(r) >= volume(s)

Precedes(r, s) ==
    \/ best_delivery_time(r) < best_delivery_time(s)
    \/ best_delivery_time(r) = best_delivery_time(s) /\ volume(r) >= volume(s)
-----------------------------------------------------------------------------
(***************************************************************************)
(* cgr_dijkstra from a contact, with the contacts and the first steps that *)
(* cgr_yen suppresses.  A round looks at every contact that leaves where   *)
(* the current one arrives, then goes to the earliest one not visited.     *)
(***************************************************************************)
\* Faulty variant: a contact that ends on arrival is taken.
UsableAtEnd(c, s) ==
    /\ contact_plan[c].frm = Hop(s.current).to
    /\ c \notin s.off \cup s.visited
    /\ s.current = s.spur => c \notin s.suppressed_next_hop
    /\ contact_plan[c].to \notin s.visited_nodes[s.current]
    /\ contact_plan[c].end >= s.arrival_time[s.current]
    /\ Volume(c) > 0
    /\ ~(Hop(s.current).frm = contact_plan[c].to /\ Hop(s.current).to = contact_plan[c].frm)
Usable(c, s) ==
    /\ contact_plan[c].frm = Hop(s.current).to
    /\ c \notin s.off \cup s.visited
    /\ s.current = s.spur => c \notin s.suppressed_next_hop
    /\ contact_plan[c].to \notin s.visited_nodes[s.current]
    /\ contact_plan[c].end > s.arrival_time[s.current]
    /\ Volume(c) > 0
    /\ ~(Hop(s.current).frm = contact_plan[c].to /\ Hop(s.current).to = contact_plan[c].frm)

Earliest(C, arrival) ==
    CHOOSE c \in C : \A d \in C : arrival[c] < arrival[d] \/ (arrival[c] = arrival[d] /\ c <= d)

Round(s) ==
    LET arrive(c) == Later(contact_plan[c].start, s.arrival_time[s.current]) + contact_plan[c].owlt
        better == {c \in Contacts : Usable(c, s) /\ arrive(c) <= s.arrival_time[c]}
        arrival == [c \in DOMAIN s.arrival_time |->
                        IF c \in better THEN arrive(c) ELSE s.arrival_time[c]]
        ends == {c \in better : contact_plan[c].to = Destination
                                /\ arrival[c] < s.earliest_fin_arr_t}
        fin == IF ends = {} THEN s.final_contact ELSE Earliest(ends, arrival)
        fin_t == IF ends = {} THEN s.earliest_fin_arr_t ELSE arrival[fin]
        open == {c \in Contacts : /\ c \notin s.off \cup s.visited \cup {s.current}
                                  /\ arrival[c] <= fin_t /\ arrival[c] < MaxSize}
    IN  [s EXCEPT
            !.arrival_time = arrival,
            !.predecessor = [c \in DOMAIN @ |-> IF c \in better THEN s.current ELSE @[c]],
            !.visited_nodes = [c \in DOMAIN @ |-> IF c \in better
                                 THEN @[s.current] \cup {contact_plan[c].to} ELSE @[c]],
            !.final_contact = fin,
            !.earliest_fin_arr_t = fin_t,
            !.visited = @ \cup {s.current},
            !.done = open = {},
            !.current = IF open = {} THEN @ ELSE Earliest(open, arrival)]

RECURSIVE Explore(_)
Explore(s) == IF s.done THEN s ELSE Explore(Round(s))

\* From final_contact back to the spur contact.
RECURSIVE Back(_, _)
Back(s, c) == IF c = s.spur THEN << >> ELSE Append(Back(s, s.predecessor[c]), c)

NoContact == -1

cgr_dijkstra(from, at, nodes, off, next_off) ==
    LET all == Contacts \cup {Root}
        s == Explore([spur |-> from, current |-> from, off |-> off, suppressed_next_hop |-> next_off,
                      arrival_time |-> [c \in all |-> IF c = from THEN at ELSE MaxSize],
                      predecessor |-> [c \in all |-> NoContact],
                      visited_nodes |-> [c \in all |-> IF c = from THEN nodes ELSE {}],
                      visited |-> {}, final_contact |-> NoContact,
                      earliest_fin_arr_t |-> MaxSize, done |-> FALSE])
    IN  IF s.final_contact = NoContact THEN << >> ELSE Back(s, s.final_contact)
-----------------------------------------------------------------------------
(***************************************************************************)
(* cgr_yen.  A source that is in no contact ends the call with a KeyError, *)
(* to which the caller gives the answer it gives when there is no route.   *)
(***************************************************************************)
FirstRoute ==
    LET r == cgr_dijkstra(Root, curr_time, {Source}, {}, {})
    IN  /\ pc = "first"
        /\ routes' = IF r = << >> THEN << >> ELSE << <<Root>> \o r >>
        /\ pc' = IF r = << >> \/ NumRoutes = 1 THEN "forward" ELSE "spur"
        /\ UNCHANGED <<contact_plan, curr_time, sender, potential_routes, k, spur, answer>>

root_path == SubSeq(Last(routes), 1, spur)
SharesRootPath(r) == Len(r) >= spur /\ SubSeq(r, 1, spur) = root_path

\* Faulty variant: only the last route's next contact is suppressed.
SpurContactLastOnly ==
    /\ pc = "spur" /\ spur < Len(Last(routes))
    /\ LET path == cgr_dijkstra(Last(root_path), best_delivery_time(root_path),
                                {Hop(c).to : c \in Range(root_path)}, Range(Front(root_path)),
                                {Last(routes)[spur + 1]})
       IN  potential_routes' = IF path = << >> THEN potential_routes
                               ELSE Append(potential_routes, root_path \o path)
    /\ spur' = spur + 1
    /\ UNCHANGED <<contact_plan, curr_time, sender, routes, k, answer, pc>>
SpurContact ==
    /\ pc = "spur" /\ spur < Len(Last(routes))
    /\ LET path == cgr_dijkstra(Last(root_path), best_delivery_time(root_path),
                                {Hop(c).to : c \in Range(root_path)}, Range(Front(root_path)),
                                {r[spur + 1] : r \in {q \in Range(routes) : SharesRootPath(q)}})
       IN  potential_routes' = IF path = << >> THEN potential_routes
                               ELSE Append(potential_routes, root_path \o path)
    /\ spur' = spur + 1
    /\ UNCHANGED <<contact_plan, curr_time, sender, routes, k, answer, pc>>

\* Faulty variant: the list is not sorted.
IsAny(r, S) == r \in S

\* The sorted list's first route.
IsBest(r, S) == r \in S /\ \A s \in S : Precedes(r, s)

NextRoute ==
    /\ pc = "spur" /\ spur = Len(Last(routes))
    /\ \/ /\ potential_routes = << >>
          /\ pc' = "forward"
          /\ UNCHANGED <<routes, potential_routes, k, spur>>
       \/ \E i \in DOMAIN potential_routes :
             /\ IsBest(potential_routes[i], Range(potential_routes))
             /\ routes' = Append(routes, potential_routes[i])
             /\ potential_routes' = RemoveAt(potential_routes, i)
             /\ k' = k + 1
             /\ spur' = 1
             /\ pc' = IF k' = NumRoutes - 1 THEN "forward" ELSE "spur"
    /\ UNCHANGED <<contact_plan, curr_time, sender, answer>>
-----------------------------------------------------------------------------
(***************************************************************************)
(* fwd_candidate, on routes without the root contact, and the answer of    *)
(* get_dtn_next_hop.  The sender is the only node ever excluded; there is  *)
(* no backlog; the tests of lines 539 and 584 continue their own loops and *)
(* have no effect.                                                         *)
(***************************************************************************)
ProjectedArrival(r, fb) ==
    LET last == Hop(Last(r)) IN fb[Len(r)] + Size \div last.rate + last.owlt

\* Faulty variant: the packet may go back to its sender.
CandidateReturns(r) ==
    LET first == Hop(r[1])
        early_tx_opportunity == Later(curr_time, first.start)
        fb == FirstByte(r, early_tx_opportunity, Size)
    IN  /\ best_delivery_time(r) <= curr_time + Deadline
        /\ early_tx_opportunity <= first.end
        /\ ProjectedArrival(r, fb) <= curr_time + Deadline
        /\ VolumeLimit(r, fb) > 0

Candidate(r) ==
    LET first == Hop(r[1])
        early_tx_opportunity == Later(curr_time, first.start)
        fb == FirstByte(r, early_tx_opportunity, Size)
    IN  /\ first.to # sender
        /\ best_delivery_time(r) <= curr_time + Deadline
        /\ early_tx_opportunity <= first.end
        /\ ProjectedArrival(r, fb) <= curr_time + Deadline
        /\ VolumeLimit(r, fb) > 0

candidate_routes == {r \in {Tail(q) : q \in Range(routes)} : Candidate(r)}

NextNode(r) == Hop(r[1]).to

Forward ==
    /\ pc = "forward"
    /\ pc' = "done"
    /\ \/ candidate_routes = {} /\ answer' = NoHop
       \/ \E r \in candidate_routes :
             /\ IsBest(r, candidate_routes)
             /\ answer' = IF NextNode(r) \in Addressed THEN NextNode(r) ELSE NoHop
    /\ UNCHANGED <<contact_plan, curr_time, sender, routes, potential_routes, k, spur>>

CgrStep == FirstRoute \/ SpurContact \/ NextRoute \/ Forward
-----------------------------------------------------------------------------
(***************************************************************************)
(* The reference: all ways to the destination that visit no node twice and *)
(* reach every contact before it ends.                                     *)
(***************************************************************************)
WithRoot(r) == <<Root>> \o r
NodesOf(r) == {Source} \cup {Hop(c).to : c \in Range(r)}
MaxHops == Cardinality({contact_plan[c].to : c \in Contacts})

IsRoute(r) ==
    /\ Hop(Last(r)).to = Destination
    /\ Cardinality(NodesOf(r)) = Len(r) + 1
    /\ \A i \in DOMAIN r :
          /\ Hop(r[i]).frm = IF i = 1 THEN Source ELSE Hop(r[i - 1]).to
          /\ Hop(r[i]).end > best_delivery_time(WithRoot(SubSeq(r, 1, i - 1)))
          /\ Volume(r[i]) > 0

AllRoutes == {r \in UNION {[1 .. n -> Contacts] : n \in 1 .. MaxHops} : IsRoute(r)}

Returning == pc \in {"forward", "done"}

\* Every route that cgr_yen keeps leads from the source to the destination,
\* passes no node twice and reaches every contact before it ends, root paths
\* and spur paths joined: the assertion in Route.append never fails.
RoutesLead ==
    \A q \in Range(routes) \cup Range(potential_routes) : Head(q) = Root /\ IsRoute(Tail(q))

\* cgr_yen returns its routes in the order of their delivery, although each
\* is the best of those found so far only.
RoutesInOrder ==
    \A i, j \in DOMAIN routes :
        i < j => best_delivery_time(routes[i]) <= best_delivery_time(routes[j])

\* A route that cgr_yen does not return delivers no earlier than the last one
\* it does return, and none is missing when fewer than K are returned.  The K
\* may repeat one another, as a spur path found again joins potential_routes
\* again: fewer than the "best num_routes (K) routes" can be different ones.
NoBetterRouteMissed ==
    Returning => \A r \in AllRoutes :
        \/ WithRoot(r) \in Range(routes)
        \/ Len(routes) = NumRoutes
           /\ best_delivery_time(Last(routes)) <= best_delivery_time(WithRoot(r))

\* What a candidate is for: the packet goes to a neighbour other than its
\* sender, leaves over every contact while that one and all later ones are
\* still to end, and arrives in time.
Deliverable(r) ==
    LET fb == FirstByte(r, Later(curr_time, Hop(r[1]).start), Size)
    IN  /\ NextNode(r) # sender
        /\ \A i \in DOMAIN r : \A j \in i .. Len(r) : fb[i] < Hop(r[j]).end
        /\ ProjectedArrival(r, fb) <= curr_time + Deadline

\* get_dtn_next_hop answers with the first node of a route over which the
\* packet can be delivered, and has an answer whenever there is such a route,
\* unless K routes, repeated ones included, were found before it.  (For plans
\* whose nodes all have an address.)
AnswerIffDeliverable ==
    pc = "done" /\ {contact_plan[c].to : c \in Contacts} \subseteq Addressed =>
        LET good == {r \in AllRoutes : Deliverable(r)}
        IN  IF answer = NoHop THEN good = {} \/ Len(routes) = NumRoutes
                              ELSE \E r \in good : NextNode(r) = answer

\* "1st priority : arrival time" (Route.__lt__): no route over which the
\* packet can be delivered arrives earlier than one that starts at the
\* answer, as long as no contact of the plan has begun before the call.
\* (refresh_metrics without the root contact dates a contact that has begun
\* from its start.)
EarliestAnswer ==
    pc = "done" /\ answer # NoHop /\ (\A c \in Contacts : contact_plan[c].start >= curr_time) =>
        \E r \in candidate_routes :
            /\ NextNode(r) = answer
            /\ \A q \in AllRoutes : Deliverable(q) =>
                  best_delivery_time(WithRoot(r)) <= best_delivery_time(WithRoot(q))
=============================================================================
