------------------------------- MODULE MCNode -------------------------------
(***************************************************************************)
(* Values for model checking DtnNode: two neighbours d1 and d2 that are in *)
(* contact one after the other, a host of this node (loc), a host outside  *)
(* the DTN (ext), and senders a1, a2, a3.                                  *)
(***************************************************************************)
EXTENDS DtnNode

CONSTANTS a1, a2, a3, d1, d2, me, loc, ext, udp, x1, x2, x3, x4

Pkt(x, s, d, h) == [pay |-> x, src |-> s, dest |-> d, nexth |-> udp, len |-> 100, hbh |-> h]

MCAddr == {a1, a2, a3, d1, d2, me, loc, ext}
MCProto == {udp}
MCPayload == {x1, x2, x3, x4}
MCLocal == {loc}

MCPlan == <<[node |-> d1, start |-> 1, end |-> 2], [node |-> d2, start |-> 2, end |-> 3]>>

\* A turn of the clock with one contact with each.
ShortPlan == <<[node |-> d1, start |-> 1, end |-> 1], [node |-> d2, start |-> 2, end |-> 2]>>

\* Each neighbour twice in a turn of the clock.
TwicePlan == <<[node |-> d1, start |-> 1, end |-> 1], [node |-> d2, start |-> 2, end |-> 2],
               [node |-> d1, start |-> 3, end |-> 3], [node |-> d2, start |-> 4, end |-> 4]>>

\* A route to each neighbour over itself; to d1 there may be none.
MCCgr(d) == CASE d = d1 -> {d1, NoHop} [] d = d2 -> {d2} [] OTHER -> {NoHop}
\* The route is always the neighbour itself.
DirectCgr(d) == {d}

\* One packet per sender: without and with a previous custodian.
Distinct == {Pkt(x1, a1, d1, << >>), Pkt(x2, a2, d2, <<CustodyHeader(a1)>>)}
DistinctSameDest == {Pkt(x1, a1, d1, << >>), Pkt(x2, a2, d1, <<CustodyHeader(a1)>>)}
\* Three senders, two neighbours and a host outside the DTN.
Three == DistinctSameDest \cup {Pkt(x3, a3, d2, << >>), Pkt(x4, a3, ext, << >>)}
\* Two packets of one sender, and one for this node itself.
OneSender == {Pkt(x1, a1, d1, <<CustodyHeader(a2)>>), Pkt(x2, a1, d1, << >>), Pkt(x4, a3, loc, << >>)}
=============================================================================
