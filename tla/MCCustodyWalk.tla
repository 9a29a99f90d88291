--------------------------- MODULE MCCustodyWalk ---------------------------
(***************************************************************************)
(* Packets for the custody walk: chains of extension headers, and the      *)
(* acknowledgements that DTN nodes send one another.                       *)
(***************************************************************************)
EXTENDS DtnCustodyWalk, SequencesExt

Unit(b0, b1, c) == [b0 |-> b0, b1 |-> b1, custodian |-> c]
Filler == Unit(255, 255, FALSE)
DestOptions == 60

\* An extension header of n units that announces the type next.
Header(n, next, c) == <<Unit(next, n - 1, c)>> \o [i \in 1 .. n - 1 |-> Filler]

\* Lengths of the extension headers, and what ends the chain.  A header may
\* have 256 units; from 32 on its length does not fit the uint8_t of the walk,
\* and such headers are left out.
Lengths == UNION {[1 .. k -> {1, 2, 3, 30, 31}] : k \in 0 .. 3}
Endings == {"custody", "hopbyhop", "none"}

EndType(e) == IF e = "none" THEN IP6_NEXTH_NONE ELSE IP6_NEXTH_HOPOPTS
EndBody(e) == IF e = "none" THEN << >> ELSE Header(3, 17, e = "custody")

ChainBody(l, e) ==
    FlattenSeq([i \in DOMAIN l |->
        Header(l[i], IF i = Len(l) THEN EndType(e) ELSE DestOptions, FALSE)]) \o EndBody(e)

\* A chain, and one that is cut behind its first n units.
Chain(l, e, n) == [nexth |-> IF l = << >> THEN EndType(e) ELSE DestOptions,
                   body |-> SubSeq(ChainBody(l, e), 1, n), lengths |-> l, ending |-> e,
                   cut |-> n < Len(ChainBody(l, e))]

Chains == {Chain(l, e, Len(ChainBody(l, e))) : l \in Lengths, e \in Endings}
          \cup {Chain(l, e, 1) : l \in [1 .. 2 -> {1, 2}], e \in Endings}

\* A DTN-PCK-RECEIVED message with code c: the ICMPv6 header (type 200), the
\* DTN payload that begins with the sender's clock, low byte first, and the
\* quoted header.  The bytes that matter come from the layout of
\* dtn_icmpv6_send_message for addresses in fd00::/16 and a quoted packet
\* that carries the custody option.
Ack(c, t0, t1) ==
    [nexth |-> 58,
     body |-> <<Unit(200, c, FALSE), Unit(t0, t1, FALSE), Unit(0, 96, FALSE),
                Unit(64, 253, FALSE), Unit(0, 0, FALSE), Unit(1, 253, FALSE),
                Unit(0, 0, FALSE), Unit(2, 17, FALSE), Unit(0, 0, FALSE)>>]

Acks == {Ack(0, t0, t1) : t0 \in {0, 8, 59, 200}, t1 \in 0 .. 63}

\* On a chain of extension headers of at most 31 units each, none of it cut
\* off, the walk stays inside the packet and its answer is that of adding up
\* the headers' lengths: it stops behind the last one, and finds the custodian
\* exactly when the header there is a custody header.
FollowsChain ==
    /\ pc = "outside" => input.cut
    /\ pc \in {"found", "absent"} =>
          /\ ptr = 1 + FoldLeft(LAMBDA a, b : a + b, 0, input.lengths)
          /\ pc = "found" <=> input.ending = "custody"
=============================================================================
