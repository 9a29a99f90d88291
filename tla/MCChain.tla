------------------------------ MODULE MCChain -------------------------------
(***************************************************************************)
(* Values for model checking DtnChain: three nodes, two packets, of two    *)
(* senders or of one.                                                      *)
(***************************************************************************)
EXTENDS DtnChain

CONSTANTS a1, a2, n1, n2, n3, dst, udp, x1, x2

Pkt(x, s) == [pay |-> x, src |-> s, dest |-> dst, nexth |-> udp, len |-> 100, hbh |-> << >>]

MCAddr == {a1, a2, n1, n2, n3, dst}
MCProto == {udp}
MCPayload == {x1, x2}
MCNodeAddr == <<n1, n2, n3>>
TwoSenders == {Pkt(x1, a1), Pkt(x2, a2)}
OneSender == {Pkt(x1, a1), Pkt(x2, a1)}
=============================================================================
