------------------------------ MODULE MCStorage ------------------------------
(***************************************************************************)
(* Values for model checking DtnStorage alone.                             *)
(***************************************************************************)
EXTENDS DtnStorage

CONSTANTS a1, a2, d1, d2, me, udp, tcp, x1, x2, x3

Pkt(x, s, d, h, l) == [pay |-> x, src |-> s, dest |-> d, nexth |-> udp, len |-> l, hbh |-> h]

MCAddr == {a1, a2, d1, d2, me}
MCProto == {udp, tcp}
MCPayload == {x1, x2, x3}

\* A hop-by-hop header of eight bytes that holds no custody option.
OtherOption == [opt |-> "other", addr |-> a1, bytes |-> 8]

\* Two packets of one source for two destinations, one of them with the
\* previous custodian's option, and a long one of another source with some
\* other option.
MCArrivals == {Pkt(x1, a1, d1, << >>, 100),
               Pkt(x2, a1, d2, <<CustodyHeader(a2)>>, 100),
               Pkt(x3, a2, d1, <<OtherOption>>, 400)}
=============================================================================
