------------------------------ MODULE DtnPacket ------------------------------
(***************************************************************************)
(* IPv6 packets as the DTN module sees them, the custody option that       *)
(* dtn_custody.c puts in front of them, and the quotation of a packet that *)
(* a DTN-PCK-RECEIVED message carries back (dtn_icmpv6.c).                 *)
(*                                                                         *)
(* A packet keeps what the code tells apart: its addresses, its upper      *)
(* protocol, its length without hop-by-hop headers in bytes, the chain of  *)
(* hop-by-hop headers in front of the payload, and the identity of the     *)
(* payload itself.                                                         *)
(***************************************************************************)
EXTENDS Integers, Sequences

CONSTANTS Addr,         \* IPv6 addresses
          Proto,        \* upper-layer protocols (never hop-by-hop)
          Payload,      \* identities of payloads
          Mangled,      \* a payload that was cut or shifted
          HopByHop      \* next-header value 0

ASSUME PacketAssumption ==
    /\ HopByHop \notin Proto
    /\ Mangled \notin Payload

IP6_HLEN == 40
HBH_OPT_HDR_LEN == 24

\* A hop-by-hop header: its first option and its real length in bytes.
CustodyHeader(a) == [opt |-> "custody", addr |-> a, bytes |-> HBH_OPT_HDR_LEN]
HbhHeader == [opt : {"custody", "other"}, addr : Addr, bytes : Nat]

Packet == [pay : Payload \cup {Mangled}, src : Addr, dest : Addr,
           nexth : Proto, len : Nat, hbh : Seq(HbhHeader)]

\* A packet with a hop-by-hop header has at least 24 bytes behind the fixed
\* header (strip_custodian_option's length arithmetic relies on it).
WellSized(p) == p.hbh # << >> => p.len + p.hbh[1].bytes >= IP6_HLEN + HBH_OPT_HDR_LEN

HasCustody(p) == p.hbh # << >> /\ p.hbh[1].opt = "custody"

\* IP6H_NEXTH of the fixed header.
NextHeader(p) == IF p.hbh = << >> THEN p.nexth ELSE HopByHop
-----------------------------------------------------------------------------
(***************************************************************************)
(* dtn_custody.c.  add puts a 24-byte header in front of whatever is       *)
(* there; strip cuts 24 bytes behind the fixed header, whatever the        *)
(* hop-by-hop header's own length field says; update rewrites the address  *)
(* in place when the first header is a custody header.                     *)
(***************************************************************************)
AddCustodian(p, a) == [p EXCEPT !.hbh = <<CustodyHeader(a)>> \o @]

StripCustodian(p) ==
    IF p.hbh = << >> THEN p
    ELSE [p EXCEPT !.hbh = Tail(p.hbh),
                   !.len = p.len + p.hbh[1].bytes - HBH_OPT_HDR_LEN,
                   !.pay = IF p.hbh[1].bytes = HBH_OPT_HDR_LEN THEN p.pay ELSE Mangled]

\* Faulty variant: always adds.
AlwaysAddCustodian(p, a) == AddCustodian(p, a)

UpdateOrAddCustodian(p, a) ==
    IF HasCustody(p) THEN [p EXCEPT !.hbh[1].addr = a]
                     ELSE AddCustodian(StripCustodian(p), a)
-----------------------------------------------------------------------------
(***************************************************************************)
(* The original header and first eight payload bytes that an               *)
(* acknowledgement quotes, as dtn_storage_delete_packet_by_icmp_data reads *)
(* them: off is orig_payload_offset, nexth is orig_nexth behind the first  *)
(* hop-by-hop header.                                                      *)
(***************************************************************************)
\* Faulty variant: the protocol is not looked up behind the hop-by-hop header.
QuoteOuterProtocol(p) ==
    [src |-> p.src, dest |-> p.dest, pay |-> p.pay,
     off |-> IF p.hbh = << >> THEN 0 ELSE p.hbh[1].bytes, nexth |-> NextHeader(p)]

Quote(p) ==
    [src   |-> p.src,
     dest  |-> p.dest,
     pay   |-> p.pay,
     off   |-> IF p.hbh = << >> THEN 0 ELSE p.hbh[1].bytes,
     nexth |-> IF Len(p.hbh) < 2 THEN p.nexth ELSE HopByHop]

QuoteType == [src : Addr, dest : Addr, pay : Payload \cup {Mangled}, off : Nat,
              nexth : Proto \cup {HopByHop}]

\* u8_t actual_payload_bytes = 8 - orig_payload_offset: the subtraction wraps.
ActualPayloadBytes(q) == (8 - q.off) % 256

\* The payload comparison is made only when the stored packet is long enough.
PayloadCompared(s, q) == s.len >= IP6_HLEN + ActualPayloadBytes(q)

\* The comparison runs over bytes the quotation holds only when no
\* hop-by-hop header was skipped; behind one it reads past the quotation,
\* and either result is possible.
SameUpperLayer(s, q) == s.src = q.src /\ NextHeader(s) = q.nexth

MayMatch(s, q) ==
    /\ SameUpperLayer(s, q)
    /\ PayloadCompared(s, q) /\ q.off = 0 => s.pay = q.pay
MustMatch(s, q) ==
    /\ SameUpperLayer(s, q)
    /\ PayloadCompared(s, q) => q.off = 0 /\ s.pay = q.pay

\* The match of dtn_storage_delete_packet_by_ip_header.
HeaderMatch(s, q) == s.src = q.src /\ s.dest = q.dest
=============================================================================
