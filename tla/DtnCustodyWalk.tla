---------------------------- MODULE DtnCustodyWalk ----------------------------
(***************************************************************************)
(* dtn_extract_custodian_option: the walk over extension headers in search *)
(* of a hop-by-hop header.  It runs on every packet that comes in, before  *)
(* anything else is known of it, and on every stored packet that is tried. *)
(*                                                                         *)
(* What lies behind the fixed header is a sequence of 8-byte units, of     *)
(* which the walk reads the first two bytes (b0, b1); custodian says that  *)
(* a unit begins a custody option.  Extension headers are whole units, so  *)
(* ptr counts units.                                                       *)
(***************************************************************************)
EXTENDS Integers, Sequences

CONSTANT Inputs     \* packets: [nexth, body], body a sequence of units

VARIABLES input, nexth, ptr, pc

walkVars == <<input, nexth, ptr, pc>>

IP6_NEXTH_HOPOPTS == 0
IP6_NEXTH_NONE == 59

\* Faulty variant: the length field is taken as the length.
elenUncorrected(u) == ((u.b1 * 8) % 256) \div 8

\* (ext[1] + 1) * 8 in a uint8_t, as a number of units.
elen(u) == (((u.b1 + 1) * 8) % 256) \div 8

Stops(n) == n \in {IP6_NEXTH_HOPOPTS, IP6_NEXTH_NONE}

WalkInit ==
    /\ input \in Inputs
    /\ nexth = input.nexth
    /\ ptr = 1
    /\ pc = "walk"

\* One iteration of the loop.  Behind the packet's last byte lies memory
\* that is not the packet's.
SkipHeader ==
    /\ pc = "walk" /\ ~Stops(nexth) /\ ptr <= Len(input.body)
    /\ nexth' = input.body[ptr].b0
    /\ ptr' = ptr + elen(input.body[ptr])
    /\ UNCHANGED <<input, pc>>

Overrun ==
    /\ pc = "walk" /\ nexth # IP6_NEXTH_NONE /\ ptr > Len(input.body)
    /\ pc' = "outside"
    /\ UNCHANGED <<input, nexth, ptr>>

Finish ==
    /\ pc = "walk" /\ Stops(nexth)
    /\ \/ nexth = IP6_NEXTH_NONE /\ pc' = "absent"
       \/ /\ nexth = IP6_NEXTH_HOPOPTS /\ ptr <= Len(input.body)
          /\ pc' = IF input.body[ptr].custodian THEN "found" ELSE "absent"
    /\ UNCHANGED <<input, nexth, ptr>>

Returned == pc # "walk" /\ UNCHANGED walkVars

WalkNext == SkipHeader \/ Finish \/ Overrun \/ Returned
WalkSpec == WalkInit /\ [][WalkNext]_walkVars /\ WF_walkVars(SkipHeader \/ Finish \/ Overrun)

\* The function returns, for every packet ("Skip extension headers until
\* Hop-by-Hop").
WalkEnds == <>(pc # "walk")
=============================================================================
