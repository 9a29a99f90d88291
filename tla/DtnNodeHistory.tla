--------------------------- MODULE DtnNodeHistory ---------------------------
(***************************************************************************)
(* The node with a record of what it has tried: tries has, for each stored *)
(* packet, how often should_attempt_forward let it through since it was    *)
(* stored.  The node itself counts attempts by destination.                *)
(***************************************************************************)
EXTENDS DtnNode

VARIABLE tries      \* payload -> attempts, up to MaxRetries

historyVars == <<vars, tries>>

Attempted ==
    {packet_list[k].p.pay : k \in {j \in DOMAIN packet_list : Cursor(j) /\ pc' = "send"}}

CountTries ==
    tries' = [x \in Payload |->
                 CASE x \notin PaysIn(packet_list') -> 0
                   [] x \in Attempted /\ tries[x] < MaxRetries -> tries[x] + 1
                   [] OTHER -> tries[x]]

\* LiveSpec with the record.
HistorySpec ==
    /\ NodeInit /\ tries = [x \in Payload |-> 0]
    /\ [][RunNext /\ CountTries]_historyVars
    /\ WF_vars(LoopStep) /\ SF_vars(Idle)
-----------------------------------------------------------------------------
\* "Deleting packet for %s after %d failed transmission attempts": a packet is
\* given up only after MAX_FORWARDING_RETRIES attempts of its own, although
\* the attempts of all packets for a destination share one counter, that an
\* acknowledgement of any of them clears, and a destination may find no slot.
\* (An attempt may end without a transmission.  And packets of one source go
\* to one DTN destination here: otherwise an acknowledgement may release the
\* packet of one destination and clear the counter of another.)
GivenUpAfterRetries ==
    [][\A x \in PaysIn(packet_list) \ PaysIn(packet_list') :
          At("entry") => tries[x] = MaxRetries]_historyVars
=============================================================================
