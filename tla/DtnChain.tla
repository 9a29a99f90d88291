------------------------------ MODULE DtnChain ------------------------------
(***************************************************************************)
(* Custody transfer over a line of DTN nodes 1 .. N: packets enter at node *)
(* 1 and are for the stack of node N.  Each node runs the code that        *)
(* DtnNode models step by step; here a pass over the stored packets is one *)
(* step, because nothing but time and the end of the process can come      *)
(* between its parts, and the list stands for memory and disk alike, which *)
(* DtnStorage shows to agree.                                              *)
(*                                                                         *)
(* A packet or an acknowledgement that was sent arrives at any later time, *)
(* in any order, or never, which is how one is lost and how a transmission *)
(* fails; repetitions come from the nodes' own retransmissions.            *)
(* Time is left out: whether FORWARDING_RETRY_DELAY_MS have passed since   *)
(* the last attempt is a free choice of every pass.                        *)
(***************************************************************************)
EXTENDS DtnPacket, SequencesExt

CONSTANTS N,            \* the number of nodes
          MaxStored,    \* MAX_STORED_PACKETS
          MaxRetries,   \* MAX_FORWARDING_RETRIES
          MaxCrashes,   \* bound: how often nodes die and start again
          NodeAddr,     \* netif->ip6_addr[1] of each node
          Arrivals      \* the packets that hosts hand to node 1

ASSUME ChainAssumption ==
    /\ N \in Nat \ {0} /\ MaxStored \in Nat \ {0} /\ MaxRetries \in Nat \ {0}
    /\ MaxCrashes \in Nat
    /\ NodeAddr \in [1 .. N -> Addr]
    /\ \A m, n \in 1 .. N : NodeAddr[m] = NodeAddr[n] => m = n
    /\ Arrivals \subseteq Packet
    /\ \A p \in Arrivals : p.hbh = << >> /\ p.pay \in Payload
    /\ \A p, r \in Arrivals : p.dest = r.dest

VARIABLES stored,     \* node -> its packets, oldest first
          attempts,   \* node -> retry_count of the destination's slot, 0 without a slot
          contact,    \* node -> the contact with the next node: closed, opened
                      \* (active, not yet noticed by update_contacts) or open
          flight,     \* <<node, packet>>: on the way to that node
          acks,       \* <<node, quotation>>: DTN-PCK-RECEIVED on the way to that node
          crashes,
          delivered,  \* payloads handed to ip6_input of node N
          accepted,   \* payloads some node has acknowledged
          abandoned   \* payloads some node has given up

history == <<delivered, accepted, abandoned>>
chainVars == <<stored, attempts, contact, flight, acks, crashes, history>>

Node == 1 .. N
Relay == 1 .. N - 1
-----------------------------------------------------------------------------
(***************************************************************************)
(* dtn_icmpv6_send_message: the message goes to the custodian the packet   *)
(* names, or to the packet's source; one that goes to a source leaves the  *)
(* model.                                                                  *)
(***************************************************************************)
AckTargets(p) == {n \in Node : HasCustody(p) /\ NodeAddr[n] = p.hbh[1].addr}
SendAck(p) == acks' = acks \cup {<<n, Quote(p)>> : n \in AckTargets(p)}

\* raw_socket_send_ipv6 to the next node.
Transmit(n, p) == flight' = (flight \cup {<<n + 1, p>>})
-----------------------------------------------------------------------------
(***************************************************************************)
(* dtn_controller_process_incoming at node n.                              *)
(***************************************************************************)
Deliver(p) ==
    /\ delivered' = delivered \cup {p.pay}
    /\ accepted' = accepted \cup {p.pay}
    /\ SendAck(p)
    /\ UNCHANGED <<stored, abandoned>>

\* Faulty variant: a packet that finds the store full is acknowledged.
StoreAcksWhenFull(n, p) ==
    /\ stored' = IF Len(stored[n]) < MaxStored
                 THEN [stored EXCEPT ![n] = Append(@, StripCustodian(p))] ELSE stored
    /\ accepted' = accepted \cup {p.pay}
    /\ SendAck(p)
    /\ UNCHANGED <<delivered, abandoned>>

Store(n, p) ==
    /\ Len(stored[n]) < MaxStored
    /\ stored' = [stored EXCEPT ![n] = Append(@, StripCustodian(p))]
    /\ accepted' = accepted \cup {p.pay}
    /\ SendAck(p)
    /\ UNCHANGED <<delivered, abandoned>>

StoreFull(n) == Len(stored[n]) = MaxStored /\ UNCHANGED <<stored, acks, history>>

Receive(n, p) ==
    /\ <<n, p>> \in flight
    /\ \/ /\ n = N
          /\ Deliver(p)
          /\ flight' = flight \ {<<n, p>>}
       \/ /\ n < N /\ contact[n] # "closed"
          /\ flight' = (flight \ {<<n, p>>}) \cup {<<n + 1, UpdateOrAddCustodian(p, NodeAddr[n])>>}
          /\ UNCHANGED <<stored, acks, history>>
       \/ /\ n < N /\ contact[n] = "closed"
          /\ Store(n, p) \/ StoreFull(n)
          /\ flight' = flight \ {<<n, p>>}
    /\ UNCHANGED <<attempts, contact, crashes>>

(***************************************************************************)
(* dtn_icmpv6_process: the first stored packet that matches is deleted,    *)
(* and the tracking of the destination ends in any case.                   *)
(***************************************************************************)
ReceiveAck(n, q) ==
    /\ <<n, q>> \in acks
    /\ acks' = acks \ {<<n, q>>}
    /\ \/ \E i \in DOMAIN stored[n] :
             /\ MayMatch(stored[n][i], q)
             /\ \A j \in 1 .. i - 1 : ~MustMatch(stored[n][j], q)
             /\ stored' = [stored EXCEPT ![n] = RemoveAt(@, i)]
       \/ /\ \A j \in DOMAIN stored[n] : ~MustMatch(stored[n][j], q)
          /\ UNCHANGED stored
    /\ attempts' = [attempts EXCEPT ![n] = 0]
    /\ UNCHANGED <<contact, flight, crashes, history>>
-----------------------------------------------------------------------------
(***************************************************************************)
(* A pass of attempt_forward_stored.  All packets are for one destination, *)
(* so should_attempt_forward answers yes at most once in a pass: for the   *)
(* first packet, or, when that one is given up, for the second.            *)
(***************************************************************************)
\* The packet at position k is sent if the next node is in contact.
Attempt(n, k) ==
    IF k \in DOMAIN stored[n] /\ contact[n] # "closed"
    THEN Transmit(n, AddCustodian(stored[n][k], NodeAddr[n]))
    ELSE UNCHANGED flight

\* Faulty variant: the attempt is not counted.
TryFirstUncounted(n) ==
    /\ attempts[n] < MaxRetries
    /\ Attempt(n, 1)
    /\ UNCHANGED <<attempts, stored, abandoned>>

TryFirst(n) ==
    /\ attempts[n] < MaxRetries
    /\ Attempt(n, 1)
    /\ attempts' = [attempts EXCEPT ![n] = IF stored[n] = << >> THEN @ ELSE @ + 1]
    /\ UNCHANGED <<stored, abandoned>>

GiveUp(n) ==
    /\ attempts[n] >= MaxRetries /\ stored[n] # << >>
    /\ abandoned' = abandoned \cup {stored[n][1].pay}
    /\ stored' = [stored EXCEPT ![n] = Tail(@)]
    /\ Attempt(n, 2)
    /\ attempts' = [attempts EXCEPT ![n] = IF Len(stored[n]) > 1 THEN 1 ELSE 0]

TooSoon(n) == attempts[n] > 0 /\ UNCHANGED <<stored, attempts, flight, abandoned>>

DuePass(n) == TryFirst(n) \/ GiveUp(n)

\* update_contacts notices that the contact with the next node has opened.
Notice(n) ==
    /\ contact[n] = "opened"
    /\ contact' = [contact EXCEPT ![n] = "open"]
    /\ UNCHANGED <<acks, crashes, delivered, accepted>>
NoticeDue(n) == Notice(n) /\ DuePass(n)
NoticeEarly(n) == Notice(n) /\ TooSoon(n)

\* The plan lists the contacts of every node; that of another opens.
PassOnOther(n) ==
    /\ DuePass(n)
    /\ UNCHANGED <<contact, acks, crashes, delivered, accepted>>
-----------------------------------------------------------------------------
Opens(n) ==
    /\ contact[n] = "closed"
    /\ contact' = [contact EXCEPT ![n] = "opened"]
    /\ UNCHANGED <<stored, attempts, flight, acks, crashes, history>>

Closes(n) ==
    /\ contact[n] # "closed"
    /\ contact' = [contact EXCEPT ![n] = "closed"]
    /\ UNCHANGED <<stored, attempts, flight, acks, crashes, history>>

\* The process dies and starts again: the files come back in directory
\* order, the tracking table is empty, and every contact counts as new.
Orders(s) == {[i \in DOMAIN s |-> s[f[i]]] :
                 f \in {g \in [DOMAIN s -> DOMAIN s] : \A i \in DOMAIN s : \E j \in DOMAIN s : g[j] = i}}

\* Faulty variant: the restart begins with an empty store.
RestartNodeEmpty(n) ==
    /\ crashes < MaxCrashes /\ crashes' = crashes + 1
    /\ stored' = [stored EXCEPT ![n] = << >>]
    /\ attempts' = [attempts EXCEPT ![n] = 0]
    /\ contact' = [contact EXCEPT ![n] = IF @ = "open" THEN "opened" ELSE @]
    /\ UNCHANGED <<flight, acks, history>>

RestartNode(n) ==
    /\ crashes < MaxCrashes /\ crashes' = crashes + 1
    /\ \E s \in Orders(stored[n]) : stored' = [stored EXCEPT ![n] = s]
    /\ attempts' = [attempts EXCEPT ![n] = 0]
    /\ contact' = [contact EXCEPT ![n] = IF @ = "open" THEN "opened" ELSE @]
    /\ UNCHANGED <<flight, acks, history>>
-----------------------------------------------------------------------------
ChainInit ==
    /\ stored = [n \in Node |-> << >>]
    /\ attempts = [n \in Node |-> 0]
    /\ contact = [n \in Node |-> "closed"]
    /\ flight = {<<1, p>> : p \in Arrivals}
    /\ acks = {}
    /\ crashes = 0
    /\ delivered = {} /\ accepted = {} /\ abandoned = {}

ChainNext ==
    \/ \E m \in flight : Receive(m[1], m[2])
    \/ \E m \in acks : ReceiveAck(m[1], m[2])
    \/ \E n \in Relay : NoticeDue(n) \/ NoticeEarly(n) \/ PassOnOther(n) \/ Opens(n) \/ Closes(n)
    \/ \E n \in Relay : RestartNode(n)

ChainSpec == ChainInit /\ [][ChainNext]_chainVars

\* Contacts end and recur, and again and again one is noticed when the retry
\* delay has passed.
ChainLive ==
    /\ ChainSpec
    /\ \A n \in Relay : WF_chainVars(Closes(n)) /\ SF_chainVars(Opens(n)) /\ SF_chainVars(NoticeDue(n))
-----------------------------------------------------------------------------
PaysAt(n) == {stored[n][i].pay : i \in DOMAIN stored[n]}
StoredIn(x, S) == \E n \in S : x \in PaysAt(n)

\* Type correctness: a stored packet is as its host sent it, and a slot never
\* counts more than MAX_FORWARDING_RETRIES attempts.
ChainTypeOK ==
    /\ stored \in [Node -> Seq(Arrivals)]
    /\ attempts \in [Node -> 0 .. MaxRetries]
    /\ contact \in [Node -> {"closed", "opened", "open"}]
    /\ flight \subseteq Node \X Packet
    /\ acks \subseteq Node \X QuoteType
    /\ crashes \in 0 .. MaxCrashes
    /\ {delivered, accepted, abandoned} \subseteq SUBSET Payload

\* An acknowledgement on its way to a node means that the packet needs that
\* node no more: it has been delivered or given up, or a node further on
\* stores it.  This is what entitles dtn_icmpv6_process to delete it.
AckMeansBeyond == \A a \in acks :
    a[2].pay \in delivered \cup abandoned \/ StoredIn(a[2].pay, {m \in Node : m > a[1]})

\* No packet is lost after a node has acknowledged it: it has been delivered,
\* a node stores it, or a node has given it up.  Direct forwarding, which
\* keeps nothing and yet names itself custodian, retransmissions, lost and
\* late acknowledgements and restarts do not change that.
NoneLost == \A x \in accepted : x \in delivered \cup abandoned \/ StoredIn(x, Node)

\* Every packet that a node has acknowledged is in the end delivered or given
\* up: no packet stays on its way for ever.
EndsDeliveredOrGivenUp == \A x \in Payload : x \in accepted ~> x \in delivered \cup abandoned
=============================================================================
