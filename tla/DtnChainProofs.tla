--------------------------- MODULE DtnChainProofs ---------------------------
(***************************************************************************)
(* Custody transfer over a chain of any length, for any number of packets, *)
(* when no two of them come from one source: no packet is lost after a     *)
(* node has acknowledged it.                                               *)
(***************************************************************************)
EXTENDS DtnChain, SequenceLemmas

\* No two packets have one source, which is all that an acknowledgement of a
\* packet with the custody option tells apart.
DistinctSources == \A p, r \in Arrivals : p.src = r.src => p.pay = r.pay
-----------------------------------------------------------------------------
\* Packets with the custody option of a node in front.

\* The option in front of a packet that had none.
LEMMA AddedHeader ==
    ASSUME NEW p \in Arrivals, NEW a \in Addr
    PROVE  /\ AddCustodian(p, a) \in Packet
           /\ AddCustodian(p, a).hbh = <<CustodyHeader(a)>>
           /\ AddCustodian(p, a).pay = p.pay /\ AddCustodian(p, a).src = p.src
           /\ AddCustodian(p, a).len = p.len
           /\ AddCustodian(p, a) = [p EXCEPT !.hbh = <<CustodyHeader(a)>>]
  <1>1. p \in Packet /\ p.hbh = << >>
    BY ChainAssumption
  <1>2. CustodyHeader(a) \in HbhHeader
    BY DEF CustodyHeader, HbhHeader, HBH_OPT_HDR_LEN
  <1>3. <<CustodyHeader(a)>> \o << >> = <<CustodyHeader(a)>>
    BY <1>2
  <1>4. <<CustodyHeader(a)>> \in Seq(HbhHeader)
    BY <1>2
  <1> HIDE DEF CustodyHeader
  <1>5. AddCustodian(p, a) = [p EXCEPT !.hbh = <<CustodyHeader(a)>>]
    BY <1>1, <1>3 DEF AddCustodian
  <1>6. QED
    BY <1>1, <1>4, <1>5 DEF Packet

\* Stripping undoes adding.
LEMMA StripUndoesAdd ==
    ASSUME NEW p \in Arrivals, NEW a \in Addr
    PROVE  StripCustodian(AddCustodian(p, a)) = p
  <1> DEFINE c == AddCustodian(p, a)
  <1>1. p \in Packet /\ p.hbh = << >>
    BY ChainAssumption
  <1>2. c.hbh = <<CustodyHeader(a)>> /\ c.pay = p.pay /\ c.len = p.len
        /\ c = [p EXCEPT !.hbh = <<CustodyHeader(a)>>]
    BY AddedHeader
  <1>3. c.hbh # << >> /\ c.hbh[1].bytes = HBH_OPT_HDR_LEN /\ Tail(c.hbh) = << >>
    BY <1>2 DEF CustodyHeader
  <1>4. c.len + c.hbh[1].bytes - HBH_OPT_HDR_LEN = p.len
    BY <1>1, <1>2, <1>3 DEF Packet, HBH_OPT_HDR_LEN
  <1> HIDE DEF c
  <1>5. StripCustodian(c) = [c EXCEPT !.hbh = << >>, !.len = p.len, !.pay = p.pay]
    BY <1>2, <1>3, <1>4 DEF StripCustodian
  <1>6. QED
    BY <1>1, <1>2, <1>5 DEF Packet, c

\* A packet on its way to node n is as its host sent it, or names the node
\* before n as its custodian.
InFlight(n, p) == \E r \in Arrivals :
    (n = 1 /\ p = r) \/ (n > 1 /\ p = AddCustodian(r, NodeAddr[n - 1]))

\* dtn_update_or_add_custodian_option leaves one option in front, whoever was
\* custodian before.
LEMMA UpdateReplaces ==
    ASSUME NEW p \in Arrivals, NEW a \in Addr, NEW b \in Addr
    PROVE  /\ UpdateOrAddCustodian(p, b) = AddCustodian(p, b)
           /\ UpdateOrAddCustodian(AddCustodian(p, a), b) = AddCustodian(p, b)
  <1>1. p \in Packet /\ p.hbh = << >>
    BY ChainAssumption
  <1>2. UpdateOrAddCustodian(p, b) = AddCustodian(p, b)
    BY <1>1 DEF UpdateOrAddCustodian, HasCustody, StripCustodian
  <1> DEFINE c == AddCustodian(p, a)
  <1>3. c = [p EXCEPT !.hbh = <<CustodyHeader(a)>>] /\ c.hbh = <<CustodyHeader(a)>>
    BY AddedHeader
  <1> HIDE DEF c
  <1>4. HasCustody(c)
    BY <1>3 DEF HasCustody, CustodyHeader
  <1>5. [c.hbh EXCEPT ![1].addr = b] = <<CustodyHeader(b)>>
    <2>1. [CustodyHeader(a) EXCEPT !.addr = b] = CustodyHeader(b)
      BY DEF CustodyHeader
    <2> HIDE DEF CustodyHeader
    <2>2. QED
      BY <1>3, <2>1
  <1>6. UpdateOrAddCustodian(c, b) = [c EXCEPT !.hbh = [c.hbh EXCEPT ![1].addr = b]]
    BY <1>4 DEF UpdateOrAddCustodian
  <1>7. UpdateOrAddCustodian(c, b) = [p EXCEPT !.hbh = <<CustodyHeader(b)>>]
    BY <1>1, <1>3, <1>5, <1>6 DEF Packet
  <1>8. QED
    BY <1>2, <1>7, AddedHeader DEF c

\* What the node that stores or delivers a packet sends back: nothing to a
\* node when the packet comes from its host, else a quotation of the packet
\* to the node before.
LEMMA AckGoesBack ==
    ASSUME NEW n \in Node, NEW p, InFlight(n, p), NEW m \in AckTargets(p)
    PROVE  m = n - 1 /\ n > 1
  <1>1. PICK r \in Arrivals :
           (n = 1 /\ p = r) \/ (n > 1 /\ p = AddCustodian(r, NodeAddr[n - 1]))
    BY DEF InFlight
  <1>2. m \in Node /\ HasCustody(p) /\ NodeAddr[m] = p.hbh[1].addr
    BY DEF AckTargets
  <1>3. ~(n = 1 /\ p = r)
    BY <1>2, ChainAssumption DEF HasCustody
  <1>4. n > 1 /\ n - 1 \in Node /\ NodeAddr[n - 1] \in Addr
    BY <1>1, <1>3, ChainAssumption DEF Node
  <1>5. p.hbh = <<CustodyHeader(NodeAddr[n - 1])>>
    BY <1>1, <1>3, <1>4, AddedHeader
  <1>6. p.hbh[1].addr = NodeAddr[n - 1]
    BY <1>5 DEF CustodyHeader
  <1>7. QED
    BY <1>2, <1>4, <1>6, ChainAssumption DEF Node

LEMMA InFlightFacts ==
    ASSUME NEW n \in Node, NEW p, InFlight(n, p)
    PROVE  \E r \in Arrivals :
             /\ p \in Packet /\ p.pay = r.pay /\ p.src = r.src /\ r.pay \in Payload
             /\ StripCustodian(p) = r
             /\ \A b \in Addr : UpdateOrAddCustodian(p, b) = AddCustodian(r, b)
             /\ Quote(p) \in QuoteType /\ Quote(p).pay = r.pay /\ Quote(p).src = r.src
  <1>1. PICK r \in Arrivals :
           (n = 1 /\ p = r) \/ (n > 1 /\ p = AddCustodian(r, NodeAddr[n - 1]))
    BY DEF InFlight
  <1>2. r \in Packet /\ r.hbh = << >> /\ r.pay \in Payload
    BY ChainAssumption
  <1>3. CASE n = 1 /\ p = r
    <2>1. StripCustodian(p) = r /\ \A b \in Addr : UpdateOrAddCustodian(p, b) = AddCustodian(r, b)
      BY <1>2, <1>3, UpdateReplaces DEF StripCustodian
    <2>2. Quote(p) = [src |-> r.src, dest |-> r.dest, pay |-> r.pay, off |-> 0, nexth |-> r.nexth]
      BY <1>2, <1>3 DEF Quote
    <2>3. Quote(p) \in QuoteType
      BY <1>2, <2>2 DEF QuoteType, Packet
    <2>4. QED
      BY <1>2, <1>3, <2>1, <2>2, <2>3
  <1>4. CASE n > 1 /\ p = AddCustodian(r, NodeAddr[n - 1])
    <2>1. NodeAddr[n - 1] \in Addr
      BY <1>4, ChainAssumption DEF Node
    <2>2. /\ p \in Packet /\ p.pay = r.pay /\ p.src = r.src
          /\ p.hbh = <<CustodyHeader(NodeAddr[n - 1])>>
          /\ p = [r EXCEPT !.hbh = <<CustodyHeader(NodeAddr[n - 1])>>]
      BY <1>4, <2>1, AddedHeader
    <2>3. StripCustodian(p) = r /\ \A b \in Addr : UpdateOrAddCustodian(p, b) = AddCustodian(r, b)
      BY <1>4, <2>1, UpdateReplaces, StripUndoesAdd
    <2>4. p.hbh[1].bytes = 24 /\ Len(p.hbh) = 1 /\ p.hbh # << >>
      BY <2>2 DEF CustodyHeader, HBH_OPT_HDR_LEN
    <2>5. p.dest = r.dest /\ p.nexth = r.nexth
      BY <1>2, <2>2 DEF Packet
    <2>6. Quote(p) = [src |-> r.src, dest |-> r.dest, pay |-> r.pay, off |-> 24, nexth |-> r.nexth]
      BY <2>2, <2>4, <2>5 DEF Quote
    <2>7. Quote(p) \in QuoteType
      BY <1>2, <2>6 DEF QuoteType, Packet
    <2>8. QED
      BY <1>2, <2>2, <2>3, <2>6, <2>7
  <1>5. QED
    BY <1>1, <1>3, <1>4
-----------------------------------------------------------------------------
(***************************************************************************)
(* The inductive invariant.  AckMeansBeyond is what makes NoneLost         *)
(* inductive: the node that releases a packet knows one further on that    *)
(* has it, and the nodes further on are ordered.                           *)
(***************************************************************************)
FlightOK == \A f \in flight : InFlight(f[1], f[2])
AcksOK == \A a \in acks : \E r \in Arrivals : a[2].pay = r.pay /\ a[2].src = r.src
ChainInv == ChainTypeOK /\ FlightOK /\ AcksOK /\ AckMeansBeyond /\ NoneLost

Safe(x, S) == x \in delivered \cup abandoned \/ StoredIn(x, S)

LEMMA SafeForms ==
    /\ AckMeansBeyond <=> \A a \in acks : Safe(a[2].pay, {m \in Node : m > a[1]})
    /\ NoneLost <=> \A x \in accepted : Safe(x, Node)
  BY DEF AckMeansBeyond, NoneLost, Safe

\* When no packet leaves a node, what was safe stays safe.
LEMMA SafeGrows ==
    ASSUME \A n \in Node : PaysAt(n) \subseteq PaysAt(n)',
           delivered \subseteq delivered', abandoned \subseteq abandoned',
           NEW x, NEW S \in SUBSET Node, Safe(x, S)
    PROVE  Safe(x, S)'
  BY DEF Safe, StoredIn

LEMMA PaysUnchanged == stored' = stored => \A n \in Node : PaysAt(n)' = PaysAt(n)
  BY DEF PaysAt

LEMMA ChainInvInit == ChainInit => ChainInv
  <1> SUFFICES ASSUME ChainInit PROVE ChainInv
    OBVIOUS
  <1>1. stored \in [Node -> Seq(Arrivals)]
    BY DEF ChainInit
  <1>2. flight \subseteq Node \X Packet /\ FlightOK
    BY ChainAssumption DEF ChainInit, FlightOK, InFlight, Node
  <1>3. QED
    BY <1>1, <1>2, ChainAssumption
       DEF ChainInit, ChainInv, ChainTypeOK, AcksOK, AckMeansBeyond, NoneLost
-----------------------------------------------------------------------------
\* Every packet that node n sends is on its way to node n + 1 in the form
\* InFlight describes.
LEMMA SentIsInFlight ==
    ASSUME NEW n \in Relay, NEW r \in Arrivals
    PROVE  /\ <<n + 1, AddCustodian(r, NodeAddr[n])>> \in Node \X Packet
           /\ InFlight(n + 1, AddCustodian(r, NodeAddr[n]))
  <1>1. n \in Node /\ n + 1 \in Node /\ n + 1 > 1 /\ (n + 1) - 1 = n
    BY ChainAssumption DEF Node, Relay
  <1>2. NodeAddr[n] \in Addr
    BY <1>1, ChainAssumption DEF Node
  <1>3. QED
    BY <1>1, <1>2, AddedHeader DEF InFlight

LEMMA InvReceive ==
    ASSUME ChainInv, NEW n \in Node, NEW p, Receive(n, p)
    PROVE  ChainInv'
  <1>1. InFlight(n, p) /\ n \in Nat
    <2>1. <<n, p>> \in flight /\ <<n, p>>[1] = n /\ <<n, p>>[2] = p
      BY DEF Receive
    <2>2. QED
      BY <2>1, ChainAssumption DEF ChainInv, FlightOK, Node
  <1>2. PICK r \in Arrivals :
             /\ p \in Packet /\ p.pay = r.pay /\ p.src = r.src /\ r.pay \in Payload
             /\ StripCustodian(p) = r
             /\ \A b \in Addr : UpdateOrAddCustodian(p, b) = AddCustodian(r, b)
             /\ Quote(p) \in QuoteType /\ Quote(p).pay = r.pay /\ Quote(p).src = r.src
    BY <1>1, InFlightFacts
  <1>3. CASE n < N /\ contact[n] # "closed"
    <2>1. n \in Relay
      BY <1>3, ChainAssumption DEF Node, Relay
    <2>2. NodeAddr[n] \in Addr
      BY ChainAssumption DEF Node
    <2>3. /\ flight' \subseteq flight \cup {<<n + 1, AddCustodian(r, NodeAddr[n])>>}
          /\ UNCHANGED <<stored, attempts, contact, acks, crashes, history>>
      BY <1>2, <1>3, <2>2, ChainAssumption DEF Receive, Node
    <2>4. flight' \subseteq Node \X Packet /\ FlightOK'
      BY <2>1, <2>3, SentIsInFlight DEF ChainInv, ChainTypeOK, FlightOK
    <2>5. QED
      BY <2>3, <2>4 DEF ChainInv, ChainTypeOK, AcksOK, AckMeansBeyond, NoneLost, StoredIn, PaysAt, history
  <1>4. CASE n < N /\ contact[n] = "closed" /\ StoreFull(n)
    <2>1. flight' \subseteq flight /\ UNCHANGED <<stored, attempts, contact, acks, crashes, history>>
      BY <1>4, ChainAssumption DEF Receive, StoreFull, Store, Node
    <2>2. QED
      BY <2>1 DEF ChainInv, ChainTypeOK, FlightOK, AcksOK, AckMeansBeyond, NoneLost, StoredIn, PaysAt, history
  <1>5. CASE ((n = N /\ Deliver(p)) \/ Store(n, p)) /\ flight' = flight \ {<<n, p>>}
    <2>1. /\ flight' \subseteq flight /\ UNCHANGED <<attempts, contact, crashes, abandoned>>
          /\ accepted' = accepted \cup {r.pay}
          /\ acks' = acks \cup {<<m, Quote(p)>> : m \in AckTargets(p)}
      BY <1>2, <1>5 DEF Receive, Store, Deliver, SendAck
    <2>2. /\ stored' \in [Node -> Seq(Arrivals)]
          /\ \A m \in Node : PaysAt(m) \subseteq PaysAt(m)'
          /\ delivered \subseteq delivered' /\ delivered' \subseteq delivered \cup {r.pay}
          /\ r.pay \in delivered' \/ r.pay \in PaysAt(n)'
      <3>1. CASE n = N /\ Deliver(p)
        BY <1>2, <3>1, PaysUnchanged DEF Deliver, ChainInv, ChainTypeOK
      <3>2. CASE Store(n, p)
        <4>1. stored[n] \in Seq(Arrivals) /\ stored' = [stored EXCEPT ![n] = Append(stored[n], r)]
          BY <1>2, <3>2 DEF Store, ChainInv, ChainTypeOK
        <4>2. /\ Append(stored[n], r) \in Seq(Arrivals)
              /\ \A i \in DOMAIN stored[n] : /\ i \in DOMAIN Append(stored[n], r)
                                              /\ Append(stored[n], r)[i] = stored[n][i]
              /\ \E i \in DOMAIN Append(stored[n], r) : Append(stored[n], r)[i] = r
          <5>1. Len(stored[n]) \in Nat /\ DOMAIN stored[n] = 1 .. Len(stored[n])
            BY <4>1, LenProperties
          <5>2. Len(stored[n]) + 1 \in 1 .. Len(stored[n]) + 1
            BY <5>1
          <5>3. QED
            BY <4>1, <5>1, <5>2, AppendFacts
        <4>3. \A m \in Node : stored'[m] = IF m = n THEN Append(stored[n], r) ELSE stored[m]
          BY <4>1 DEF ChainInv, ChainTypeOK
        <4>4. stored' \in [Node -> Seq(Arrivals)]
          BY <4>1, <4>2 DEF ChainInv, ChainTypeOK
        <4>5. \A m \in Node : PaysAt(m) \subseteq PaysAt(m)'
          BY <4>2, <4>3 DEF PaysAt
        <4>6. r.pay \in PaysAt(n)'
          BY <4>2, <4>3 DEF PaysAt
        <4>7. QED
          BY <3>2, <4>4, <4>5, <4>6 DEF Store
      <3>3. QED
        BY <1>5, <3>1, <3>2
    <2>3. ASSUME NEW a \in acks' \ acks
          PROVE  /\ a \in Node \X QuoteType /\ a[2].pay = r.pay /\ a[2].src = r.src
                 /\ Safe(a[2].pay, {m \in Node : m > a[1]})'
      <3>1. PICK m \in AckTargets(p) : a = <<m, Quote(p)>>
        BY <2>1
      <3>2. m \in Node /\ m = n - 1 /\ n > 1
        BY <1>1, <3>1, AckGoesBack DEF AckTargets
      <3>3. a[1] = m /\ a[2] = Quote(p) /\ n > a[1]
        BY <1>1, <3>1, <3>2
      <3>4. QED
        BY <1>2, <2>2, <3>1, <3>2, <3>3 DEF Safe, StoredIn
    <2>4. ChainTypeOK'
      BY <1>2, <2>1, <2>2, <2>3 DEF ChainInv, ChainTypeOK
    <2>5. FlightOK' /\ AcksOK'
      BY <2>1, <2>3 DEF ChainInv, FlightOK, AcksOK
    <2>6. AckMeansBeyond'
      <3>1. ASSUME NEW a \in acks'
            PROVE  Safe(a[2].pay, {m \in Node : m > a[1]})'
        <4>1. CASE a \in acks
          BY <2>1, <2>2, <4>1, SafeGrows, SafeForms DEF ChainInv
        <4>2. QED
          BY <2>3, <4>1
      <3>2. QED
        BY <3>1 DEF AckMeansBeyond, Safe
    <2>7. NoneLost'
      <3>1. ASSUME NEW x \in accepted'
            PROVE  Safe(x, Node)'
        <4>1. CASE x \in accepted
          BY <2>1, <2>2, <4>1, SafeGrows, SafeForms DEF ChainInv
        <4>2. CASE x = r.pay
          BY <2>2, <4>2 DEF Safe, StoredIn
        <4>3. QED
          BY <2>1, <4>1, <4>2
      <3>2. QED
        BY <3>1 DEF NoneLost, Safe
    <2>8. QED
      BY <2>4, <2>5, <2>6, <2>7 DEF ChainInv
  <1>6. QED
    BY <1>3, <1>4, <1>5 DEF Receive
-----------------------------------------------------------------------------
\* The packet that an acknowledgement releases is the one it quotes, since the
\* source tells packets apart.
LEMMA InvReceiveAck ==
    ASSUME DistinctSources, ChainInv, NEW n \in Node, NEW q, ReceiveAck(n, q)
    PROVE  ChainInv'
  <1>1. /\ <<n, q>> \in acks /\ acks' \subseteq acks
        /\ attempts' = [attempts EXCEPT ![n] = 0]
        /\ UNCHANGED <<contact, flight, crashes, delivered, accepted, abandoned>>
    BY DEF ReceiveAck, history
  <1>2. PICK r \in Arrivals : q.pay = r.pay /\ q.src = r.src
    <2>1. <<n, q>>[2] = q
      OBVIOUS
    <2>2. QED
      BY <1>1, <2>1 DEF ChainInv, AcksOK
  <1>3. Safe(q.pay, {m \in Node : m > n})
    <2>1. <<n, q>>[1] = n /\ <<n, q>>[2] = q
      OBVIOUS
    <2>2. QED
      BY <1>1, <2>1, SafeForms DEF ChainInv
  <1>4. /\ stored' \in [Node -> Seq(Arrivals)]
        /\ \A m \in Node : m # n => PaysAt(m)' = PaysAt(m)
        /\ PaysAt(n) \subseteq PaysAt(n)' \cup {q.pay}
    <2>1. CASE UNCHANGED stored
      BY <2>1, PaysUnchanged DEF ChainInv, ChainTypeOK
    <2>2. ASSUME NEW i \in DOMAIN stored[n], MayMatch(stored[n][i], q),
                 stored' = [stored EXCEPT ![n] = RemoveAt(stored[n], i)]
          PROVE  /\ stored' \in [Node -> Seq(Arrivals)]
                 /\ \A m \in Node : m # n => PaysAt(m)' = PaysAt(m)
                 /\ PaysAt(n) \subseteq PaysAt(n)' \cup {q.pay}
      <3>1. stored[n] \in Seq(Arrivals) /\ i \in 1 .. Len(stored[n])
        BY <2>2, LenProperties DEF ChainInv, ChainTypeOK
      <3>2. stored[n][i] \in Arrivals /\ stored[n][i].src = q.src
        BY <2>2, <3>1, ElementOfSeq DEF MayMatch, SameUpperLayer
      <3>3. stored[n][i].pay = q.pay
        BY <1>2, <3>2 DEF DistinctSources
      <3>4. \A m \in Node : stored'[m] = IF m = n THEN RemoveAt(stored[n], i) ELSE stored[m]
        BY <2>2 DEF ChainInv, ChainTypeOK
      <3>5. stored' \in [Node -> Seq(Arrivals)]
        BY <2>2, <3>1, RemoveAtFacts DEF ChainInv, ChainTypeOK
      <3>6. ASSUME NEW j \in DOMAIN stored[n]
            PROVE  stored[n][j].pay \in PaysAt(n)' \cup {q.pay}
        <4>1. CASE j = i
          BY <3>3, <4>1
        <4>2. CASE j # i
          <5>1. j \in 1 .. Len(stored[n])
            BY <3>1, LenProperties
          <5>2. \E k \in DOMAIN RemoveAt(stored[n], i) : RemoveAt(stored[n], i)[k] = stored[n][j]
            BY <3>1, <4>2, <5>1, RemoveAtKeeps
          <5>3. QED
            BY <3>4, <5>2 DEF PaysAt
        <4>3. QED
          BY <4>1, <4>2
      <3>7. QED
        BY <3>4, <3>5, <3>6 DEF PaysAt
    <2>3. QED
      BY <2>1, <2>2 DEF ReceiveAck
  <1>5. ASSUME NEW x, NEW k \in Int, k < n, Safe(x, {m \in Node : m > k})
        PROVE  Safe(x, {m \in Node : m > k})'
    <2>1. n \in Int /\ \A m \in Node : m \in Int
      BY ChainAssumption DEF Node
    <2>2. CASE x # q.pay
      BY <1>1, <1>4, <1>5, <2>2 DEF Safe, StoredIn
    <2>3. CASE x = q.pay
      <3>1. CASE x \in delivered \cup abandoned
        BY <1>1, <3>1 DEF Safe
      <3>2. CASE StoredIn(x, {m \in Node : m > n})
        <4>1. PICK m \in Node : m > n /\ x \in PaysAt(m)
          BY <3>2 DEF StoredIn
        <4>2. m # n /\ m > k
          BY <1>5, <2>1, <4>1
        <4>3. QED
          BY <1>4, <4>1, <4>2 DEF Safe, StoredIn
      <3>3. QED
        BY <1>3, <2>3, <3>1, <3>2 DEF Safe
    <2>4. QED
      BY <2>2, <2>3
  <1>6. ASSUME NEW x, NEW k \in Int, k >= n, Safe(x, {m \in Node : m > k})
        PROVE  Safe(x, {m \in Node : m > k})'
    <2>1. n \in Int /\ \A m \in Node : m \in Int
      BY ChainAssumption DEF Node
    <2>2. \A m \in Node : m > k => m # n
      BY <1>6, <2>1
    <2>3. QED
      BY <1>1, <1>4, <1>6, <2>2 DEF Safe, StoredIn
  <1>7. AckMeansBeyond'
    <2>1. ASSUME NEW a \in acks'
          PROVE  Safe(a[2].pay, {m \in Node : m > a[1]})'
      <3>1. a \in acks /\ a[1] \in Int /\ n \in Int
        BY <1>1, ChainAssumption DEF ChainInv, ChainTypeOK, Node
      <3>2. Safe(a[2].pay, {m \in Node : m > a[1]})
        BY <3>1, SafeForms DEF ChainInv
      <3>3. QED
        BY <1>5, <1>6, <3>1, <3>2
    <2>2. QED
      BY <2>1 DEF AckMeansBeyond, Safe
  <1>8. NoneLost'
    <2>1. ASSUME NEW x \in accepted'
          PROVE  Safe(x, Node)'
      <3>1. {m \in Node : m > 0} = Node /\ 0 < n
        BY ChainAssumption DEF Node
      <3>2. Safe(x, {m \in Node : m > 0})
        BY <1>1, <3>1, SafeForms DEF ChainInv
      <3>3. Safe(x, {m \in Node : m > 0})'
        BY <1>5, <3>1, <3>2
      <3>4. QED
        BY <3>1, <3>3
    <2>2. QED
      BY <2>1 DEF NoneLost, Safe
  <1>9. ChainTypeOK' /\ FlightOK' /\ AcksOK'
    <2>1. attempts' \in [Node -> 0 .. MaxRetries]
      BY <1>1, ChainAssumption DEF ChainInv, ChainTypeOK
    <2>2. ChainTypeOK'
      BY <1>1, <1>4, <2>1 DEF ChainInv, ChainTypeOK
    <2>3. FlightOK'
      BY <1>1 DEF ChainInv, FlightOK, InFlight
    <2>4. AcksOK'
      BY <1>1 DEF ChainInv, AcksOK
    <2>5. QED
      BY <2>2, <2>3, <2>4
  <1>10. QED
    BY <1>7, <1>8, <1>9 DEF ChainInv
-----------------------------------------------------------------------------
\* What an attempt puts on its way.
LEMMA AttemptSends ==
    ASSUME ChainInv, NEW n \in Relay, NEW k, Attempt(n, k)
    PROVE  flight' \subseteq Node \X Packet /\ FlightOK'
  <1>1. CASE k \in DOMAIN stored[n] /\ contact[n] # "closed"
    <2>1. n \in Node
      BY ChainAssumption DEF Node, Relay
    <2>2. stored[n] \in Seq(Arrivals)
      BY <2>1 DEF ChainInv, ChainTypeOK
    <2>3. stored[n][k] \in Arrivals
      BY <1>1, <2>2, LenProperties, ElementOfSeq
    <2>4. flight' = flight \cup {<<n + 1, AddCustodian(stored[n][k], NodeAddr[n])>>}
      BY <1>1 DEF Attempt, Transmit
    <2>5. QED
      BY <2>3, <2>4, SentIsInFlight DEF ChainInv, ChainTypeOK, FlightOK
  <1>2. CASE ~(k \in DOMAIN stored[n] /\ contact[n] # "closed")
    BY <1>2 DEF Attempt, ChainInv, ChainTypeOK, FlightOK
  <1>3. QED
    BY <1>1, <1>2

\* A step after which every payload is still stored where it was, or has been
\* given up, keeps the two safety conjuncts.
LEMMA NothingLeaves ==
    ASSUME ChainInv, UNCHANGED <<acks, accepted, delivered>>,
           abandoned \subseteq abandoned',
           \A m \in Node : PaysAt(m) \subseteq PaysAt(m)' \cup abandoned'
    PROVE  AckMeansBeyond' /\ NoneLost'
  <1>1. ASSUME NEW x, NEW S \in SUBSET Node, Safe(x, S)
        PROVE  Safe(x, S)'
    BY <1>1 DEF Safe, StoredIn
  <1>2. ASSUME NEW a \in acks'
        PROVE  Safe(a[2].pay, {m \in Node : m > a[1]})'
    <2>1. Safe(a[2].pay, {m \in Node : m > a[1]})
      BY <1>2, SafeForms DEF ChainInv
    <2>2. {m \in Node : m > a[1]} \in SUBSET Node
      OBVIOUS
    <2>3. QED
      BY <1>1, <2>1, <2>2
  <1>3. ASSUME NEW x \in accepted'
        PROVE  Safe(x, Node)'
    BY <1>1, <1>3, SafeForms DEF ChainInv
  <1>4. QED
    BY <1>2, <1>3 DEF AckMeansBeyond, NoneLost, Safe

\* A pass over the stored packets.
LEMMA InvPass ==
    ASSUME ChainInv, NEW n \in Relay, TryFirst(n) \/ GiveUp(n) \/ TooSoon(n),
           contact' \in [Node -> {"closed", "opened", "open"}],
           UNCHANGED <<acks, crashes, delivered, accepted>>
    PROVE  ChainInv'
  <1>1. n \in Node /\ attempts[n] \in 0 .. MaxRetries /\ MaxRetries \in Nat \ {0}
    BY ChainAssumption DEF ChainInv, ChainTypeOK, Node, Relay
  <1>2. stored[n] \in Seq(Arrivals)
    BY <1>1 DEF ChainInv, ChainTypeOK
  <1>3. flight' \subseteq Node \X Packet /\ FlightOK'
    <2>1. CASE Attempt(n, 1) \/ Attempt(n, 2)
      BY <2>1, AttemptSends
    <2>2. CASE UNCHANGED flight
      BY <2>2 DEF ChainInv, ChainTypeOK, FlightOK
    <2>3. QED
      BY <2>1, <2>2 DEF TryFirst, GiveUp, TooSoon
  <1>4. attempts' \in [Node -> 0 .. MaxRetries]
    <2>1. \E v \in 0 .. MaxRetries : attempts' = [attempts EXCEPT ![n] = v]
      <3>1. CASE TryFirst(n)
        <4>1. attempts[n] + 1 \in 0 .. MaxRetries
          BY <1>1, <3>1 DEF TryFirst
        <4>2. QED
          BY <1>1, <3>1, <4>1 DEF TryFirst
      <3>2. CASE GiveUp(n)
        <4>1. 0 \in 0 .. MaxRetries /\ 1 \in 0 .. MaxRetries
          BY <1>1
        <4>2. QED
          BY <3>2, <4>1 DEF GiveUp
      <3>3. CASE TooSoon(n)
        BY <1>1, <3>3 DEF TooSoon, ChainInv, ChainTypeOK
      <3>4. QED
        BY <3>1, <3>2, <3>3
    <2>2. QED
      BY <2>1 DEF ChainInv, ChainTypeOK
  <1>5. /\ stored' \in [Node -> Seq(Arrivals)]
        /\ abandoned \subseteq abandoned' /\ abandoned' \in SUBSET Payload
        /\ \A m \in Node : PaysAt(m) \subseteq PaysAt(m)' \cup abandoned'
    <2>1. CASE UNCHANGED <<stored, abandoned>>
      BY <2>1, PaysUnchanged DEF ChainInv, ChainTypeOK
    <2>2. CASE GiveUp(n)
      <3>1. /\ stored[n] # << >> /\ stored' = [stored EXCEPT ![n] = Tail(stored[n])]
            /\ abandoned' = abandoned \cup {stored[n][1].pay}
        BY <2>2 DEF GiveUp
      <3>2. /\ Tail(stored[n]) \in Seq(Arrivals)
            /\ Len(Tail(stored[n])) = Len(stored[n]) - 1
            /\ \A j \in 1 .. Len(stored[n]) - 1 : Tail(stored[n])[j] = stored[n][j + 1]
        BY <1>2, <3>1, TailFacts
      <3>3. Len(stored[n]) \in Nat \ {0} /\ DOMAIN stored[n] = 1 .. Len(stored[n])
        BY <1>2, <3>1, LenProperties, EmptySeq
      <3>4. DOMAIN Tail(stored[n]) = 1 .. Len(stored[n]) - 1
        BY <3>2, LenProperties
      <3>5. stored[n][1] \in Arrivals
        BY <1>2, <3>3, ElementOfSeq
      <3>6. \A m \in Node : stored'[m] = IF m = n THEN Tail(stored[n]) ELSE stored[m]
        BY <3>1 DEF ChainInv, ChainTypeOK
      <3>7. ASSUME NEW j \in DOMAIN stored[n]
            PROVE  stored[n][j].pay \in PaysAt(n)' \cup abandoned'
        <4>1. CASE j = 1
          BY <3>1, <4>1
        <4>2. CASE j # 1
          <5>1. j - 1 \in 1 .. Len(stored[n]) - 1 /\ (j - 1) + 1 = j
            BY <3>3, <4>2
          <5>2. j - 1 \in DOMAIN Tail(stored[n]) /\ Tail(stored[n])[j - 1] = stored[n][j]
            BY <3>2, <3>4, <5>1
          <5>3. QED
            BY <1>1, <3>6, <5>2 DEF PaysAt
        <4>3. QED
          BY <4>1, <4>2
      <3>8. \A m \in Node : PaysAt(m) \subseteq PaysAt(m)' \cup abandoned'
        BY <3>6, <3>7 DEF PaysAt
      <3>9. stored' \in [Node -> Seq(Arrivals)]
        BY <3>1, <3>2 DEF ChainInv, ChainTypeOK
      <3>10. QED
        BY <3>1, <3>5, <3>8, <3>9, ChainAssumption DEF ChainInv, ChainTypeOK
    <2>3. QED
      BY <2>1, <2>2 DEF TryFirst, TooSoon
  <1>6. AckMeansBeyond' /\ NoneLost'
    BY <1>5, NothingLeaves
  <1>7. ChainTypeOK' /\ AcksOK'
    BY <1>3, <1>4, <1>5 DEF ChainInv, ChainTypeOK, AcksOK
  <1>8. QED
    BY <1>3, <1>6, <1>7 DEF ChainInv

\* A restart changes the order of a node's packets only.
LEMMA InvRestart ==
    ASSUME ChainInv, NEW n \in Relay, RestartNode(n)
    PROVE  ChainInv'
  <1>1. n \in Node
    BY ChainAssumption DEF Node, Relay
  <1>2. stored[n] \in Seq(Arrivals)
    BY <1>1 DEF ChainInv, ChainTypeOK
  <1>3. PICK s \in Orders(stored[n]) : stored' = [stored EXCEPT ![n] = s]
    BY DEF RestartNode
  <1>4. PICK f \in [DOMAIN stored[n] -> DOMAIN stored[n]] :
           /\ \A i \in DOMAIN stored[n] : \E j \in DOMAIN stored[n] : f[j] = i
           /\ s = [i \in DOMAIN stored[n] |-> stored[n][f[i]]]
    BY <1>3 DEF Orders
  <1>5. s \in Seq(Arrivals)
    <2>1. DOMAIN stored[n] = 1 .. Len(stored[n]) /\ Len(stored[n]) \in Nat
      BY <1>2, LenProperties
    <2>2. \A i \in 1 .. Len(stored[n]) : s[i] \in Arrivals
      BY <1>2, <1>4, <2>1, ElementOfSeq
    <2>3. s \in [1 .. Len(stored[n]) -> Arrivals]
      BY <1>4, <2>1, <2>2
    <2>4. QED
      BY <2>1, <2>3, SeqDef
  <1>6. \A m \in Node : stored'[m] = IF m = n THEN s ELSE stored[m]
    BY <1>3 DEF ChainInv, ChainTypeOK
  <1>7. \A m \in Node : PaysAt(m) \subseteq PaysAt(m)'
    <2>1. ASSUME NEW i \in DOMAIN stored[n]
          PROVE  \E j \in DOMAIN s : s[j] = stored[n][i]
      BY <1>4
    <2>2. QED
      BY <1>6, <2>1 DEF PaysAt
  <1>8. /\ stored' \in [Node -> Seq(Arrivals)]
        /\ attempts' \in [Node -> 0 .. MaxRetries]
        /\ contact' \in [Node -> {"closed", "opened", "open"}]
        /\ crashes' \in 0 .. MaxCrashes
    <2>1. stored' \in [Node -> Seq(Arrivals)]
      BY <1>3, <1>5 DEF ChainInv, ChainTypeOK
    <2>2. attempts' \in [Node -> 0 .. MaxRetries]
      <3>1. attempts' = [attempts EXCEPT ![n] = 0] /\ 0 \in 0 .. MaxRetries
        BY ChainAssumption DEF RestartNode
      <3>2. QED
        BY <3>1 DEF ChainInv, ChainTypeOK
    <2>3. contact' \in [Node -> {"closed", "opened", "open"}]
      BY <1>1 DEF RestartNode, ChainInv, ChainTypeOK
    <2>4. crashes' \in 0 .. MaxCrashes
      BY ChainAssumption DEF RestartNode, ChainInv, ChainTypeOK
    <2>5. QED
      BY <2>1, <2>2, <2>3, <2>4
  <1>9. UNCHANGED <<flight, acks, delivered, accepted, abandoned>>
    BY DEF RestartNode, history
  <1>10. AckMeansBeyond' /\ NoneLost'
    BY <1>7, <1>9, NothingLeaves
  <1>11. ChainTypeOK' /\ FlightOK' /\ AcksOK'
    BY <1>8, <1>9 DEF ChainInv, ChainTypeOK, FlightOK, AcksOK
  <1>12. QED
    BY <1>10, <1>11 DEF ChainInv
-----------------------------------------------------------------------------
LEMMA ChainInvStep ==
    ASSUME DistinctSources, ChainInv, [ChainNext]_chainVars
    PROVE  ChainInv'
  <1>1. ASSUME NEW m \in flight, Receive(m[1], m[2])
        PROVE  ChainInv'
    <2>1. m[1] \in Node
      BY <1>1 DEF ChainInv, ChainTypeOK
    <2>2. QED
      BY <1>1, <2>1, InvReceive
  <1>2. ASSUME NEW m \in acks, ReceiveAck(m[1], m[2])
        PROVE  ChainInv'
    <2>1. m[1] \in Node
      BY <1>2 DEF ChainInv, ChainTypeOK
    <2>2. QED
      BY <1>2, <2>1, InvReceiveAck
  <1>3. ASSUME NEW n \in Relay, NoticeDue(n) \/ NoticeEarly(n) \/ PassOnOther(n)
        PROVE  ChainInv'
    <2>1. contact' \in [Node -> {"closed", "opened", "open"}]
      BY <1>3 DEF NoticeDue, NoticeEarly, Notice, PassOnOther, ChainInv, ChainTypeOK
    <2>2. /\ TryFirst(n) \/ GiveUp(n) \/ TooSoon(n)
          /\ UNCHANGED <<acks, crashes, delivered, accepted>>
      BY <1>3 DEF NoticeDue, NoticeEarly, Notice, PassOnOther, DuePass
    <2>3. QED
      BY <2>1, <2>2, InvPass
  <1>4. ASSUME NEW n \in Relay, Opens(n) \/ Closes(n)
        PROVE  ChainInv'
    <2>1. /\ contact' \in [Node -> {"closed", "opened", "open"}]
          /\ UNCHANGED <<stored, attempts, flight, acks, crashes, delivered, accepted, abandoned>>
      BY <1>4 DEF Opens, Closes, history, ChainInv, ChainTypeOK
    <2>2. AckMeansBeyond' /\ NoneLost'
      BY <2>1, PaysUnchanged, NothingLeaves
    <2>3. QED
      BY <2>1, <2>2 DEF ChainInv, ChainTypeOK, FlightOK, AcksOK
  <1>5. ASSUME NEW n \in Relay, RestartNode(n)
        PROVE  ChainInv'
    BY <1>5, InvRestart
  <1>6. CASE UNCHANGED chainVars
    <2>1. UNCHANGED <<stored, attempts, contact, flight, acks, crashes, delivered, accepted, abandoned>>
      BY <1>6 DEF chainVars, history
    <2>2. AckMeansBeyond' /\ NoneLost'
      BY <2>1, PaysUnchanged, NothingLeaves
    <2>3. QED
      BY <2>1, <2>2 DEF ChainInv, ChainTypeOK, FlightOK, AcksOK
  <1>7. QED
    BY <1>1, <1>2, <1>3, <1>4, <1>5, <1>6 DEF ChainNext

\* With one packet per source, an acknowledgement on its way to a node always
\* means that the packet is delivered, given up or stored further on, and no
\* acknowledged packet is lost, whatever is forwarded directly, retransmitted,
\* delayed or lost and whenever nodes restart, in a chain of any length.
THEOREM CustodyIsSafe ==
    ASSUME DistinctSources
    PROVE  ChainSpec => [](ChainTypeOK /\ AckMeansBeyond /\ NoneLost)
  <1>1. ChainInit => ChainInv
    BY ChainInvInit
  <1>2. ChainInv /\ [ChainNext]_chainVars => ChainInv'
    BY ChainInvStep
  <1>3. ChainInv => ChainTypeOK /\ AckMeansBeyond /\ NoneLost
    BY DEF ChainInv
  <1>4. QED
    BY <1>1, <1>2, <1>3, PTL DEF ChainSpec
=============================================================================
