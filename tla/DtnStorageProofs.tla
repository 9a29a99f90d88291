-------------------------- MODULE DtnStorageProofs --------------------------
(***************************************************************************)
(* Proofs about dtn_storage.c for every capacity, clock, set of packets    *)
(* and combination of faults.  The steps are first put in a common shape,  *)
(* StorageStep, that the node's steps have too (DtnNodeProofs).            *)
(***************************************************************************)
EXTENDS DtnStorage, SequenceLemmas, FiniteSetTheorems

-----------------------------------------------------------------------------
\* Packets.

\* strip_custodian_option yields a packet for the same destination.
LEMMA StripType ==
    ASSUME NEW p \in Packet, WellSized(p)
    PROVE  StripCustodian(p) \in Packet /\ StripCustodian(p).dest = p.dest
  <1>1. CASE p.hbh = << >>
    BY <1>1 DEF StripCustodian
  <1>2. CASE p.hbh # << >>
    <2>1. p.hbh \in Seq(HbhHeader) /\ p.len \in Nat
      BY DEF Packet
    <2>2. Tail(p.hbh) \in Seq(HbhHeader)
      BY <1>2, <2>1, HeadTailProperties
    <2>3. p.hbh[1].bytes \in Nat
      <3>1. 1 \in 1 .. Len(p.hbh)
        BY <1>2, <2>1, EmptySeq
      <3>2. p.hbh[1] \in HbhHeader
        BY <2>1, <3>1, ElementOfSeq
      <3>3. QED
        BY <3>2 DEF HbhHeader
    <2>4. p.len + p.hbh[1].bytes - HBH_OPT_HDR_LEN \in Nat
      BY <1>2, <2>1, <2>3 DEF WellSized, HBH_OPT_HDR_LEN, IP6_HLEN
    <2> DEFINE h == Tail(p.hbh)
               l == p.len + p.hbh[1].bytes - HBH_OPT_HDR_LEN
               y == IF p.hbh[1].bytes = HBH_OPT_HDR_LEN THEN p.pay ELSE Mangled
    <2>5. StripCustodian(p) = [p EXCEPT !.hbh = h, !.len = l, !.pay = y]
      BY <1>2 DEF StripCustodian
    <2>6. y \in Payload \cup {Mangled}
      BY DEF Packet
    <2> HIDE DEF h, l, y
    <2>7. [p EXCEPT !.hbh = h, !.len = l, !.pay = y] \in Packet
      BY <2>2, <2>4, <2>6 DEF Packet, h, l
    <2>8. QED
      BY <2>5, <2>7 DEF Packet
  <1>3. QED
    BY <1>1, <1>2

LEMMA StoredFormsType ==
    ASSUME NEW p \in Arrivals, NEW s \in StoredForms(p)
    PROVE  p \in Packet /\ s \in Packet /\ s.dest = p.dest
  BY StripType, StorageAssumption DEF StoredForms
-----------------------------------------------------------------------------
(***************************************************************************)
(* The shape of the steps.  Whatever a deletion compares, it removes one   *)
(* entry, or nothing, or does not return.                                  *)
(***************************************************************************)
Removal ==
    \/ \E i \in DOMAIN packet_list : RemoveEntry(i)
    \/ UNCHANGED storageVars
    \/ proc' = "hung" /\ UNCHANGED <<packet_list, stored_packets_count, disk, now>>

StorageStep ==
    \/ /\ proc = "running"
       /\ \/ \E p \in Arrivals : StoreSucceeds(p) \/ StoreFails(p) \/ CrashInStore(p)
          \/ Removal
    \/ Crash
    \/ Restart
    \/ Tick

LEMMA DeletionShape ==
    /\ \A d : retrieve_packet_for_dest(d) => Removal
    /\ \A q : delete_packet_by_ip_header(q) => Removal
    /\ \A q : delete_packet_by_icmp_data(q) => Removal
  <1>1. \A d : retrieve_packet_for_dest(d) => Removal
    BY DEF retrieve_packet_for_dest, Removal
  <1>2. \A q : delete_packet_by_ip_header(q) => Removal
    BY DEF delete_packet_by_ip_header, Removal
  <1>3. ASSUME NEW q, delete_packet_by_icmp_data(q)
        PROVE  Removal
    <2>1. \/ delete_packet_by_ip_header(q)
          \/ \E i \in DOMAIN packet_list : RemoveEntry(i)
          \/ UNCHANGED storageVars
          \/ proc' = "hung" /\ UNCHANGED <<packet_list, stored_packets_count, disk, now>>
      BY <1>3 DEF delete_packet_by_icmp_data
    <2>2. QED
      BY <1>2, <2>1 DEF Removal
  <1>4. QED
    BY <1>1, <1>2, <1>3

LEMMA NextShape == StorageNext => StorageStep
  BY DeletionShape DEF StorageNext, StorageOp, StorageStep
-----------------------------------------------------------------------------
(***************************************************************************)
(* List and counter.  The counter's bound needs the list (a removal lowers *)
(* it only when there is an entry), and the list's names need the disk's   *)
(* (a load takes them from there), so all are carried together.            *)
(***************************************************************************)
Named ==
    /\ \A i \in DOMAIN packet_list : filename(packet_list[i]) \in FileName
    /\ \A n \in Complete : disk[n].dest = n[1]

ListInv == StorageTypeOK /\ ListConsistent /\ Named

LEMMA ListFacts ==
    ASSUME StorageTypeOK
    PROVE  /\ Len(packet_list) \in Nat
           /\ DOMAIN packet_list = 1 .. Len(packet_list)
           /\ \A i \in DOMAIN packet_list : packet_list[i] \in Entry
  BY LenProperties, ElementOfSeq DEF StorageTypeOK

LEMMA ListInvInit == StorageInit => ListInv
  <1> SUFFICES ASSUME StorageInit PROVE ListInv
    OBVIOUS
  <1>1. StorageTypeOK
    BY StorageAssumption, EmptySeq DEF StorageInit, StorageTypeOK, Time
  <1>2. Complete = {}
    BY StorageAssumption DEF StorageInit, Complete
  <1>3. DOMAIN packet_list = {} /\ Len(packet_list) = 0
    BY DEF StorageInit
  <1>4. QED
    BY <1>1, <1>2, <1>3 DEF ListInv, ListConsistent, Named, StorageInit

LEMMA ListInvStore ==
    ASSUME ListInv, NEW p \in Arrivals, StoreSucceeds(p)
    PROVE  ListInv'
  <1>0. PICK s \in StoredForms(p), a \in Ptr \ Ptrs :
             /\ packet_list' = Append(packet_list, [ptr |-> a, p |-> s, time |-> now])
             /\ \E c \in Written(s) : disk' = [disk EXCEPT ![<<p.dest, now>>] = c]
    BY DEF StoreSucceeds
  <1>1. PICK c \in Written(s) : disk' = [disk EXCEPT ![<<p.dest, now>>] = c]
    BY <1>0
  <1> DEFINE e == [ptr |-> a, p |-> s, time |-> now]
  <1>2. s \in Packet /\ s.dest = p.dest /\ (c = s \/ c = Partial)
    BY StoredFormsType DEF Written
  <1>3. e \in Entry /\ filename(e) = <<p.dest, now>> /\ <<p.dest, now>> \in FileName
    BY <1>2 DEF Entry, ListInv, StorageTypeOK, filename, FileName
  <1>4. /\ packet_list' \in Seq(Entry) /\ Len(packet_list') = Len(packet_list) + 1
        /\ DOMAIN packet_list' = 1 .. Len(packet_list) + 1
        /\ \A i \in 1 .. Len(packet_list) : packet_list'[i] = packet_list[i]
        /\ packet_list'[Len(packet_list) + 1] = e
    BY <1>0, <1>3, AppendFacts DEF ListInv, StorageTypeOK
  <1>5. Len(packet_list) \in Nat /\ DOMAIN packet_list = 1 .. Len(packet_list)
    BY ListFacts DEF ListInv
  <1> HIDE DEF e
  <1>6. StorageTypeOK'
    <2>1. stored_packets_count' \in 0 .. MaxStored
      BY StorageAssumption DEF StoreSucceeds, MayOpen, is_full, ListInv, StorageTypeOK
    <2>2. disk' \in [FileName -> Packet \cup {NoFile, Partial}]
      BY <1>1, <1>2 DEF ListInv, StorageTypeOK
    <2>3. QED
      BY <1>4, <2>1, <2>2 DEF ListInv, StorageTypeOK, StoreSucceeds
  <1>7. ListConsistent'
    <2>1. \A i \in 1 .. Len(packet_list) : packet_list'[i].ptr \in Ptrs
      BY <1>4, <1>5 DEF Ptrs
    <2>2. e.ptr \notin Ptrs
      BY <1>0 DEF e
    <2>3. stored_packets_count' = Len(packet_list')
      BY <1>4 DEF StoreSucceeds, ListInv, ListConsistent
    <2>4. ASSUME NEW i \in DOMAIN packet_list', NEW j \in DOMAIN packet_list',
                 packet_list'[i].ptr = packet_list'[j].ptr
          PROVE  i = j
      <3>1. (i \in 1 .. Len(packet_list) \/ i = Len(packet_list) + 1)
            /\ (j \in 1 .. Len(packet_list) \/ j = Len(packet_list) + 1)
        BY <1>4, <1>5
      <3>2. QED
        BY <1>4, <1>5, <2>1, <2>2, <2>4, <3>1 DEF ListInv, ListConsistent
    <2>5. QED
      BY <2>3, <2>4 DEF ListConsistent
  <1>8. Named'
    <2>1. ASSUME NEW i \in DOMAIN packet_list'
          PROVE  filename(packet_list'[i]) \in FileName
      <3>1. i \in 1 .. Len(packet_list) \/ i = Len(packet_list) + 1
        BY <1>4, <1>5
      <3>2. QED
        BY <1>3, <1>4, <1>5, <3>1 DEF ListInv, Named
    <2>2. ASSUME NEW n \in FileName, disk'[n] \in Packet
          PROVE  disk'[n].dest = n[1]
      <3>1. CASE n = <<p.dest, now>>
        BY <1>1, <1>2, <2>2, <3>1, StorageAssumption DEF ListInv, StorageTypeOK
      <3>2. CASE n # <<p.dest, now>>
        BY <1>1, <2>2, <3>2 DEF ListInv, Named, Complete, StorageTypeOK
      <3>3. QED
        BY <3>1, <3>2
    <2>3. QED
      BY <2>1, <2>2 DEF Named, Complete, filename, FileName
  <1>9. QED
    BY <1>6, <1>7, <1>8 DEF ListInv

\* What the list looks like after entry i has been unlinked.
LEMMA RemovedList ==
    ASSUME StorageTypeOK, NEW i \in DOMAIN packet_list, RemoveEntry(i)
    PROVE  /\ packet_list' \in Seq(Entry)
           /\ Len(packet_list') = Len(packet_list) - 1
           /\ DOMAIN packet_list' = 1 .. Len(packet_list) - 1
           /\ \A j \in DOMAIN packet_list' :
                 packet_list'[j] = packet_list[IF j < i THEN j ELSE j + 1]
           /\ \A j \in DOMAIN packet_list' : (IF j < i THEN j ELSE j + 1) \in DOMAIN packet_list \ {i}
           /\ \A j, k \in DOMAIN packet_list' :
                 (IF j < i THEN j ELSE j + 1) = (IF k < i THEN k ELSE k + 1) => j = k
           /\ \A j \in DOMAIN packet_list \ {i} :
                 \E k \in DOMAIN packet_list' : j = IF k < i THEN k ELSE k + 1
  <1>1. Len(packet_list) \in Nat /\ i \in 1 .. Len(packet_list)
        /\ DOMAIN packet_list = 1 .. Len(packet_list)
    BY ListFacts
  <1>2. packet_list' = RemoveAt(packet_list, i)
    BY DEF RemoveEntry
  <1>3. /\ packet_list' \in Seq(Entry)
        /\ Len(packet_list') = Len(packet_list) - 1
        /\ DOMAIN packet_list' = 1 .. Len(packet_list) - 1
        /\ \A j \in 1 .. Len(packet_list) - 1 :
              packet_list'[j] = IF j < i THEN packet_list[j] ELSE packet_list[j + 1]
    BY <1>1, <1>2, RemoveAtFacts DEF StorageTypeOK
  <1>4. ASSUME NEW j \in DOMAIN packet_list \ {i}
        PROVE  \E k \in DOMAIN packet_list' : j = IF k < i THEN k ELSE k + 1
    <2>1. CASE j < i
      BY <1>1, <1>3, <2>1
    <2>2. CASE j > i
      <3>1. j - 1 \in DOMAIN packet_list' /\ ~(j - 1 < i) /\ (j - 1) + 1 = j
        BY <1>1, <1>3, <2>2
      <3>2. QED
        BY <3>1
    <2>3. QED
      BY <1>1, <2>1, <2>2
  <1>5. \A j \in DOMAIN packet_list' : (IF j < i THEN j ELSE j + 1) \in DOMAIN packet_list \ {i}
    BY <1>1, <1>3
  <1>6. \A j, k \in DOMAIN packet_list' :
          (IF j < i THEN j ELSE j + 1) = (IF k < i THEN k ELSE k + 1) => j = k
    BY <1>1, <1>3
  <1>7. QED
    BY <1>3, <1>4, <1>5, <1>6

LEMMA ListInvRemove ==
    ASSUME ListInv, NEW i \in DOMAIN packet_list, RemoveEntry(i)
    PROVE  ListInv'
  <1> DEFINE old(j) == IF j < i THEN j ELSE j + 1
  <1>1. /\ packet_list' \in Seq(Entry) /\ Len(packet_list') = Len(packet_list) - 1
        /\ \A j \in DOMAIN packet_list' : packet_list'[j] = packet_list[old(j)]
        /\ \A j \in DOMAIN packet_list' : old(j) \in DOMAIN packet_list
        /\ \A j, k \in DOMAIN packet_list' : old(j) = old(k) => j = k
    BY RemovedList DEF ListInv
  <1> HIDE DEF old
  <1>2. Len(packet_list) \in Nat /\ i \in 1 .. Len(packet_list)
    BY ListFacts DEF ListInv
  <1>3. disk' \in [FileName -> Packet \cup {NoFile, Partial}]
        /\ \A n \in FileName : disk'[n] \in {disk[n], NoFile}
    BY DEF RemoveEntry, ListInv, StorageTypeOK
  <1>4. StorageTypeOK'
    <2>1. stored_packets_count' \in 0 .. MaxStored
      BY <1>2, StorageAssumption DEF RemoveEntry, ListInv, ListConsistent, StorageTypeOK
    <2>2. QED
      BY <1>1, <1>3, <2>1 DEF RemoveEntry, ListInv, StorageTypeOK
  <1>5. ListConsistent'
    <2>1. stored_packets_count' = Len(packet_list')
      BY <1>1 DEF RemoveEntry, ListInv, ListConsistent
    <2>2. QED
      BY <1>1, <2>1 DEF ListInv, ListConsistent
  <1>6. Named'
    BY <1>1, <1>3, StorageAssumption DEF ListInv, Named, Complete, filename, FileName
  <1>7. QED
    BY <1>4, <1>5, <1>6 DEF ListInv

\* A step that leaves the list alone and writes a file that is not whole.
LEMMA ListInvFail ==
    ASSUME ListInv, NEW p \in Arrivals, StoreFails(p)
    PROVE  ListInv'
  <1>1. disk' \in [FileName -> Packet \cup {NoFile, Partial}]
        /\ \A n \in FileName : disk'[n] \in {disk[n], Partial}
    BY DEF StoreFails, ListInv, StorageTypeOK
  <1>2. UNCHANGED <<packet_list, stored_packets_count, proc, now>>
    BY DEF StoreFails
  <1>3. Named'
    BY <1>1, <1>2, StorageAssumption DEF ListInv, Named, Complete, filename, FileName
  <1>4. QED
    BY <1>1, <1>2, <1>3 DEF ListInv, StorageTypeOK, ListConsistent

LEMMA ListInvCrash ==
    ASSUME ListInv, LoseMemory,
           \/ UNCHANGED disk
           \/ \E p \in Arrivals : \E c \in StoredForms(p) \cup {Partial} :
                 disk' = [disk EXCEPT ![<<p.dest, now>>] = c]
    PROVE  ListInv'
  <1>1. /\ disk' \in [FileName -> Packet \cup {NoFile, Partial}]
        /\ \A n \in FileName : disk'[n] \in Packet => disk'[n].dest = n[1]
    <2>1. CASE UNCHANGED disk
      BY <2>1 DEF ListInv, Named, StorageTypeOK, Complete
    <2>2. ASSUME NEW p \in Arrivals, NEW c \in StoredForms(p) \cup {Partial},
                 disk' = [disk EXCEPT ![<<p.dest, now>>] = c]
          PROVE  /\ disk' \in [FileName -> Packet \cup {NoFile, Partial}]
                 /\ \A n \in FileName : disk'[n] \in Packet => disk'[n].dest = n[1]
      <3>1. (c \in Packet /\ c.dest = p.dest) \/ c = Partial
        BY StoredFormsType
      <3>2. disk' \in [FileName -> Packet \cup {NoFile, Partial}]
        BY <2>2, <3>1 DEF ListInv, StorageTypeOK
      <3>3. ASSUME NEW n \in FileName, disk'[n] \in Packet
            PROVE  disk'[n].dest = n[1]
        <4>1. CASE n = <<p.dest, now>>
          BY <2>2, <3>1, <3>3, <4>1, StorageAssumption DEF ListInv, StorageTypeOK
        <4>2. CASE n # <<p.dest, now>>
          BY <2>2, <3>3, <4>2 DEF ListInv, Named, StorageTypeOK, Complete
        <4>3. QED
          BY <4>1, <4>2
      <3>4. QED
        BY <3>2, <3>3
    <2>3. QED
      BY <2>1, <2>2
  <1>2. packet_list' \in Seq(Entry) /\ DOMAIN packet_list' = {} /\ Len(packet_list') = 0
    BY EmptySeq DEF LoseMemory
  <1>3. QED
    BY <1>1, <1>2, StorageAssumption
    DEF LoseMemory, ListInv, StorageTypeOK, ListConsistent, Named, Complete, FileName, filename

\* A load order is a sequence of different complete files, at most
\* MAX_STORED_PACKETS of them, and misses one only at that number or when a
\* file could not be loaded.
LEMMA LoadOrderFacts ==
    ASSUME NEW s \in LoadOrders
    PROVE  \E n \in 0 .. MaxStored :
              /\ s \in [1 .. n -> Complete] /\ Len(s) = n
              /\ \A i, j \in 1 .. n : s[i] = s[j] => i = j
              /\ n = MaxStored \/ Complete = {s[i] : i \in 1 .. n} \/ AllocMayFail
  <1>1. PICK n \in 0 .. MaxStored : s \in [1 .. n -> Complete]
    BY DEF LoadOrders
  <1>2. n \in Nat /\ MaxStored \in Nat \ {0}
    BY StorageAssumption
  <1>3. DOMAIN s = 1 .. n /\ Len(s) = n
    BY <1>1, <1>2
  <1>4. DOMAIN s = Ptr => n = MaxStored
    BY <1>2, <1>3 DEF Ptr
  <1>5. /\ \A i, j \in DOMAIN s : s[i] = s[j] => i = j
        /\ DOMAIN s = Ptr \/ Complete = {s[i] : i \in DOMAIN s} \/ AllocMayFail
    BY DEF LoadOrders
  <1>6. QED
    BY <1>1, <1>3, <1>4, <1>5

LEMMA LoadedList ==
    ASSUME ListInv, Restart
    PROVE  \E s \in LoadOrders :
              /\ packet_list' \in Seq(Entry)
              /\ Len(packet_list') = Len(s) /\ DOMAIN packet_list' = 1 .. Len(s)
              /\ \A i \in 1 .. Len(s) : /\ packet_list'[i].ptr = i
                                       /\ packet_list'[i].p = disk[s[i]]
                                       /\ filename(packet_list'[i]) = s[i]
              /\ stored_packets_count' = Len(s) /\ Len(s) \in 0 .. MaxStored
  <1>1. PICK s \in LoadOrders : Load(s)
    BY DEF Restart
  <1>2. PICK n \in 0 .. MaxStored : s \in [1 .. n -> Complete] /\ Len(s) = n
    BY LoadOrderFacts
  <1>3. n \in Nat
    BY StorageAssumption
  <1>4. packet_list' = [i \in 1 .. n |-> [ptr |-> i, p |-> disk[s[i]], time |-> s[i][2]]]
    BY <1>1, <1>2 DEF Load
  <1>5. ASSUME NEW i \in 1 .. n
        PROVE  /\ packet_list'[i] \in Entry
               /\ packet_list'[i].ptr = i
               /\ packet_list'[i].p = disk[s[i]]
               /\ filename(packet_list'[i]) = s[i]
    <2>1. s[i] \in FileName /\ disk[s[i]] \in Packet /\ disk[s[i]].dest = s[i][1]
      BY <1>2 DEF ListInv, Named, Complete
    <2>2. s[i][2] \in Time /\ s[i] = <<s[i][1], s[i][2]>>
      BY <2>1 DEF FileName
    <2>3. i \in Ptr
      BY <1>3, StorageAssumption DEF Ptr
    <2>4. packet_list'[i] = [ptr |-> i, p |-> disk[s[i]], time |-> s[i][2]]
      BY <1>4
    <2>5. QED
      BY <2>1, <2>2, <2>3, <2>4 DEF Entry, filename
  <1>6. DOMAIN packet_list' = 1 .. n
    BY <1>4
  <1>7. packet_list' \in Seq(Entry) /\ Len(packet_list') = n
    <2>1. packet_list' \in [1 .. n -> Entry]
      BY <1>4, <1>5
    <2>2. QED
      BY <1>3, <2>1
  <1>8. QED
    BY <1>1, <1>2, <1>3, <1>5, <1>6, <1>7 DEF Load

LEMMA ListInvRestart ==
    ASSUME ListInv, Restart
    PROVE  ListInv'
  <1>1. PICK s \in LoadOrders :
              /\ packet_list' \in Seq(Entry)
              /\ Len(packet_list') = Len(s) /\ DOMAIN packet_list' = 1 .. Len(s)
              /\ \A i \in 1 .. Len(s) : /\ packet_list'[i].ptr = i
                                       /\ filename(packet_list'[i]) = s[i]
              /\ stored_packets_count' = Len(s) /\ Len(s) \in 0 .. MaxStored
    BY LoadedList
  <1>2. PICK n \in 0 .. MaxStored : s \in [1 .. n -> Complete] /\ Len(s) = n
    BY LoadOrderFacts
  <1>3. StorageTypeOK'
    BY <1>1 DEF Restart, ListInv, StorageTypeOK
  <1>4. ListConsistent'
    BY <1>1 DEF ListConsistent
  <1>5. Named'
    <2>1. \A i \in DOMAIN packet_list' : filename(packet_list'[i]) \in FileName
      BY <1>1, <1>2 DEF Complete
    <2>2. UNCHANGED disk
      BY DEF Restart
    <2>3. QED
      BY <2>1, <2>2 DEF ListInv, Named, Complete, filename, FileName
  <1>6. QED
    BY <1>3, <1>4, <1>5 DEF ListInv

LEMMA ListInvTick ==
    ASSUME ListInv, Tick
    PROVE  ListInv'
  <1>1. now' \in Time
    BY StorageAssumption DEF Tick, Time, ListInv, StorageTypeOK
  <1>2. QED
    BY <1>1 DEF Tick, ListInv, StorageTypeOK, ListConsistent, Named, Complete, filename, FileName

LEMMA ListInvStep ==
    ASSUME ListInv, [StorageStep]_storageVars
    PROVE  ListInv'
  <1>1. CASE UNCHANGED storageVars
    BY <1>1 DEF storageVars, ListInv, StorageTypeOK, ListConsistent, Named, Complete, filename, FileName
  <1>2. ASSUME NEW p \in Arrivals, CrashInStore(p)
        PROVE  ListInv'
    BY <1>2, ListInvCrash DEF CrashInStore
  <1>3. ASSUME Removal
        PROVE  ListInv'
    <2>1. CASE proc' = "hung" /\ UNCHANGED <<packet_list, stored_packets_count, disk, now>>
      BY <2>1 DEF ListInv, StorageTypeOK, ListConsistent, Named, Complete, filename, FileName
    <2>2. QED
      BY <1>1, <1>3, <2>1, ListInvRemove DEF Removal
  <1>4. CASE Crash
    BY <1>4, ListInvCrash DEF Crash
  <1>5. QED
    BY <1>1, <1>2, <1>3, <1>4, ListInvStore, ListInvFail, ListInvRestart, ListInvTick DEF StorageStep

\* The storage state keeps its types, its counter is the length of its list
\* and its entries are different objects, under every fault.
THEOREM StorageTypesAndCounter == StorageSpec => [](StorageTypeOK /\ ListConsistent)
  <1>1. ListInv /\ [StorageNext]_storageVars => ListInv'
    BY ListInvStep, NextShape
  <1>2. ListInv => StorageTypeOK /\ ListConsistent
    BY DEF ListInv
  <1>3. QED
    BY <1>1, <1>2, ListInvInit, PTL DEF StorageSpec
-----------------------------------------------------------------------------
(***************************************************************************)
(* Memory and disk.  That a removal deletes no file of another entry needs *)
(* the entries' names to differ; that a store takes a new name rests on    *)
(* the two stores not happening in one reading of the clock.  That the     *)
(* file is whole when the entry is linked rests on fclose.                 *)
(***************************************************************************)
NamesDistinct ==
    proc # "down" =>
        \A i, j \in DOMAIN packet_list :
            filename(packet_list[i]) = filename(packet_list[j]) => i = j

DurableInv == ListInv /\ MemoryOnDisk /\ NamesDistinct

LEMMA DurableStore ==
    ASSUME DurableInv, ~SameMsStores, ~FlushMayFail, proc = "running", NEW p \in Arrivals,
           StoreSucceeds(p)
    PROVE  (MemoryOnDisk /\ NamesDistinct)'
  <1> DEFINE nm == <<p.dest, now>>
             len == Len(packet_list)
  <1>1. PICK s \in StoredForms(p), a \in Ptr \ Ptrs :
             /\ packet_list' = Append(packet_list, [ptr |-> a, p |-> s, time |-> now])
             /\ disk' = [disk EXCEPT ![nm] = s]
    BY DEF StoreSucceeds, Written
  <1> DEFINE e == [ptr |-> a, p |-> s, time |-> now]
  <1>2. s \in Packet /\ s.dest = p.dest
    BY StoredFormsType
  <1>3. e \in Entry /\ e.p = s /\ filename(e) = nm /\ nm \in FileName
    BY <1>2 DEF Entry, DurableInv, ListInv, StorageTypeOK, filename, FileName
  <1>4. /\ DOMAIN packet_list' = 1 .. len + 1
        /\ \A i \in 1 .. len : packet_list'[i] = packet_list[i]
        /\ packet_list'[len + 1] = e
    BY <1>1, <1>3, AppendFacts DEF DurableInv, ListInv, StorageTypeOK
  <1>5. /\ len \in Nat /\ DOMAIN packet_list = 1 .. len
        /\ \A i \in DOMAIN packet_list : packet_list[i] \in Entry
    BY ListFacts DEF DurableInv, ListInv
  <1>6. disk[nm] \notin Packet /\ disk'[nm] = s
    BY <1>1, <1>3 DEF StoreSucceeds, MayOpen, NewName, DurableInv, ListInv, StorageTypeOK
  <1>7. \A n \in FileName : n # nm => disk'[n] = disk[n]
    BY <1>1 DEF DurableInv, ListInv, StorageTypeOK
  <1> HIDE DEF nm, len, e
  <1>8. ASSUME NEW i \in 1 .. len
        PROVE  /\ filename(packet_list[i]) \in FileName \ {nm}
               /\ disk[filename(packet_list[i])] = packet_list[i].p
    <2>1. filename(packet_list[i]) \in FileName /\ disk[filename(packet_list[i])] = packet_list[i].p
      BY <1>5 DEF DurableInv, ListInv, Named, MemoryOnDisk
    <2>2. packet_list[i].p \in Packet
      BY <1>5 DEF Entry
    <2>3. QED
      BY <1>6, <2>1, <2>2
  <1>9. \A i \in DOMAIN packet_list' : i \in 1 .. len \/ i = len + 1
    BY <1>4, <1>5
  <1>10. MemoryOnDisk'
    <2>1. \A i \in DOMAIN packet_list' : disk'[filename(packet_list'[i])] = packet_list'[i].p
      BY <1>3, <1>4, <1>6, <1>7, <1>8, <1>9
    <2>2. QED
      BY <2>1 DEF MemoryOnDisk, filename
  <1>11. NamesDistinct'
    <2>1. \A i, j \in 1 .. len : filename(packet_list[i]) = filename(packet_list[j]) => i = j
      BY <1>5 DEF DurableInv, NamesDistinct
    <2>2. \A i, j \in DOMAIN packet_list' :
              filename(packet_list'[i]) = filename(packet_list'[j]) => i = j
      BY <1>3, <1>4, <1>8, <1>9, <2>1
    <2>3. QED
      BY <2>2 DEF NamesDistinct, filename
  <1>12. QED
    BY <1>10, <1>11

LEMMA DurableRemove ==
    ASSUME DurableInv, proc = "running", NEW i \in DOMAIN packet_list, RemoveEntry(i)
    PROVE  (MemoryOnDisk /\ NamesDistinct)'
  <1> DEFINE old(j) == IF j < i THEN j ELSE j + 1
  <1>1. /\ \A j \in DOMAIN packet_list' : packet_list'[j] = packet_list[old(j)]
        /\ \A j \in DOMAIN packet_list' : old(j) \in DOMAIN packet_list \ {i}
        /\ \A j, k \in DOMAIN packet_list' : old(j) = old(k) => j = k
    BY RemovedList DEF DurableInv, ListInv
  <1> HIDE DEF old
  <1>2. \A n \in FileName : n # filename(packet_list[i]) => disk'[n] = disk[n]
    BY DEF RemoveEntry, DurableInv, ListInv, StorageTypeOK
  <1>3. \A j \in DOMAIN packet_list \ {i} :
            /\ filename(packet_list[j]) \in FileName
            /\ filename(packet_list[j]) # filename(packet_list[i])
            /\ disk[filename(packet_list[j])] = packet_list[j].p
    BY DEF DurableInv, ListInv, Named, MemoryOnDisk, NamesDistinct
  <1>4. MemoryOnDisk'
    <2>1. \A j \in DOMAIN packet_list' : disk'[filename(packet_list'[j])] = packet_list'[j].p
      BY <1>1, <1>2, <1>3
    <2>2. QED
      BY <2>1 DEF MemoryOnDisk, filename
  <1>5. NamesDistinct'
    <2>1. \A j, k \in DOMAIN packet_list' :
              filename(packet_list'[j]) = filename(packet_list'[k]) => j = k
      BY <1>1 DEF DurableInv, NamesDistinct
    <2>2. QED
      BY <2>1 DEF NamesDistinct, filename
  <1>6. QED
    BY <1>4, <1>5

LEMMA DurableFail ==
    ASSUME DurableInv, ~SameMsStores, proc = "running", NEW p \in Arrivals, StoreFails(p)
    PROVE  (MemoryOnDisk /\ NamesDistinct)'
  <1>1. \A n \in FileName : disk[n] \in Packet => disk'[n] = disk[n]
    BY DEF StoreFails, MayOpen, NewName, DurableInv, ListInv, StorageTypeOK
  <1>2. UNCHANGED <<packet_list, proc>>
    BY DEF StoreFails
  <1>3. \A i \in DOMAIN packet_list : packet_list[i].p \in Packet
    BY ListFacts DEF DurableInv, ListInv, Entry
  <1>4. MemoryOnDisk'
    BY <1>1, <1>2, <1>3 DEF DurableInv, ListInv, Named, MemoryOnDisk, filename
  <1>5. NamesDistinct'
    BY <1>2 DEF DurableInv, NamesDistinct, filename
  <1>6. QED
    BY <1>4, <1>5

LEMMA DurableRestart ==
    ASSUME DurableInv, Restart
    PROVE  (MemoryOnDisk /\ NamesDistinct)'
  <1>1. PICK s \in LoadOrders :
              /\ DOMAIN packet_list' = 1 .. Len(s)
              /\ \A i \in 1 .. Len(s) : /\ packet_list'[i].p = disk[s[i]]
                                       /\ filename(packet_list'[i]) = s[i]
    BY LoadedList DEF DurableInv
  <1>2. \A i, j \in 1 .. Len(s) : s[i] = s[j] => i = j
    BY LoadOrderFacts
  <1>3. UNCHANGED disk
    BY DEF Restart
  <1>4. MemoryOnDisk'
    BY <1>1, <1>3 DEF MemoryOnDisk, filename
  <1>5. NamesDistinct'
    BY <1>1, <1>2 DEF NamesDistinct, filename
  <1>6. QED
    BY <1>4, <1>5

\* Nothing is said of memory while the process is down.
LEMMA DownIsDurable == LoseMemory => (MemoryOnDisk /\ NamesDistinct)'
  BY DEF LoseMemory, MemoryOnDisk, NamesDistinct

LEMMA DurableStep ==
    ASSUME DurableInv, ~SameMsStores, ~FlushMayFail, [StorageStep]_storageVars
    PROVE  DurableInv'
  <1> SUFFICES (MemoryOnDisk /\ NamesDistinct)'
    BY ListInvStep DEF DurableInv
  <1>2. ASSUME UNCHANGED <<packet_list, disk>>, proc' # "down" => proc # "down"
        PROVE  (MemoryOnDisk /\ NamesDistinct)'
    BY <1>2 DEF DurableInv, MemoryOnDisk, NamesDistinct, filename
  <1>3. CASE UNCHANGED storageVars
    BY <1>2, <1>3 DEF storageVars
  <1>4. ASSUME proc = "running", Removal
        PROVE  (MemoryOnDisk /\ NamesDistinct)'
    <2>1. CASE proc' = "hung" /\ UNCHANGED <<packet_list, stored_packets_count, disk, now>>
      BY <1>2, <1>4, <2>1
    <2>2. QED
      BY <1>3, <1>4, <2>1, DurableRemove DEF Removal
  <1>5. CASE Crash
    BY <1>5, DownIsDurable DEF Crash
  <1>6. ASSUME NEW p \in Arrivals, CrashInStore(p)
        PROVE  (MemoryOnDisk /\ NamesDistinct)'
    BY <1>6, DownIsDurable DEF CrashInStore
  <1>7. CASE Tick
    BY <1>2, <1>7 DEF Tick
  <1>8. QED
    BY <1>3, <1>4, <1>5, <1>6, <1>7, DurableStore, DurableFail, DurableRestart DEF StorageStep

LEMMA DurableInit == StorageInit => DurableInv
  <1>1. StorageInit => DOMAIN packet_list = {}
    BY DEF StorageInit
  <1>2. QED
    BY <1>1, ListInvInit DEF DurableInv, MemoryOnDisk, NamesDistinct

\* Every packet in memory is on disk under its own name, whatever
\* allocations, calls of fopen, fwrite and remove fail and wherever the
\* process dies, provided the write that fclose makes does not fail (line
\* 110 does not look) and no two packets for one destination are stored in
\* one millisecond (line 64 names the file by destination and millisecond).
THEOREM StoredPacketsAreOnDisk ==
    ASSUME ~SameMsStores, ~FlushMayFail
    PROVE  StorageSpec => []MemoryOnDisk
  <1>1. DurableInv /\ [StorageNext]_storageVars => DurableInv'
    BY DurableStep, NextShape
  <1>2. DurableInv => MemoryOnDisk
    BY DEF DurableInv
  <1>3. QED
    BY <1>1, <1>2, DurableInit, PTL DEF StorageSpec
-----------------------------------------------------------------------------
(***************************************************************************)
(* Without failing removals, allocations and writes in fclose the files    *)
(* are exactly the stored packets, and a restart loads all of them.        *)
(***************************************************************************)
Reliable == ~SameMsStores /\ ~AllocMayFail /\ ~RemoveMayFail /\ ~FlushMayFail

LoadBound == IsFiniteSet(Complete) /\ Cardinality(Complete) <= MaxStored

ExactInv == DurableInv /\ NoOrphanFile /\ LoadBound

\* While the process lives there are at most as many files as entries.
LEMMA FilesBound ==
    ListInv /\ NoOrphanFile /\ proc # "down" =>
        IsFiniteSet(Complete) /\ Cardinality(Complete) <= Len(packet_list)
  <1> SUFFICES ASSUME ListInv, NoOrphanFile, proc # "down"
               PROVE  IsFiniteSet(Complete) /\ Cardinality(Complete) <= Len(packet_list)
    OBVIOUS
  <1> DEFINE f == [i \in 1 .. Len(packet_list) |-> filename(packet_list[i])]
  <1>1. Len(packet_list) \in Nat /\ DOMAIN packet_list = 1 .. Len(packet_list)
    BY ListFacts DEF ListInv
  <1>2. Complete = {filename(packet_list[i]) : i \in 1 .. Len(packet_list)}
    BY <1>1 DEF NoOrphanFile
  <1>3. f \in Surjection(1 .. Len(packet_list), Complete)
    BY <1>2 DEF Surjection
  <1>4. IsFiniteSet(1 .. Len(packet_list)) /\ Cardinality(1 .. Len(packet_list)) = Len(packet_list)
    <2>1. ASSUME NEW n \in Nat
          PROVE  IsFiniteSet(1 .. n) /\ Cardinality(1 .. n) = n
      BY FS_Interval
    <2>2. QED
      BY <1>1, <2>1
  <1>5. QED
    BY <1>3, <1>4, FS_Surjection

LEMMA FilesBoundNext ==
    (ListInv /\ NoOrphanFile /\ proc # "down" => LoadBound)'
  <1>1. ListInv /\ NoOrphanFile /\ proc # "down" => LoadBound
    <2>1. ListInv => Len(packet_list) <= MaxStored
      BY DEF ListInv, StorageTypeOK, ListConsistent
    <2>2. ListInv => Len(packet_list) \in Nat
      BY ListFacts DEF ListInv
    <2>3. IsFiniteSet(Complete) => Cardinality(Complete) \in Nat
      BY FS_CardinalityType
    <2>4. QED
      BY <2>1, <2>2, <2>3, FilesBound, StorageAssumption DEF LoadBound
  <1>2. QED
    BY <1>1, PTL

\* The part of NoOrphanFile that DurableInv does not give.
Exact ==
    proc # "down" => Complete = {filename(packet_list[i]) : i \in DOMAIN packet_list}

LEMMA ExactStore ==
    ASSUME DurableInv, Exact, Reliable, proc = "running", NEW p \in Arrivals, StoreSucceeds(p)
    PROVE  Exact'
  <1> DEFINE nm == <<p.dest, now>>
             len == Len(packet_list)
  <1>1. PICK s \in StoredForms(p), a \in Ptr \ Ptrs :
             /\ packet_list' = Append(packet_list, [ptr |-> a, p |-> s, time |-> now])
             /\ disk' = [disk EXCEPT ![nm] = s]
    BY DEF StoreSucceeds, Written, Reliable
  <1> DEFINE e == [ptr |-> a, p |-> s, time |-> now]
  <1>2. s \in Packet /\ s.dest = p.dest
    BY StoredFormsType
  <1>3. e \in Entry /\ filename(e) = nm /\ nm \in FileName
    BY <1>2 DEF Entry, DurableInv, ListInv, StorageTypeOK, filename, FileName
  <1>4. /\ DOMAIN packet_list' = 1 .. len + 1
        /\ \A i \in 1 .. len : packet_list'[i] = packet_list[i]
        /\ packet_list'[len + 1] = e
    BY <1>1, <1>3, AppendFacts DEF DurableInv, ListInv, StorageTypeOK
  <1>5. len \in Nat /\ DOMAIN packet_list = 1 .. len
    BY ListFacts DEF DurableInv, ListInv
  <1>6. {n \in FileName : disk'[n] \in Packet} = Complete \cup {nm}
    BY <1>1, <1>2, <1>3 DEF Complete, DurableInv, ListInv, StorageTypeOK
  <1> HIDE DEF nm, len, e
  <1>7. {filename(packet_list'[i]) : i \in DOMAIN packet_list'}
        = {filename(packet_list[i]) : i \in 1 .. len} \cup {nm}
    <2>1. \A i \in DOMAIN packet_list' : i \in 1 .. len \/ i = len + 1
      BY <1>4, <1>5
    <2>2. 1 .. len \subseteq DOMAIN packet_list' /\ len + 1 \in DOMAIN packet_list'
      BY <1>4, <1>5
    <2>3. QED
      BY <1>3, <1>4, <2>1, <2>2
  <1>8. Complete = {filename(packet_list[i]) : i \in 1 .. len}
    BY <1>5 DEF Exact
  <1>9. QED
    BY <1>6, <1>7, <1>8 DEF Exact, Complete, filename, FileName

LEMMA ExactRemove ==
    ASSUME DurableInv, Exact, Reliable, proc = "running",
           NEW i \in DOMAIN packet_list, RemoveEntry(i)
    PROVE  Exact'
  <1> DEFINE old(j) == IF j < i THEN j ELSE j + 1
             nm == filename(packet_list[i])
  <1>1. /\ \A j \in DOMAIN packet_list' : packet_list'[j] = packet_list[old(j)]
        /\ \A j \in DOMAIN packet_list' : old(j) \in DOMAIN packet_list \ {i}
        /\ \A j \in DOMAIN packet_list \ {i} : \E k \in DOMAIN packet_list' : j = old(k)
    BY RemovedList DEF DurableInv, ListInv
  <1> HIDE DEF old
  <1>2. \A j \in DOMAIN packet_list \ {i} : filename(packet_list[j]) # nm
    BY DEF DurableInv, NamesDistinct
  <1>3. disk' = [disk EXCEPT ![nm] = NoFile]
    BY DEF RemoveEntry, Reliable
  <1>4. {n \in FileName : disk'[n] \in Packet} = Complete \ {nm}
    BY <1>3, StorageAssumption DEF Complete, DurableInv, ListInv, StorageTypeOK
  <1> HIDE DEF nm
  <1>5. {filename(packet_list'[j]) : j \in DOMAIN packet_list'}
        = {filename(packet_list[j]) : j \in DOMAIN packet_list \ {i}}
    BY <1>1
  <1>6. Complete \ {nm} = {filename(packet_list[j]) : j \in DOMAIN packet_list \ {i}}
    BY <1>2 DEF Exact, nm
  <1>7. QED
    BY <1>4, <1>5, <1>6 DEF Exact, Complete, filename, FileName

\* A store that fails leaves the set of complete files as it was.
LEMMA ExactFail ==
    ASSUME DurableInv, Exact, Reliable, proc = "running", NEW p \in Arrivals, StoreFails(p)
    PROVE  Exact'
  <1>1. {n \in FileName : disk'[n] \in Packet} = Complete
    BY StorageAssumption
    DEF StoreFails, MayOpen, NewName, Reliable, Complete, DurableInv, ListInv, StorageTypeOK
  <1>2. QED
    BY <1>1 DEF StoreFails, Exact, Complete, filename, FileName

\* A restart loads every complete file: there are no more of them than the
\* list has room for.
LEMMA ExactRestart ==
    ASSUME DurableInv, LoadBound, Reliable, Restart
    PROVE  Exact'
  <1>1. PICK s \in LoadOrders :
              /\ DOMAIN packet_list' = 1 .. Len(s)
              /\ \A i \in 1 .. Len(s) : filename(packet_list'[i]) = s[i]
    BY LoadedList DEF DurableInv
  <1>2. PICK n \in 0 .. MaxStored :
              /\ s \in [1 .. n -> Complete] /\ Len(s) = n
              /\ \A i, j \in 1 .. n : s[i] = s[j] => i = j
              /\ n = MaxStored \/ Complete = {s[i] : i \in 1 .. n}
    BY LoadOrderFacts DEF Reliable
  <1>3. Complete = {s[i] : i \in 1 .. n}
    <2>1. CASE n = MaxStored
      <3>1. n \in Nat /\ IsFiniteSet(1 .. n) /\ Cardinality(1 .. n) = n
        <4>1. ASSUME NEW m \in Nat PROVE IsFiniteSet(1 .. m) /\ Cardinality(1 .. m) = m
          BY FS_Interval
        <4>2. QED
          BY <4>1, <2>1, StorageAssumption
      <3>2. s \in Injection(1 .. n, Complete)
        BY <1>2 DEF Injection, IsInjective
      <3>3. n <= Cardinality(Complete) /\ (n = Cardinality(Complete) => s \in Surjection(1 .. n, Complete))
        BY <3>1, <3>2, FS_Injection DEF LoadBound
      <3>4. Cardinality(Complete) \in Nat
        BY FS_CardinalityType DEF LoadBound
      <3>5. s \in Surjection(1 .. n, Complete)
        BY <2>1, <3>1, <3>3, <3>4 DEF LoadBound
      <3>6. QED
        BY <1>2, <3>5 DEF Surjection
    <2>2. QED
      BY <1>2, <2>1
  <1>4. {filename(packet_list'[i]) : i \in DOMAIN packet_list'} = {s[i] : i \in 1 .. n}
    BY <1>1, <1>2
  <1>5. QED
    BY <1>3, <1>4 DEF Restart, Exact, Complete, filename, FileName

\* A process that lives and has room for one more packet leaves at most
\* MAX_STORED_PACKETS files when it dies while writing that packet.
LEMMA BoundCrash ==
    ASSUME ListInv, NoOrphanFile, proc = "running", NEW p \in Arrivals, CrashInStore(p)
    PROVE  LoadBound'
  <1> DEFINE nm == <<p.dest, now>>
  <1>1. IsFiniteSet(Complete) /\ Cardinality(Complete) <= Len(packet_list)
    BY FilesBound
  <1>2. Len(packet_list) \in Nat /\ Len(packet_list) < MaxStored /\ Cardinality(Complete) \in Nat
    <2>1. Len(packet_list) \in Nat
      BY ListFacts DEF ListInv
    <2>2. Len(packet_list) < MaxStored
      BY <2>1, StorageAssumption
      DEF CrashInStore, MayOpen, is_full, ListInv, ListConsistent, StorageTypeOK
    <2>3. QED
      BY <1>1, <2>1, <2>2, FS_CardinalityType
  <1> DEFINE C == Complete \cup {nm}
  <1>3. /\ IsFiniteSet(C)
        /\ Cardinality(C) = IF nm \in Complete THEN Cardinality(Complete) ELSE Cardinality(Complete) + 1
    BY <1>1, FS_AddElement
  <1>4. Complete' \subseteq C
    <2>1. PICK c : disk' = [disk EXCEPT ![nm] = c]
      BY DEF CrashInStore
    <2>2. QED
      BY <2>1 DEF Complete, ListInv, StorageTypeOK, FileName
  <1> HIDE DEF C
  <1>5. Cardinality(C) \in Nat /\ Cardinality(C) <= MaxStored
    BY <1>1, <1>2, <1>3, StorageAssumption
  <1>6. IsFiniteSet(Complete') /\ Cardinality(Complete') <= Cardinality(C)
    BY <1>3, <1>4, FS_Subset
  <1>7. Cardinality(Complete') \in Nat
    BY <1>6, FS_CardinalityType
  <1>8. Cardinality(Complete') <= MaxStored
    BY <1>5, <1>6, <1>7, StorageAssumption
  <1>9. QED
    BY <1>6, <1>8 DEF LoadBound

LEMMA ExactStep ==
    ASSUME ExactInv, Reliable, [StorageStep]_storageVars
    PROVE  ExactInv'
  <1>1. DurableInv'
    BY DurableStep DEF ExactInv, Reliable
  <1>2. DurableInv /\ Exact
    BY DEF ExactInv, NoOrphanFile, Exact
  <1>3. ASSUME UNCHANGED <<packet_list, disk>>, proc' # "down" => proc # "down"
        PROVE  Exact' /\ LoadBound'
    BY <1>2, <1>3 DEF Exact, ExactInv, LoadBound, Complete, filename, FileName
  <1>4. ASSUME Exact', proc' # "down"
        PROVE  Exact' /\ LoadBound'
    BY <1>1, <1>4, FilesBoundNext DEF DurableInv, Exact, NoOrphanFile, NamesDistinct
  <1>6. ASSUME proc = "running", NEW p \in Arrivals, StoreSucceeds(p) \/ StoreFails(p)
        PROVE  Exact' /\ LoadBound'
    <2>1. proc' # "down"
      BY <1>6 DEF StoreSucceeds, StoreFails
    <2>2. QED
      BY <1>2, <1>4, <1>6, <2>1, ExactStore, ExactFail
  <1>7. ASSUME proc = "running", NEW p \in Arrivals, CrashInStore(p)
        PROVE  Exact' /\ LoadBound'
    BY <1>7, BoundCrash DEF CrashInStore, LoseMemory, Exact, ExactInv, DurableInv
  <1>8. ASSUME proc = "running", Removal
        PROVE  Exact' /\ LoadBound'
    <2>1. ASSUME NEW i \in DOMAIN packet_list, RemoveEntry(i)
          PROVE  Exact' /\ LoadBound'
      <3>1. proc' # "down"
        BY <1>8, <2>1 DEF RemoveEntry
      <3>2. QED
        BY <1>2, <1>4, <1>8, <2>1, <3>1, ExactRemove
    <2>2. CASE UNCHANGED storageVars
      BY <1>3, <2>2 DEF storageVars
    <2>3. CASE proc' = "hung" /\ UNCHANGED <<packet_list, stored_packets_count, disk, now>>
      BY <1>3, <1>8, <2>3
    <2>4. QED
      BY <1>8, <2>1, <2>2, <2>3 DEF Removal
  <1>9. ASSUME Crash
        PROVE  Exact' /\ LoadBound'
    BY <1>9 DEF Crash, LoseMemory, Exact, ExactInv, LoadBound, Complete, FileName
  <1>10. ASSUME Restart
         PROVE  Exact' /\ LoadBound'
    <2>1. proc' # "down"
      BY <1>10 DEF Restart
    <2>2. QED
      BY <1>4, <1>10, <2>1, ExactRestart DEF ExactInv
  <1>11. ASSUME Tick
         PROVE  Exact' /\ LoadBound'
    BY <1>3, <1>11 DEF Tick
  <1>12. Exact' /\ LoadBound'
    <2>1. CASE UNCHANGED storageVars
      BY <1>3, <2>1 DEF storageVars
    <2>2. CASE StorageStep
      BY <1>6, <1>7, <1>8, <1>9, <1>10, <1>11, <2>2 DEF StorageStep
    <2>3. QED
      BY <2>1, <2>2
  <1>13. QED
    BY <1>1, <1>12 DEF ExactInv, DurableInv, Exact, NoOrphanFile, NamesDistinct

LEMMA ExactInit == StorageInit => ExactInv
  <1> SUFFICES ASSUME StorageInit PROVE ExactInv
    OBVIOUS
  <1>1. Complete = {} /\ DOMAIN packet_list = {}
    BY StorageAssumption DEF StorageInit, Complete
  <1>2. LoadBound
    BY <1>1, FS_EmptySet, StorageAssumption DEF LoadBound
  <1>3. QED
    BY <1>1, <1>2, DurableInit DEF ExactInv, NoOrphanFile

\* When allocations, removals and the writes that fclose makes succeed and no
\* two stores share a name, the complete files are the stored packets while
\* the process lives, and never more than a restart can load.
THEOREM FilesAreExactlyTheStore ==
    ASSUME Reliable
    PROVE  StorageSpec => [](NoOrphanFile /\ LoadIsComplete)
  <1>1. ExactInv /\ [StorageNext]_storageVars => ExactInv'
    BY ExactStep, NextShape
  <1>2. ExactInv => NoOrphanFile /\ LoadIsComplete
    BY DEF ExactInv, LoadBound, LoadIsComplete
  <1>3. QED
    BY <1>1, <1>2, ExactInit, PTL DEF StorageSpec
=============================================================================
