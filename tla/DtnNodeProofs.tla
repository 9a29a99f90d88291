---------------------------- MODULE DtnNodeProofs ----------------------------
(***************************************************************************)
(* Proofs about the whole node.  Each of its steps is a step of the        *)
(* storage or leaves the storage alone, so the storage's invariants hold   *)
(* in it; custody, the tracking table and the cursor of the forwarding     *)
(* pass are built on them.                                                 *)
(***************************************************************************)
EXTENDS DtnNode, DtnStorageProofs

-----------------------------------------------------------------------------
\* What the node does to the storage.  Only packets of the network arrive.
Incoming == todo \subseteq Arrivals

LEMMA IncomingStep ==
    ASSUME Incoming, [NodeNext]_vars
    PROVE  Incoming'
  BY DEF Incoming, NodeNext, RunNext, LoopStep, Network, PassStep, vars, nodeVars, netVars,
         Idle, Poll, BeginPass, EndPass, FirstAttempt, Retry, GiveUp, TooSoon, ForwardEntry,
         HangOnEntry, Receive, Deliver, ReceiveAck, HangOnAck, Ignore, TimePasses, Die, Start,
         Proceed, Skip

\* A call that does not return, made by a running process.
LEMMA HangShape == proc = "running" /\ Hang => StorageStep
  BY DEF Hang, StorageStep, Removal

LEMMA StoreIncomingShape ==
    ASSUME NEW p \in Arrivals, proc = "running", StoreIncoming(p)
    PROVE  StorageStep
  BY DEF StoreIncoming, StorageStep

LEMMA ReceiveShape ==
    ASSUME NEW p \in Arrivals, Receive(p)
    PROVE  [StorageStep]_storageVars
  BY HangShape, StoreIncomingShape DEF Receive, process_incoming, ForwardNow, At

LEMMA AckShape ==
    ASSUME NEW p, ReceiveAck(p)
    PROVE  proc = "running" /\ Removal
  BY DeletionShape DEF ReceiveAck, process_received, At

LEMMA GiveUpShape ==
    ASSUME NEW k, NEW i, GiveUp(k, i)
    PROVE  proc = "running" /\ Removal
  BY DeletionShape DEF GiveUp, Cursor, At

LEMMA NodeShape ==
    ASSUME Incoming, [NodeNext]_vars
    PROVE  [StorageStep]_storageVars
  <1>1. CASE UNCHANGED vars
    BY <1>1 DEF vars
  <1>2. CASE Idle
    BY <1>2 DEF Idle, StorageStep, Tick
  <1>3. CASE Poll \/ BeginPass \/ EndPass
    BY <1>3 DEF Poll, BeginPass, EndPass
  <1>4. ASSUME NEW k \in DOMAIN packet_list,
               \/ FirstAttempt(k)
               \/ \E i \in Slot : Retry(k, i) \/ GiveUp(k, i) \/ TooSoon(k, i)
               \/ ForwardEntry(k)
               \/ HangOnEntry(k)
        PROVE  [StorageStep]_storageVars
    <2>1. CASE FirstAttempt(k) \/ ForwardEntry(k)
      BY <2>1 DEF FirstAttempt, ForwardEntry, Proceed
    <2>2. CASE HangOnEntry(k)
      BY <2>2, HangShape DEF HangOnEntry, At
    <2>3. CASE \E i \in Slot : GiveUp(k, i)
      BY <2>3, GiveUpShape DEF StorageStep
    <2>4. CASE \E i \in Slot : Retry(k, i) \/ TooSoon(k, i)
      BY <2>4 DEF Retry, TooSoon, Proceed
    <2>5. QED
      BY <1>4, <2>1, <2>2, <2>3, <2>4
  <1>5. ASSUME NEW p \in todo, Receive(p)
        PROVE  [StorageStep]_storageVars
    BY <1>5, ReceiveShape DEF Incoming
  <1>6. ASSUME NEW p \in wire, ReceiveAck(p)
        PROVE  [StorageStep]_storageVars
    BY <1>6, AckShape DEF StorageStep
  <1>7. ASSUME NEW p \in wire, HangOnAck(p)
        PROVE  [StorageStep]_storageVars
    BY <1>7, HangShape DEF HangOnAck, At
  <1>8. CASE Ignore
    BY <1>8 DEF Ignore
  <1>9. CASE TimePasses
    BY <1>9 DEF TimePasses, StorageStep
  <1>10. CASE Die
    BY <1>10 DEF Die, StorageStep, Incoming, At
  <1>11. CASE Start
    BY <1>11 DEF Start, StorageStep
  <1>12. QED
    BY <1>1, <1>2, <1>3, <1>4, <1>5, <1>6, <1>7, <1>8, <1>9, <1>10, <1>11
       DEF NodeNext, RunNext, LoopStep, PassStep, Network
-----------------------------------------------------------------------------
\* The storage's invariants, in the node.
StorageInNode == Incoming /\ ListInv

LEMMA StorageInNodeInit == NodeInit => StorageInNode
  BY ListInvInit DEF NodeInit, StorageInNode, Incoming

LEMMA StorageInNodeStep == StorageInNode /\ [NodeNext]_vars => StorageInNode'
  BY IncomingStep, NodeShape, ListInvStep DEF StorageInNode

\* In the running node, whatever arrives, fails or is repeated, the counter
\* that is_full tests is the length of the list.
THEOREM NodeKeepsListConsistent == NodeSpec => [](StorageTypeOK /\ ListConsistent)
  <1>1. StorageInNode => StorageTypeOK /\ ListConsistent
    BY DEF StorageInNode, ListInv
  <1>2. QED
    BY <1>1, StorageInNodeInit, StorageInNodeStep, PTL DEF NodeSpec
-----------------------------------------------------------------------------
(***************************************************************************)
(* Custody.  A complete file is never overwritten, and a removal deletes   *)
(* the file of the entry it removes and no other.  So a packet of which    *)
(* the last copy leaves the disk has left the list, and is released.       *)
(***************************************************************************)
\* The custody option is the only hop-by-hop header of the packets: stripping
\* 24 bytes leaves the payload whole.
PayloadSurvivesStrip == \A p \in Arrivals : StripCustodian(p).pay = p.pay

CustodyInv == Incoming /\ DurableInv /\ CustodyKept

LEMMA KeptByFiles ==
    ASSUME CustodyKept, accepted' \subseteq accepted,
           \A n \in FileName : disk[n] \in Packet => disk'[n] = disk[n]
    PROVE  CustodyKept'
  BY DEF CustodyKept, Complete, FileName

\* The steps that add files or write them again.
LEMMA StoresKeepFiles ==
    ASSUME ~SameMsStores, StorageTypeOK, NEW p \in Arrivals,
           StoreSucceeds(p) \/ StoreFails(p) \/ CrashInStore(p)
    PROVE  \A n \in FileName : disk[n] \in Packet => disk'[n] = disk[n]
  BY DEF StoreSucceeds, StoreFails, CrashInStore, MayOpen, NewName, StorageTypeOK

LEMMA StoredIsOnDisk ==
    ASSUME StorageTypeOK, ~FlushMayFail, PayloadSurvivesStrip, NEW p \in Arrivals, StoreSucceeds(p)
    PROVE  \E n \in Complete' : disk'[n].pay = p.pay
  <1>1. PICK s \in StoredForms(p) : disk' = [disk EXCEPT ![<<p.dest, now>>] = s]
    BY DEF StoreSucceeds, Written
  <1>2. s \in Packet /\ s.pay = p.pay
    BY StoredFormsType DEF StoredForms, PayloadSurvivesStrip
  <1>3. <<p.dest, now>> \in FileName
    BY DEF FileName, StorageTypeOK
  <1>4. disk'[<<p.dest, now>>] = s
    BY <1>1, <1>3 DEF StorageTypeOK
  <1>5. QED
    BY <1>2, <1>3, <1>4 DEF Complete, FileName

LEMMA CustodyStore ==
    ASSUME CustodyInv, ~SameMsStores, ~FlushMayFail, PayloadSurvivesStrip,
           NEW p \in Arrivals, StoreIncoming(p)
    PROVE  CustodyKept'
  <1>1. StorageTypeOK
    BY DEF CustodyInv, DurableInv, ListInv
  <1>2. CASE StoreFails(p) /\ UNCHANGED accepted
    BY <1>1, <1>2, StoresKeepFiles, KeptByFiles DEF CustodyInv
  <1>3. CASE StoreSucceeds(p) /\ accepted' = accepted \cup {p.pay}
    <2>1. \A n \in Complete : n \in Complete' /\ disk'[n] = disk[n]
      BY <1>1, <1>3, StoresKeepFiles DEF Complete, FileName
    <2>2. \A x \in accepted : \E n \in Complete' : disk'[n].pay = x
      BY <2>1 DEF CustodyInv, CustodyKept
    <2>3. \E n \in Complete' : disk'[n].pay = p.pay
      BY <1>1, <1>3, StoredIsOnDisk
    <2>4. QED
      BY <1>3, <2>2, <2>3 DEF CustodyKept
  <1>4. QED
    BY <1>2, <1>3 DEF StoreIncoming

LEMMA StoredArePackets == ListInv => \A k \in DOMAIN packet_list : packet_list[k].p \in Packet
  BY ListFacts DEF ListInv, Entry

LEMMA CustodyRemoval ==
    ASSUME CustodyInv, proc = "running", Removal, ReleaseGone
    PROVE  CustodyKept'
  <1>1. accepted' \subseteq accepted
    BY DEF ReleaseGone
  <1>2. CASE UNCHANGED disk
    BY <1>1, <1>2, KeptByFiles DEF CustodyInv
  <1>3. ASSUME NEW i \in DOMAIN packet_list, RemoveEntry(i),
               disk' = [disk EXCEPT ![filename(packet_list[i])] = NoFile]
        PROVE  CustodyKept'
    <2> DEFINE f == filename(packet_list[i])
    <2>1. f \in FileName /\ disk[f] = packet_list[i].p
      BY DEF CustodyInv, DurableInv, ListInv, Named, MemoryOnDisk
    <2>2. \A n \in FileName : n # f => disk'[n] = disk[n]
      BY <1>3 DEF CustodyInv, DurableInv, ListInv, StorageTypeOK
    <2>3. ASSUME NEW x \in accepted'
          PROVE  \E n \in Complete' : disk'[n].pay = x
      <3>1. PICK n \in Complete : disk[n].pay = x
        BY <1>1 DEF CustodyInv, CustodyKept
      <3>2. CASE n # f
        BY <2>2, <3>1, <3>2 DEF Complete, FileName
      <3>3. CASE n = f
        <4>1. x \in PaysIn(packet_list)
          BY <2>1, <3>1, <3>3 DEF PaysIn
        <4>2. x \in PaysIn(packet_list')
          BY <4>1 DEF ReleaseGone
        <4>3. PICK j \in DOMAIN packet_list' : packet_list'[j].p.pay = x
          BY <4>2 DEF PaysIn
        <4>4. (MemoryOnDisk /\ ListInv)'
          BY <1>3, DurableRemove, ListInvRemove DEF CustodyInv, DurableInv
        <4>5. proc' = "running"
          BY <1>3 DEF RemoveEntry
        <4>6. /\ disk'[filename(packet_list'[j])] = packet_list'[j].p
              /\ filename(packet_list'[j]) \in FileName
              /\ packet_list'[j].p \in Packet
          <5>1. (ListInv => \A k \in DOMAIN packet_list : packet_list[k].p \in Packet)'
            BY StoredArePackets, PTL
          <5>2. QED
            BY <4>3, <4>4, <4>5, <5>1 DEF MemoryOnDisk, ListInv, Named, filename, FileName
        <4>7. QED
          BY <4>3, <4>6 DEF Complete, FileName
      <3>4. QED
        BY <3>2, <3>3
    <2>4. QED
      BY <2>3 DEF CustodyKept
  <1>4. QED
    BY <1>2, <1>3 DEF Removal, RemoveEntry, storageVars

LEMMA CustodyReceive ==
    ASSUME CustodyInv, ~SameMsStores, ~FlushMayFail, PayloadSurvivesStrip, NEW p \in Arrivals,
           Receive(p)
    PROVE  CustodyKept'
  <1>1. CASE UNCHANGED <<disk, accepted>>
    BY <1>1, KeptByFiles DEF CustodyInv
  <1>2. CASE StoreIncoming(p)
    BY <1>2, CustodyStore
  <1>3. QED
    BY <1>1, <1>2 DEF Receive, process_incoming, ForwardNow, Hang, storageVars

LEMMA CustodyStep ==
    ASSUME ~SameMsStores, ~FlushMayFail, PayloadSurvivesStrip, CustodyInv, [NodeNext]_vars
    PROVE  CustodyInv'
  <1> SUFFICES CustodyKept'
    BY IncomingStep, NodeShape, DurableStep DEF CustodyInv
  <1>1. CASE UNCHANGED <<disk, accepted>>
    BY <1>1, KeptByFiles DEF CustodyInv
  <1>2. ASSUME NEW k \in DOMAIN packet_list,
               \/ FirstAttempt(k)
               \/ \E i \in Slot : Retry(k, i) \/ GiveUp(k, i) \/ TooSoon(k, i)
               \/ ForwardEntry(k)
               \/ HangOnEntry(k)
        PROVE  CustodyKept'
    <2>1. CASE \E i \in Slot : GiveUp(k, i)
      BY <2>1, GiveUpShape, CustodyRemoval DEF GiveUp
    <2>2. CASE \E i \in Slot : Retry(k, i) \/ TooSoon(k, i)
      BY <1>1, <2>2 DEF Retry, TooSoon, Proceed, storageVars
    <2>3. CASE FirstAttempt(k) \/ ForwardEntry(k) \/ HangOnEntry(k)
      BY <1>1, <2>3 DEF FirstAttempt, ForwardEntry, HangOnEntry, Hang, Proceed, storageVars
    <2>4. QED
      BY <1>2, <2>1, <2>2, <2>3
  <1>3. ASSUME NEW p \in todo, Receive(p)
        PROVE  CustodyKept'
    BY <1>3, CustodyReceive DEF CustodyInv, Incoming
  <1>4. ASSUME NEW p \in wire, ReceiveAck(p)
        PROVE  CustodyKept'
    BY <1>4, AckShape, CustodyRemoval DEF ReceiveAck, process_received
  <1>5. CASE Die
    <2>1. UNCHANGED accepted
      BY <1>5 DEF Die
    <2>2. CASE Crash
      BY <1>1, <2>1, <2>2 DEF Crash
    <2>3. ASSUME NEW p \in todo, CrashInStore(p)
          PROVE  CustodyKept'
      <3>1. p \in Arrivals /\ StorageTypeOK
        BY DEF CustodyInv, Incoming, DurableInv, ListInv
      <3>2. QED
        BY <2>1, <2>3, <3>1, StoresKeepFiles, KeptByFiles DEF CustodyInv
    <2>4. QED
      BY <1>5, <2>2, <2>3 DEF Die
  <1>6. CASE UNCHANGED vars
    BY <1>1, <1>6 DEF vars, storageVars, nodeVars
  <1>7. CASE Idle \/ Poll \/ BeginPass \/ EndPass \/ Ignore \/ TimePasses \/ Start
    BY <1>1, <1>7 DEF Idle, Poll, BeginPass, EndPass, Ignore, TimePasses, Start, Tick, Restart,
                      storageVars, nodeVars
  <1>8. ASSUME NEW p \in wire, HangOnAck(p)
        PROVE  CustodyKept'
    BY <1>1, <1>8 DEF HangOnAck, Hang
  <1>9. QED
    BY <1>2, <1>3, <1>4, <1>5, <1>6, <1>7, <1>8
       DEF NodeNext, RunNext, LoopStep, PassStep, Network

\* A packet this node has acknowledged upstream stays on disk until the node
\* releases it, in every interleaving of arrivals, acknowledgements, passes,
\* failed allocations and calls of fopen, fwrite and remove, crashes and
\* restarts, provided the write that fclose makes does not fail (its result
\* is ignored), no two packets for one destination are stored in one
\* millisecond and the packets carry no hop-by-hop header that
\* strip_custodian_option would cut.
THEOREM CustodyIsKept ==
    ASSUME ~SameMsStores, ~FlushMayFail, PayloadSurvivesStrip
    PROVE  NodeSpec => []CustodyKept
  <1>1. NodeInit => CustodyInv
    BY DurableInit DEF NodeInit, CustodyInv, Incoming, CustodyKept
  <1>2. CustodyInv /\ [NodeNext]_vars => CustodyInv'
    BY CustodyStep
  <1>3. CustodyInv => CustodyKept
    BY DEF CustodyInv
  <1>4. QED
    BY <1>1, <1>2, <1>3, PTL DEF NodeSpec
-----------------------------------------------------------------------------
(***************************************************************************)
(* The cursor of attempt_forward_stored.  Giving up removes the first      *)
(* entry for the destination, which is the entry at hand or one before it, *)
(* so the entry that follows the one at hand survives.                     *)
(***************************************************************************)
CursorInv == StorageInNode /\ NoDanglingCursor /\ (proc = "down" => pc = "input")

LEMMA AfterIsThere ==
    ASSUME StorageTypeOK, NEW k \in DOMAIN packet_list
    PROVE  After(k) \in Ptrs \cup {NULL}
  <1>1. k \in Nat /\ Len(packet_list) \in Nat /\ DOMAIN packet_list = 1 .. Len(packet_list)
    BY ListFacts
  <1>2. CASE k < Len(packet_list)
    BY <1>1, <1>2 DEF After, Ptrs
  <1>3. CASE ~(k < Len(packet_list))
    BY <1>3 DEF After
  <1>4. QED
    BY <1>2, <1>3

LEMMA GiveUpKeepsNext ==
    ASSUME StorageTypeOK, NEW k \in DOMAIN packet_list, NEW i, GiveUp(k, i)
    PROVE  After(k) \in Ptrs' \cup {NULL}
  <1> DEFINE d == packet_list[k].p.dest
  <1>1. k \in Nat /\ Len(packet_list) \in Nat /\ DOMAIN packet_list = 1 .. Len(packet_list)
    BY ListFacts
  <1>2. PICK j \in DOMAIN packet_list :
            /\ \A m \in 1 .. j - 1 : packet_list[m].p.dest # d
            /\ RemoveEntry(j)
    BY DEF GiveUp, retrieve_packet_for_dest, IsFirst, NoneMatches
  <1>3. j \in Nat /\ j <= k
    BY <1>1, <1>2
  <1>4. CASE k < Len(packet_list)
    <2>1. packet_list' = RemoveAt(packet_list, j) /\ packet_list \in Seq(Entry)
      BY <1>2 DEF RemoveEntry, StorageTypeOK
    <2>2. k \in 1 .. Len(packet_list) - 1 /\ ~(k < j)
      BY <1>1, <1>3, <1>4
    <2>3. k \in DOMAIN packet_list' /\ packet_list'[k] = packet_list[k + 1]
      BY <1>1, <2>1, <2>2, RemoveAtFacts
    <2>4. QED
      BY <1>4, <2>3 DEF After, Ptrs
  <1>5. CASE ~(k < Len(packet_list))
    BY <1>5 DEF After
  <1>6. QED
    BY <1>4, <1>5

LEMMA CursorPass ==
    ASSUME CursorInv, NEW k \in DOMAIN packet_list,
           \/ FirstAttempt(k)
           \/ \E i \in Slot : Retry(k, i) \/ GiveUp(k, i) \/ TooSoon(k, i)
           \/ ForwardEntry(k)
           \/ HangOnEntry(k)
    PROVE  (NoDanglingCursor /\ (proc = "down" => pc = "input"))'
  <1>1. StorageTypeOK
    BY DEF CursorInv, StorageInNode, ListInv
  <1>2. ASSUME Cursor(k), Proceed(k)
        PROVE  (NoDanglingCursor /\ (proc = "down" => pc = "input"))'
    BY <1>2 DEF Cursor, Proceed, At, NoDanglingCursor, After, storageVars
  <1>3. CASE FirstAttempt(k)
    BY <1>2, <1>3 DEF FirstAttempt
  <1>4. ASSUME NEW i \in Slot, Retry(k, i)
        PROVE  (NoDanglingCursor /\ (proc = "down" => pc = "input"))'
    BY <1>2, <1>4 DEF Retry
  <1>5. ASSUME NEW i \in Slot, GiveUp(k, i)
        PROVE  (NoDanglingCursor /\ (proc = "down" => pc = "input"))'
    <2>1. entry' \in Ptrs' \cup {NULL} /\ pc' = "entry"
      BY <1>1, <1>5, GiveUpKeepsNext DEF GiveUp, Skip, Cursor, At
    <2>2. proc' # "down"
      BY <1>5 DEF GiveUp, Cursor, At, retrieve_packet_for_dest, RemoveEntry, storageVars
    <2>3. QED
      BY <2>1, <2>2 DEF NoDanglingCursor
  <1>6. ASSUME NEW i \in Slot, TooSoon(k, i)
        PROVE  (NoDanglingCursor /\ (proc = "down" => pc = "input"))'
    <2>1. entry' = After(k) /\ pc' = "entry" /\ proc' = "running" /\ Ptrs' = Ptrs
      BY <1>6 DEF TooSoon, Skip, Cursor, At, storageVars, Ptrs
    <2>2. QED
      BY <1>1, <2>1, AfterIsThere DEF NoDanglingCursor
  <1>7. CASE ForwardEntry(k)
    <2>1. entry' = next_entry /\ pc' = "entry" /\ proc' = "running" /\ Ptrs' = Ptrs
      BY <1>7 DEF ForwardEntry, At, storageVars, Ptrs
    <2>2. next_entry \in Ptrs \cup {NULL}
      BY <1>1, <1>7, AfterIsThere DEF ForwardEntry, At, CursorInv, NoDanglingCursor
    <2>3. QED
      BY <2>1, <2>2 DEF NoDanglingCursor
  <1>8. CASE HangOnEntry(k)
    BY <1>8 DEF HangOnEntry, Hang, NoDanglingCursor
  <1>9. QED
    BY <1>3, <1>4, <1>5, <1>6, <1>7, <1>8

LEMMA CursorStep ==
    ASSUME CursorInv, [NodeNext]_vars
    PROVE  CursorInv'
  <1> SUFFICES (NoDanglingCursor /\ (proc = "down" => pc = "input"))'
    BY StorageInNodeStep DEF CursorInv
  <1>1. ASSUME proc' \in {"running", "hung"}, pc' \notin {"entry", "send"}
        PROVE  (NoDanglingCursor /\ (proc = "down" => pc = "input"))'
    BY <1>1 DEF NoDanglingCursor
  <1>2. ASSUME UNCHANGED <<packet_list, proc, pc, entry, next_entry>>
        PROVE  (NoDanglingCursor /\ (proc = "down" => pc = "input"))'
    BY <1>2 DEF CursorInv, NoDanglingCursor, Ptrs, After
  <1>3. CASE UNCHANGED vars \/ TimePasses
    BY <1>2, <1>3 DEF vars, storageVars, nodeVars, controlVars, TimePasses, Tick
  <1>4. CASE Idle \/ Poll \/ EndPass \/ Ignore
    BY <1>1, <1>4 DEF Idle, Poll, EndPass, Ignore, At, Goto, storageVars
  <1>5. CASE BeginPass
    <2>1. packet_list \in Seq(Entry) /\ proc' = "running" /\ pc' = "entry" /\ Ptrs' = Ptrs
      BY <1>5 DEF CursorInv, StorageInNode, ListInv, StorageTypeOK, BeginPass, At, storageVars, Ptrs
    <2>2. packet_list # << >> => 1 \in DOMAIN packet_list
      BY <2>1, EmptySeq, LenProperties
    <2>3. entry' \in Ptrs \cup {NULL}
      BY <1>5, <2>2 DEF BeginPass, Ptrs
    <2>4. QED
      BY <2>1, <2>3 DEF NoDanglingCursor
  <1>6. ASSUME NEW p \in todo, Receive(p)
        PROVE  (NoDanglingCursor /\ (proc = "down" => pc = "input"))'
    <2>1. proc' \in {"running", "hung"}
      BY <1>6 DEF Receive, process_incoming, ForwardNow, StoreIncoming, StoreSucceeds, StoreFails,
                  Hang, At, storageVars
    <2>2. pc' \in {"input", "poll"}
      BY <1>6 DEF Receive, Goto, Hang, At, controlVars
    <2>3. QED
      BY <1>1, <2>1, <2>2
  <1>7. ASSUME NEW p \in wire, ReceiveAck(p) \/ HangOnAck(p)
        PROVE  (NoDanglingCursor /\ (proc = "down" => pc = "input"))'
    <2>1. proc' \in {"running", "hung"}
      BY <1>7, AckShape DEF Removal, RemoveEntry, HangOnAck, Hang, storageVars
    <2>2. pc' \in {"input", "poll"}
      BY <1>7 DEF ReceiveAck, Goto, HangOnAck, Hang, At, controlVars
    <2>3. QED
      BY <1>1, <2>1, <2>2
  <1>8. CASE Die
    BY <1>8 DEF Die, Crash, CrashInStore, LoseMemory, ResetNode, NoDanglingCursor
  <1>9. CASE Start
    BY <1>1, <1>9 DEF Start, Restart, CursorInv, controlVars
  <1>10. QED
    BY <1>3, <1>4, <1>5, <1>6, <1>7, <1>8, <1>9, CursorPass
       DEF NodeNext, RunNext, LoopStep, PassStep, Network

\* The forwarding pass never follows a pointer to an entry that was freed,
\* whatever is stored and wherever should_attempt_forward gives up.
THEOREM CursorNeverDangles == NodeSpec => []NoDanglingCursor
  <1>1. NodeInit => CursorInv
    BY StorageInNodeInit DEF NodeInit, CursorInv, NoDanglingCursor, StorageInit
  <1>2. CursorInv /\ [NodeNext]_vars => CursorInv'
    BY CursorStep
  <1>3. CursorInv => NoDanglingCursor
    BY DEF CursorInv
  <1>4. QED
    BY <1>1, <1>2, <1>3, PTL DEF NodeSpec
-----------------------------------------------------------------------------
(***************************************************************************)
(* The tracking table.  A new slot is taken only for a destination that    *)
(* has none, so the destinations stay distinct; a count is raised only     *)
(* below the limit.                                                        *)
(***************************************************************************)
TableType == forwarding_attempts \in [Slot -> Attempt \cup {Free}]
TableInv == StorageInNode /\ TableType /\ TrackingDistinct /\ RetryBound

\* A table whose slots are old ones or free.
LEMMA TableShrinks ==
    ASSUME TableInv, DOMAIN forwarding_attempts' = Slot,
           forwarding_attempts' = [i \in Slot |-> forwarding_attempts'[i]],
           \A i \in Slot : forwarding_attempts'[i] \in {forwarding_attempts[i], Free}
    PROVE  (TableType /\ TrackingDistinct /\ RetryBound)'
  <1>1. TableType'
    BY DEF TableInv, TableType, Slot
  <1>2. TrackingDistinct'
    BY DEF TableInv, TrackingDistinct, Slot
  <1>3. RetryBound'
    BY DEF TableInv, RetryBound, Slot
  <1>4. QED
    BY <1>1, <1>2, <1>3

LEMMA TableUnchanged ==
    ASSUME TableInv, UNCHANGED forwarding_attempts
    PROVE  (TableType /\ TrackingDistinct /\ RetryBound)'
  BY DEF TableInv, TableType, TrackingDistinct, RetryBound, Slot, Attempt, Time

LEMMA TableRemove ==
    ASSUME TableInv, NEW d, remove_tracking(d)
    PROVE  (TableType /\ TrackingDistinct /\ RetryBound)'
  BY TableShrinks DEF remove_tracking

LEMMA TableFirst ==
    ASSUME TableInv, NEW k \in DOMAIN packet_list, FirstAttempt(k)
    PROVE  (TableType /\ TrackingDistinct /\ RetryBound)'
  <1> DEFINE d == packet_list[k].p.dest
             unused == {i \in Slot : forwarding_attempts[i] = Free}
             new == [destination |-> d, last_attempt_time |-> now, retry_count |-> 1]
  <1>1. /\ SlotsOf(d) = {}
        /\ forwarding_attempts' =
              [i \in Slot |-> IF FirstSlot(i, unused) THEN new ELSE forwarding_attempts[i]]
    BY DEF FirstAttempt
  <1>2. new \in Attempt
    BY ListFacts DEF TableInv, StorageInNode, ListInv, StorageTypeOK, Attempt, Entry, Packet
  <1>3. new.destination = d /\ new.retry_count = 1
    OBVIOUS
  <1>4. \A i, j \in Slot : FirstSlot(i, unused) /\ FirstSlot(j, unused) => i = j
    BY NodeAssumption DEF FirstSlot, Slot
  <1>5. \A i \in Slot : forwarding_attempts[i] # Free => forwarding_attempts[i].destination # d
    BY <1>1 DEF SlotsOf
  <1> HIDE DEF new, unused, d
  <1>6. TableType'
    BY <1>1, <1>2 DEF TableInv, TableType, Slot, Attempt, Time
  <1>7. TrackingDistinct'
    BY <1>1, <1>3, <1>4, <1>5 DEF TableInv, TrackingDistinct, Slot
  <1>8. RetryBound'
    BY <1>1, <1>3, NodeAssumption DEF TableInv, RetryBound, Slot
  <1>9. QED
    BY <1>6, <1>7, <1>8

LEMMA RaisedAttempt ==
    ASSUME NEW a \in Attempt, NEW t \in Time
    PROVE  LET new == [a EXCEPT !.last_attempt_time = t, !.retry_count = @ + 1]
           IN  /\ new \in Attempt
               /\ new.destination = a.destination
               /\ new.retry_count = a.retry_count + 1
               /\ new.last_attempt_time = t
  <1> DEFINE b == [a EXCEPT !.last_attempt_time = t]
  <1>1. /\ b \in Attempt /\ b.destination = a.destination /\ b.retry_count = a.retry_count
        /\ b.last_attempt_time = t
    BY DEF Attempt
  <1> HIDE DEF b
  <1>2. b.retry_count + 1 \in Nat
    BY <1>1 DEF Attempt
  <1>3. LET new == [b EXCEPT !.retry_count = @ + 1]
        IN  /\ new \in Attempt
            /\ new.destination = b.destination
            /\ new.retry_count = b.retry_count + 1
            /\ new.last_attempt_time = b.last_attempt_time
    BY <1>1, <1>2 DEF Attempt
  <1>4. QED
    BY <1>1, <1>3 DEF b

LEMMA TableRetry ==
    ASSUME TableInv, NEW k \in DOMAIN packet_list, NEW i \in Slot, Retry(k, i)
    PROVE  (TableType /\ TrackingDistinct /\ RetryBound)'
  <1> DEFINE old == forwarding_attempts[i]
             new == [old EXCEPT !.last_attempt_time = now, !.retry_count = @ + 1]
  <1>1. forwarding_attempts' = [forwarding_attempts EXCEPT ![i] = new]
    BY DEF Retry
  <1>2. old # Free /\ old \in Attempt /\ ~Exhausted(i)
    BY DEF Retry, FirstSlot, SlotsOf, TableInv, TableType
  <1>3. now \in Time
    BY DEF TableInv, StorageInNode, ListInv, StorageTypeOK
  <1>4. /\ new \in Attempt
        /\ new.destination = old.destination
        /\ new.retry_count = old.retry_count + 1
    BY <1>2, <1>3, RaisedAttempt
  <1>5. new.retry_count \in 1 .. MaxRetries
    BY <1>2, <1>4, NodeAssumption DEF Exhausted, TableInv, RetryBound
  <1> HIDE DEF new
  <1>6. \A j \in Slot : forwarding_attempts'[j] = IF j = i THEN new ELSE forwarding_attempts[j]
    BY <1>1 DEF TableInv, TableType
  <1>7. TableType'
    BY <1>1, <1>4 DEF TableInv, TableType, Slot, Attempt, Time
  <1>8. TrackingDistinct'
    BY <1>2, <1>4, <1>6 DEF TableInv, TrackingDistinct, Slot
  <1>9. RetryBound'
    BY <1>5, <1>6 DEF TableInv, RetryBound, Slot
  <1>10. QED
    BY <1>7, <1>8, <1>9

LEMMA TableStep ==
    ASSUME TableInv, [NodeNext]_vars
    PROVE  TableInv'
  <1> DEFINE Goal == (TableType /\ TrackingDistinct /\ RetryBound)'
  <1> SUFFICES Goal
    BY StorageInNodeStep DEF TableInv
  <1>1. ASSUME NEW k \in DOMAIN packet_list,
               \/ FirstAttempt(k)
               \/ \E i \in Slot : Retry(k, i) \/ GiveUp(k, i) \/ TooSoon(k, i)
               \/ ForwardEntry(k)
               \/ HangOnEntry(k)
        PROVE  Goal
    <2>1. ASSUME NEW i \in Slot, GiveUp(k, i)
          PROVE  Goal
      BY <2>1, TableShrinks DEF GiveUp, TableInv, TableType
    <2>2. ASSUME NEW i \in Slot, TooSoon(k, i)
          PROVE  Goal
      BY <2>2, TableUnchanged DEF TooSoon
    <2>3. CASE ForwardEntry(k) \/ HangOnEntry(k)
      BY <2>3, TableUnchanged DEF ForwardEntry, HangOnEntry, Hang
    <2>4. QED
      BY <1>1, <2>1, <2>2, <2>3, TableFirst, TableRetry
  <1>2. ASSUME NEW p \in todo, Receive(p)
        PROVE  Goal
    BY <1>2, TableUnchanged DEF Receive, Hang
  <1>3. ASSUME NEW p \in wire, ReceiveAck(p)
        PROVE  Goal
    BY <1>3, TableUnchanged, TableRemove DEF ReceiveAck, process_received
  <1>4. ASSUME NEW p \in wire, HangOnAck(p)
        PROVE  Goal
    BY <1>4, TableUnchanged DEF HangOnAck, Hang
  <1>5. CASE Die
    BY <1>5, TableShrinks DEF Die, ResetNode
  <1>6. CASE UNCHANGED vars \/ Idle \/ Poll \/ BeginPass \/ EndPass \/ Ignore \/ TimePasses \/ Start
    BY <1>6, TableUnchanged DEF vars, nodeVars, Idle, Poll, BeginPass, EndPass, Ignore,
                                TimePasses, Start
  <1>7. QED
    BY <1>1, <1>2, <1>3, <1>4, <1>5, <1>6
       DEF NodeNext, RunNext, LoopStep, PassStep, Network

\* A destination occupies at most one slot of the tracking table, and none
\* is tried more than MAX_FORWARDING_RETRIES times before it is given up,
\* for every size of the table and every limit.
THEOREM TrackingIsSound == NodeSpec => [](TrackingDistinct /\ RetryBound)
  <1>1. NodeInit => TableInv
    BY StorageInNodeInit DEF NodeInit, TableInv, TableType, TrackingDistinct, RetryBound
  <1>2. TableInv /\ [NodeNext]_vars => TableInv'
    BY TableStep
  <1>3. TableInv => TrackingDistinct /\ RetryBound
    BY DEF TableInv
  <1>4. QED
    BY <1>1, <1>2, <1>3, PTL DEF NodeSpec
-----------------------------------------------------------------------------
(***************************************************************************)
(* What leaves the node.  A stored packet was stripped before it was       *)
(* saved, and a restart reads it back stripped; so the one option added    *)
(* when it is sent is the only one.                                        *)
(***************************************************************************)
\* The custody option is the only hop-by-hop header that packets carry.
PlainArrivals ==
    \A p \in Arrivals :
        /\ p.pay # Mangled
        /\ p.hbh = << >> \/ \E a \in Addr : p.hbh = <<CustodyHeader(a)>>

Clean(p) == p.hbh = << >> /\ p.pay # Mangled
Labelled(p) == p.hbh = <<CustodyHeader(Me)>> /\ p.pay # Mangled

StoreClean ==
    /\ \A i \in DOMAIN packet_list : Clean(packet_list[i].p)
    /\ \A n \in FileName : disk[n] \in Packet => Clean(disk[n])

WireInv == StorageInNode /\ StoreClean /\ WireWellFormed

LEMMA StripCleans ==
    ASSUME PlainArrivals, NEW p \in Arrivals
    PROVE  Clean(StripCustodian(p))
  <1>1. p \in Packet
    BY StorageAssumption
  <1>2. CASE p.hbh = << >>
    BY <1>2 DEF PlainArrivals, StripCustodian, Clean
  <1>3. ASSUME NEW a \in Addr, p.hbh = <<CustodyHeader(a)>>
        PROVE  Clean(StripCustodian(p))
    <2>1. p.hbh # << >> /\ Tail(p.hbh) = << >> /\ p.hbh[1].bytes = HBH_OPT_HDR_LEN
      BY <1>3 DEF CustodyHeader
    <2> DEFINE l == p.len + p.hbh[1].bytes - HBH_OPT_HDR_LEN
    <2>2. StripCustodian(p) = [p EXCEPT !.hbh = << >>, !.len = l, !.pay = p.pay]
      BY <2>1 DEF StripCustodian
    <2> HIDE DEF l
    <2>3. QED
      BY <1>1, <2>2 DEF PlainArrivals, Clean, Packet
  <1>4. QED
    BY <1>2, <1>3 DEF PlainArrivals

\* add_custodian_option on a packet without headers.
LEMMA AddLabels ==
    ASSUME NEW p \in Packet, Clean(p)
    PROVE  Labelled(AddCustodian(p, Me))
  <1> DEFINE h == CustodyHeader(Me)
  <1>1. h \in HbhHeader
    BY StorageAssumption DEF CustodyHeader, HbhHeader, HBH_OPT_HDR_LEN
  <1> HIDE DEF h
  <1>2. <<h>> \o p.hbh = <<h>>
    BY <1>1 DEF Clean
  <1>3. AddCustodian(p, Me) = [p EXCEPT !.hbh = <<h>>]
    BY <1>2 DEF AddCustodian, h
  <1>4. QED
    BY <1>3 DEF Labelled, Clean, Packet, h

\* update_or_add_custodian_option on a packet of the network.
LEMMA UpdateLabels ==
    ASSUME PlainArrivals, NEW p \in Arrivals
    PROVE  Labelled(UpdateOrAddCustodian(p, Me))
  <1>1. p \in Packet /\ WellSized(p)
    BY StorageAssumption
  <1>2. CASE ~HasCustody(p)
    <2>1. UpdateOrAddCustodian(p, Me) = AddCustodian(StripCustodian(p), Me)
      BY <1>2 DEF UpdateOrAddCustodian
    <2>2. QED
      BY <1>1, <2>1, StripCleans, StripType, AddLabels
  <1>3. CASE HasCustody(p)
    <2>1. PICK a \in Addr : p.hbh = <<CustodyHeader(a)>>
      BY <1>3 DEF PlainArrivals, HasCustody
    <2>2. UpdateOrAddCustodian(p, Me) = [p EXCEPT !.hbh[1].addr = Me]
      BY <1>3 DEF UpdateOrAddCustodian
    <2> DEFINE h == CustodyHeader(a)
               g == [h EXCEPT !.addr = Me]
    <2>3. g = CustodyHeader(Me)
      BY DEF CustodyHeader
    <2>4. [p.hbh EXCEPT ![1] = g] = <<g>>
      BY <2>1
    <2>5. [p EXCEPT !.hbh[1].addr = Me] = [p EXCEPT !.hbh = [p.hbh EXCEPT ![1] = g]]
      BY <2>1
    <2> HIDE DEF g
    <2>6. [p EXCEPT !.hbh[1].addr = Me] = [p EXCEPT !.hbh = <<g>>]
      BY <2>4, <2>5
    <2>7. QED
      BY <1>1, <2>2, <2>3, <2>6 DEF Labelled, PlainArrivals, Packet
  <1>4. QED
    BY <1>2, <1>3

LEMMA CleanStep ==
    ASSUME PlainArrivals, ~AllocMayFail, ListInv, StoreClean, [StorageStep]_storageVars
    PROVE  StoreClean'
  <1>1. ASSUME NEW p \in Arrivals, NEW c \in StoredForms(p) \cup {Partial},
               disk' = [disk EXCEPT ![<<p.dest, now>>] = c]
        PROVE  \A n \in FileName : disk'[n] \in Packet => Clean(disk'[n])
    BY <1>1, StripCleans, StorageAssumption
       DEF StoredForms, StoreClean, ListInv, StorageTypeOK
  <1>2. CASE UNCHANGED <<packet_list, disk>>
    BY <1>2 DEF StoreClean, FileName, Clean
  <1>3. ASSUME NEW p \in Arrivals, StoreSucceeds(p)
        PROVE  StoreClean'
    <2>1. PICK s \in StoredForms(p), a \in Ptr \ Ptrs :
             /\ packet_list' = Append(packet_list, [ptr |-> a, p |-> s, time |-> now])
             /\ \E c \in Written(s) : disk' = [disk EXCEPT ![<<p.dest, now>>] = c]
      BY <1>3 DEF StoreSucceeds
    <2> DEFINE e == [ptr |-> a, p |-> s, time |-> now]
    <2>2. e \in Entry /\ Clean(e.p)
      BY StoredFormsType, StripCleans DEF Entry, ListInv, StorageTypeOK, StoredForms
    <2>3. /\ DOMAIN packet_list' = 1 .. Len(packet_list) + 1
          /\ \A i \in 1 .. Len(packet_list) : packet_list'[i] = packet_list[i]
          /\ packet_list'[Len(packet_list) + 1] = e
      BY <2>1, <2>2, AppendFacts DEF ListInv, StorageTypeOK
    <2>4. Len(packet_list) \in Nat /\ DOMAIN packet_list = 1 .. Len(packet_list)
      BY ListFacts DEF ListInv
    <2> HIDE DEF e
    <2>5. \A i \in DOMAIN packet_list' : Clean(packet_list'[i].p)
      BY <2>2, <2>3, <2>4 DEF StoreClean
    <2>6. QED
      BY <1>1, <2>1, <2>5 DEF Written, StoreClean, FileName, Clean
  <1>4. ASSUME NEW p \in Arrivals, StoreFails(p)
        PROVE  StoreClean'
    BY <1>1, <1>2, <1>4 DEF StoreFails, StoreClean, FileName, Clean
  <1>5. CASE LoseMemory /\ UNCHANGED disk
    BY <1>5 DEF LoseMemory, StoreClean, FileName, Clean
  <1>6. ASSUME NEW p \in Arrivals, CrashInStore(p)
        PROVE  StoreClean'
    <2>1. PICK c \in StoredForms(p) \cup {Partial} : disk' = [disk EXCEPT ![<<p.dest, now>>] = c]
      BY <1>6 DEF CrashInStore
    <2>2. \A n \in FileName : disk'[n] \in Packet => Clean(disk'[n])
      BY <1>1, <2>1
    <2>3. DOMAIN packet_list' = {}
      BY <1>6 DEF CrashInStore, LoseMemory
    <2>4. QED
      BY <2>2, <2>3 DEF StoreClean, FileName, Clean
  <1>7. ASSUME NEW i \in DOMAIN packet_list, RemoveEntry(i)
        PROVE  StoreClean'
    <2>1. \A n \in FileName : disk'[n] \in {disk[n], NoFile}
      BY <1>7 DEF RemoveEntry, ListInv, StorageTypeOK
    <2>2. \A j \in DOMAIN packet_list' : \E k \in DOMAIN packet_list : packet_list'[j] = packet_list[k]
      BY <1>7, RemovedList DEF ListInv
    <2>3. QED
      BY <2>1, <2>2, StorageAssumption DEF StoreClean, FileName, Clean
  <1>8. CASE Restart
    <2>1. PICK s \in LoadOrders :
              /\ DOMAIN packet_list' = 1 .. Len(s)
              /\ \A i \in 1 .. Len(s) : packet_list'[i].p = disk[s[i]]
      BY <1>8, LoadedList
    <2>2. PICK n \in 0 .. MaxStored : s \in [1 .. n -> Complete] /\ Len(s) = n
      BY LoadOrderFacts
    <2>3. \A i \in DOMAIN packet_list' : Clean(packet_list'[i].p)
      BY <2>1, <2>2 DEF StoreClean, Complete
    <2>4. UNCHANGED disk
      BY <1>8 DEF Restart
    <2>5. QED
      BY <2>3, <2>4 DEF StoreClean, FileName, Clean
  <1>9. QED
    BY <1>2, <1>3, <1>4, <1>5, <1>6, <1>7, <1>8
       DEF StorageStep, Removal, Crash, Tick, storageVars

LEMMA SendKeeps ==
    ASSUME WireWellFormed, NEW p, Send(p), is_dtn_destination(p.dest) => Labelled(p)
    PROVE  WireWellFormed'
  BY DEF Send, WireWellFormed, Labelled, is_dtn_destination

LEMMA WireStep ==
    ASSUME PlainArrivals, ~AllocMayFail, WireInv, [NodeNext]_vars
    PROVE  WireInv'
  <1> SUFFICES WireWellFormed'
    BY StorageInNodeStep, NodeShape, CleanStep DEF WireInv, StorageInNode
  <1>1. CASE wire' \subseteq wire
    BY <1>1 DEF WireInv, WireWellFormed, is_dtn_destination
  <1>2. ASSUME NEW p \in todo, Receive(p)
        PROVE  WireWellFormed'
    <2>1. p \in Arrivals
      BY DEF WireInv, StorageInNode, Incoming
    <2>2. CASE ForwardNow(p)
      <3>1. Send(UpdateOrAddCustodian(p, Me))
        BY <2>2, <2>1, StorageAssumption DEF ForwardNow, UpdatedForms
      <3>2. QED
        BY <2>1, <3>1, SendKeeps, UpdateLabels DEF WireInv
    <2>3. CASE Send(p) /\ ~is_dtn_destination(p.dest)
      BY <2>3, SendKeeps DEF WireInv
    <2>4. QED
      BY <1>1, <1>2, <2>2, <2>3 DEF Receive, process_incoming, StoreIncoming, Hang
  <1>3. ASSUME NEW k \in DOMAIN packet_list, ForwardEntry(k)
        PROVE  WireWellFormed'
    <2>1. packet_list[k].p \in Packet /\ Clean(packet_list[k].p)
      BY StoredArePackets DEF WireInv, StorageInNode, StoreClean
    <2>2. CASE Send(AddCustodian(packet_list[k].p, Me))
      BY <2>1, <2>2, AddLabels, SendKeeps DEF WireInv
    <2>3. QED
      BY <1>1, <1>3, <2>2 DEF ForwardEntry, AddedForms
  <1>4. CASE Idle \/ Poll \/ BeginPass \/ EndPass \/ Ignore \/ TimePasses \/ Start \/ Die \/ UNCHANGED vars
    BY <1>1, <1>4 DEF Idle, Poll, BeginPass, EndPass, Ignore, TimePasses, Start, Die, vars, nodeVars,
                      netVars
  <1>5. ASSUME NEW p \in wire, ReceiveAck(p) \/ HangOnAck(p)
        PROVE  WireWellFormed'
    BY <1>1, <1>5 DEF ReceiveAck, HangOnAck, Hang
  <1>6. ASSUME NEW k \in DOMAIN packet_list,
               \/ FirstAttempt(k)
               \/ \E i \in Slot : Retry(k, i) \/ GiveUp(k, i) \/ TooSoon(k, i)
               \/ HangOnEntry(k)
        PROVE  WireWellFormed'
    BY <1>1, <1>6 DEF FirstAttempt, Retry, GiveUp, TooSoon, HangOnEntry, Hang, Proceed, Skip, netVars
  <1>7. QED
    BY <1>2, <1>3, <1>4, <1>5, <1>6 DEF NodeNext, RunNext, LoopStep, PassStep, Network

\* Every packet for a DTN destination that leaves the node carries exactly
\* one custody option, naming this node, and an undamaged payload, sent at
\* once or from storage, before or after a restart, as long as allocations
\* succeed and the packets of the network have no other hop-by-hop header.
THEOREM PacketsLeaveLabelled ==
    ASSUME PlainArrivals, ~AllocMayFail
    PROVE  NodeSpec => []WireWellFormed
  <1>1. NodeInit => WireInv
    <2>1. NodeInit => WireWellFormed
      BY DEF NodeInit, WireWellFormed
    <2>2. NodeInit => packet_list = << >> /\ disk = [n \in FileName |-> NoFile]
      BY DEF NodeInit, StorageInit
    <2>3. NodeInit => StoreClean
      BY <2>2, StorageAssumption DEF StoreClean
    <2>4. QED
      BY <2>1, <2>3, StorageInNodeInit DEF WireInv
  <1>2. WireInv /\ [NodeNext]_vars => WireInv'
    BY WireStep
  <1>3. WireInv => WireWellFormed
    BY DEF WireInv
  <1>4. QED
    BY <1>1, <1>2, <1>3, PTL DEF NodeSpec
=============================================================================
