------------------------ MODULE DtnStorageRefinement ------------------------
(***************************************************************************)
(* dtn_storage.c implements PersistentStore.  While ExactInv holds, what   *)
(* the store holds can be read off the disk alone, whether the process     *)
(* lives or not; so crash and restart are stuttering steps, and the others *)
(* are judged by what they do to one file.                                 *)
(***************************************************************************)
EXTENDS DtnStorageProofs

OnDisk == {<<n, disk[n]>> : n \in Complete}

LEMMA HeldIsOnDisk == ExactInv => Held = OnDisk
  <1> SUFFICES ASSUME ExactInv PROVE Held = OnDisk
    OBVIOUS
  <1>1. CASE proc = "down"
    BY <1>1 DEF Held, OnDisk
  <1>2. CASE proc # "down"
    <2>1. Complete = {filename(packet_list[i]) : i \in DOMAIN packet_list}
      BY <1>2 DEF ExactInv, NoOrphanFile
    <2>2. \A i \in DOMAIN packet_list : disk[filename(packet_list[i])] = packet_list[i].p
      BY <1>2 DEF ExactInv, DurableInv, MemoryOnDisk
    <2>3. Held = {<<filename(packet_list[i]), packet_list[i].p>> : i \in DOMAIN packet_list}
      BY <1>2 DEF Held
    <2>4. QED
      BY <2>1, <2>2, <2>3 DEF OnDisk
  <1>3. QED
    BY <1>1, <1>2

LEMMA HeldIsOnDiskNext == (ExactInv => Held = OnDisk)'
  BY HeldIsOnDisk, PTL

\* is_full leaves room for one more when it says so.
LEMMA RoomForOne ==
    ASSUME ExactInv, proc = "running", ~is_full
    PROVE  Cardinality(OnDisk) < MaxStored
  <1> DEFINE f == [n \in Complete |-> <<n, disk[n]>>]
  <1>1. IsFiniteSet(Complete) /\ Cardinality(Complete) <= Len(packet_list)
    BY FilesBound DEF ExactInv, DurableInv
  <1>2. Len(packet_list) \in Nat /\ Len(packet_list) < MaxStored
    <2>1. Len(packet_list) \in Nat
      BY ListFacts DEF ExactInv, DurableInv, ListInv
    <2>2. QED
      BY <2>1, StorageAssumption DEF is_full, ExactInv, DurableInv, ListInv, ListConsistent
  <1>3. f \in Surjection(Complete, OnDisk)
    BY DEF Surjection, OnDisk
  <1>4. IsFiniteSet(OnDisk) /\ Cardinality(OnDisk) <= Cardinality(Complete)
    BY <1>1, <1>3, FS_Surjection
  <1>5. Cardinality(OnDisk) \in Nat /\ Cardinality(Complete) \in Nat
    BY <1>1, <1>4, FS_CardinalityType
  <1>6. QED
    BY <1>1, <1>2, <1>4, <1>5, StorageAssumption

\* A new complete file under a name that had none is an Add.
LEMMA NewFileAdds ==
    ASSUME ExactInv, ExactInv', proc = "running", ~is_full,
           NEW nm \in FileName, NEW s \in Packet, disk[nm] \notin Packet,
           disk' = [disk EXCEPT ![nm] = s]
    PROVE  Promise!Add
  <1>1. Held = OnDisk /\ Held' = OnDisk'
    BY HeldIsOnDisk, HeldIsOnDiskNext
  <1>2. OnDisk' = OnDisk \cup {<<nm, s>>}
    BY DEF OnDisk, Complete, FileName, ExactInv, DurableInv, ListInv, StorageTypeOK
  <1>3. \A g \in OnDisk : g[1] # nm
    BY DEF OnDisk, Complete
  <1>4. <<nm, s>> \in OnDisk' \ OnDisk /\ <<nm, s>> \in FileName \X Packet
    BY <1>2, <1>3
  <1>5. Cardinality(OnDisk) < MaxStored
    BY RoomForOne
  <1>6. \A g \in OnDisk : g[1] # <<nm, s>>[1]
    BY <1>3
  <1>7. QED
    <2>1. /\ <<nm, s>> \in Held' \ Held /\ <<nm, s>> \in FileName \X Packet
          /\ \A g \in Held : g[1] # <<nm, s>>[1]
          /\ Cardinality(Held) < MaxStored
          /\ Held' = Held \cup {<<nm, s>>}
      BY <1>1, <1>2, <1>4, <1>5, <1>6
    <2>2. Promise!Cardinality(Held) = Cardinality(Held)
      BY Zenon DEF Promise!Cardinality, Cardinality
    <2>3. QED
      BY <2>1, <2>2, Zenon DEF Promise!Add

\* A file that ceases to exist is a Take.
LEMMA FileGoneTakes ==
    ASSUME ExactInv, ExactInv', NEW nm \in Complete, disk' = [disk EXCEPT ![nm] = NoFile]
    PROVE  Promise!Take
  <1>1. Held = OnDisk /\ Held' = OnDisk'
    BY HeldIsOnDisk, HeldIsOnDiskNext
  <1>2. <<nm, disk[nm]>> \in OnDisk
    BY DEF OnDisk
  <1>3. OnDisk' = OnDisk \ {<<nm, disk[nm]>>}
    BY StorageAssumption
    DEF OnDisk, Complete, FileName, ExactInv, DurableInv, ListInv, StorageTypeOK
  <1>4. QED
    BY <1>1, <1>2, <1>3 DEF Promise!Take

\* A step that keeps every complete file and makes no new one stutters.
LEMMA SameFilesStutter ==
    ASSUME ExactInv, ExactInv',
           \A n \in FileName : disk'[n] = disk[n] \/ (disk[n] \notin Packet /\ disk'[n] \notin Packet)
    PROVE  Held' = Held
  <1>1. Held = OnDisk /\ Held' = OnDisk'
    BY HeldIsOnDisk, HeldIsOnDiskNext
  <1>2. OnDisk' = OnDisk
    BY DEF OnDisk, Complete, FileName
  <1>3. QED
    BY <1>1, <1>2

LEMMA RefinementStep ==
    ASSUME ExactInv, ExactInv', Reliable, [StorageStep]_storageVars
    PROVE  [Promise!Add \/ Promise!Take]_Held
  <1>1. ASSUME NEW p \in Arrivals, MayOpen(p)
        PROVE  /\ <<p.dest, now>> \in FileName /\ disk[<<p.dest, now>>] \notin Packet /\ ~is_full
               /\ \A s \in StoredForms(p) : s \in Packet
    BY <1>1, StoredFormsType DEF MayOpen, NewName, Reliable, FileName, ExactInv, DurableInv, ListInv, StorageTypeOK
  <1>2. ASSUME proc = "running", NEW p \in Arrivals, StoreSucceeds(p)
        PROVE  Promise!Add
    <2>1. PICK s \in StoredForms(p) : disk' = [disk EXCEPT ![<<p.dest, now>>] = s]
      BY <1>2 DEF StoreSucceeds, Written, Reliable
    <2>2. MayOpen(p)
      BY <1>2 DEF StoreSucceeds
    <2>3. QED
      BY <1>1, <1>2, <2>1, <2>2, NewFileAdds
  <1>3. ASSUME NEW p \in Arrivals, MayOpen(p), disk' = [disk EXCEPT ![<<p.dest, now>>] = Partial]
        PROVE  Held' = Held
    <2>1. \A n \in FileName : disk'[n] = disk[n] \/ (disk[n] \notin Packet /\ disk'[n] \notin Packet)
      <3>1. <<p.dest, now>> \in FileName /\ disk[<<p.dest, now>>] \notin Packet
        BY <1>1, <1>3
      <3>2. DOMAIN disk = FileName
        BY DEF ExactInv, DurableInv, ListInv, StorageTypeOK
      <3>3. QED
        BY <1>3, <3>1, <3>2, StorageAssumption
    <2>2. QED
      BY <2>1, SameFilesStutter
  <1>4. ASSUME UNCHANGED disk
        PROVE  Held' = Held
    <2>1. \A n \in FileName : disk'[n] = disk[n]
      BY <1>4
    <2>2. QED
      BY <2>1, SameFilesStutter
  <1>5. ASSUME NEW p \in Arrivals, StoreFails(p)
        PROVE  Held' = Held
    BY <1>3, <1>4, <1>5 DEF StoreFails
  <1>6. ASSUME proc = "running", NEW p \in Arrivals, CrashInStore(p)
        PROVE  Promise!Add \/ Held' = Held
    <2>1. PICK c \in StoredForms(p) \cup {Partial} : disk' = [disk EXCEPT ![<<p.dest, now>>] = c]
      BY <1>6 DEF CrashInStore
    <2>2. MayOpen(p)
      BY <1>6 DEF CrashInStore
    <2>3. CASE c = Partial
      BY <1>3, <2>1, <2>2, <2>3
    <2>4. CASE c \in StoredForms(p)
      BY <1>1, <1>6, <2>1, <2>2, <2>4, NewFileAdds
    <2>5. QED
      BY <2>1, <2>3, <2>4
  <1>7. ASSUME proc = "running", NEW i \in DOMAIN packet_list, RemoveEntry(i)
        PROVE  Promise!Take
    <2>1. filename(packet_list[i]) \in Complete
      BY <1>7 DEF ExactInv, NoOrphanFile
    <2>2. disk' = [disk EXCEPT ![filename(packet_list[i])] = NoFile]
      BY <1>7 DEF RemoveEntry, Reliable
    <2>3. QED
      BY <2>1, <2>2, FileGoneTakes
  <1>8. CASE UNCHANGED storageVars
    BY <1>4, <1>8 DEF storageVars
  <1>9. CASE StorageStep
    <2>1. ASSUME proc = "running", Removal
          PROVE  Promise!Take \/ Held' = Held
      BY <1>4, <1>7, <2>1 DEF Removal, storageVars
    <2>2. ASSUME Crash \/ Restart \/ Tick
          PROVE  Held' = Held
      BY <1>4, <2>2 DEF Crash, Restart, Tick
    <2>3. QED
      BY <1>2, <1>5, <1>6, <1>9, <2>1, <2>2 DEF StorageStep
  <1>10. QED
    BY <1>8, <1>9

\* dtn_storage.c implements the bounded store of PersistentStore, for every
\* set of packets, capacity and clock width, across crashes, restarts and
\* calls of fopen and fwrite that fail: as long as remove and the write that
\* fclose makes succeed, memory does not run out and no two packets for one
\* destination are stored in one millisecond.
THEOREM StorageImplementsPersistentStore ==
    ASSUME Reliable
    PROVE  StorageSpec => ImplementsPersistentStore
  <1>1. StorageInit => ExactInv
    BY ExactInit
  <1>2. ExactInv /\ [StorageNext]_storageVars => ExactInv'
    BY ExactStep, NextShape
  <1>3. StorageInit => Promise!Init
    <2>1. ASSUME StorageInit PROVE Held = {}
      <3>1. DOMAIN packet_list = {} /\ proc # "down"
        BY <2>1 DEF StorageInit
      <3>2. QED
        BY <3>1 DEF Held
    <2>2. QED
      BY <2>1 DEF Promise!Init
  <1>4. ExactInv /\ ExactInv' /\ [StorageNext]_storageVars => [Promise!Add \/ Promise!Take]_Held
    BY RefinementStep, NextShape
  <1>5. QED
    BY <1>1, <1>2, <1>3, <1>4, PTL DEF StorageSpec, ImplementsPersistentStore, Promise!Spec
=============================================================================
