------------------------------ MODULE DtnStorage ------------------------------
(***************************************************************************)
(* dtn_storage.c: the list of stored packets, its copy in the directory    *)
(* ./dtn_storage, and what survives the process.                           *)
(*                                                                         *)
(* packet_list           the linked list from packet_list_head: ptr is the *)
(*                       address of the entry, time is stored_time_ms      *)
(* stored_packets_count  the counter kept beside it                        *)
(* disk                  the content of the file of each name              *)
(* proc                  the process: running, caught in a loop that never *)
(*                       ends, or down                                     *)
(* now                   sys_now(), a counter that wraps at ClockMod       *)
(*                                                                         *)
(* A file name is made of the destination and the storing time (line 64).  *)
(***************************************************************************)
EXTENDS DtnPacket, SequencesExt

CONSTANTS MaxStored,      \* MAX_STORED_PACKETS
          ClockMod,       \* sys_now() counts modulo this (2^32 ms)
          Arrivals,       \* the packets the network may hand in
          Me,             \* netif->ip6_addr[1], the custodian address
          NoFile, Partial,
          AllocMayFail,   \* pbuf_alloc, malloc and the reading of a file may fail
          DiskFaults,     \* fopen, fwrite may fail
          FlushMayFail,   \* the write that fclose makes may fail
          RemoveMayFail,  \* remove may fail
          SameMsStores    \* two packets for one destination may be stored
                          \* while sys_now() reads the same

ASSUME StorageAssumption ==
    /\ MaxStored \in Nat \ {0} /\ ClockMod \in Nat \ {0}
    /\ Arrivals \subseteq Packet /\ Me \in Addr
    /\ \A p \in Arrivals : WellSized(p)
    /\ NoFile \notin Packet /\ Partial \notin Packet /\ NoFile # Partial
    /\ {AllocMayFail, DiskFaults, FlushMayFail, RemoveMayFail, SameMsStores} \subseteq BOOLEAN

VARIABLES packet_list, stored_packets_count, disk, proc, now

storageVars == <<packet_list, stored_packets_count, disk, proc, now>>

Time == 0 .. ClockMod - 1
Ptr == 1 .. MaxStored
Entry == [ptr : Ptr, p : Packet, time : Time]
FileName == {p.dest : p \in Arrivals} \X Time

filename(e) == <<e.p.dest, e.time>>
Ptrs == {packet_list[i].ptr : i \in DOMAIN packet_list}
Complete == {n \in FileName : disk[n] \in Packet}
is_full == stored_packets_count >= MaxStored
-----------------------------------------------------------------------------
(***************************************************************************)
(* dtn_storage_store_packet.  strip_custodian_option's result is ignored:  *)
(* when its allocation fails the packet is stored with its header.         *)
(***************************************************************************)
StoredForms(p) == {StripCustodian(p)} \cup (IF AllocMayFail THEN {p} ELSE {})

\* No packet in memory or on disk has the name that p would get.
NewName(p) ==
    /\ disk[<<p.dest, now>>] \notin Packet
    /\ \A i \in DOMAIN packet_list : filename(packet_list[i]) # <<p.dest, now>>

MayOpen(p) == ~is_full /\ (SameMsStores \/ NewName(p))

\* What is in the file after fclose.  What the calls of fwrite left in the
\* buffer of the stream is written now; nobody looks whether it was.
Written(s) == {s} \cup (IF FlushMayFail THEN {Partial} ELSE {})

StoreSucceeds(p) ==
    /\ MayOpen(p)
    /\ \E s \in StoredForms(p), a \in Ptr \ Ptrs :
         /\ packet_list' = Append(packet_list, [ptr |-> a, p |-> s, time |-> now])
         /\ \E c \in Written(s) : disk' = [disk EXCEPT ![<<p.dest, now>>] = c]
    /\ stored_packets_count' = stored_packets_count + 1
    /\ UNCHANGED <<proc, now>>

\* Full, no memory for the copy or no file: nothing changes.  A write that
\* fails, or no memory for the buffer once the file is open, leaves the
\* truncated file behind.
StoreFails(p) ==
    /\ \/ is_full /\ UNCHANGED disk
       \/ (AllocMayFail \/ DiskFaults) /\ UNCHANGED disk
       \/ /\ (AllocMayFail \/ DiskFaults) /\ MayOpen(p)
          /\ disk' = [disk EXCEPT ![<<p.dest, now>>] = Partial]
    /\ UNCHANGED <<packet_list, stored_packets_count, proc, now>>
-----------------------------------------------------------------------------
(***************************************************************************)
(* The three ways an entry leaves: by destination, by the quoted header,   *)
(* and by the quoted header and payload.  Each unlinks one entry, lowers   *)
(* the counter and removes the entry's file.                               *)
(***************************************************************************)
\* Faulty variants: the counter is not lowered; the file stays.
RemoveEntryCountsNever(i) ==
    /\ packet_list' = RemoveAt(packet_list, i)
    /\ disk' = [disk EXCEPT ![filename(packet_list[i])] = NoFile]
    /\ UNCHANGED <<stored_packets_count, proc, now>>
RemoveEntryKeepsFile(i) ==
    /\ packet_list' = RemoveAt(packet_list, i)
    /\ stored_packets_count' = stored_packets_count - 1
    /\ UNCHANGED <<disk, proc, now>>

RemoveEntry(i) ==
    /\ packet_list' = RemoveAt(packet_list, i)
    /\ stored_packets_count' = stored_packets_count - 1
    /\ \/ disk' = [disk EXCEPT ![filename(packet_list[i])] = NoFile]
       \/ RemoveMayFail /\ UNCHANGED disk
    /\ UNCHANGED <<proc, now>>

\* The walk removes entry i: it is a match and nothing before it was one.
IsFirst(i, May(_), Must(_)) ==
    May(packet_list[i].p) /\ \A j \in 1 .. i - 1 : ~Must(packet_list[j].p)
NoneMatches(Must(_)) == \A j \in DOMAIN packet_list : ~Must(packet_list[j].p)

\* Faulty variant: the last match is taken instead of the first.
retrieve_last_for_dest(d) ==
    \/ \E i \in DOMAIN packet_list :
          /\ packet_list[i].p.dest = d /\ RemoveEntry(i)
          /\ \A j \in i + 1 .. Len(packet_list) : packet_list[j].p.dest # d
    \/ (\A i \in DOMAIN packet_list : packet_list[i].p.dest # d) /\ UNCHANGED storageVars

retrieve_packet_for_dest(d) ==
    LET Match(s) == s.dest = d
    IN  \/ \E i \in DOMAIN packet_list : IsFirst(i, Match, Match) /\ RemoveEntry(i)
        \/ NoneMatches(Match) /\ UNCHANGED storageVars

delete_packet_by_ip_header(q) ==
    LET Match(s) == HeaderMatch(s, q)
    IN  \/ \E i \in DOMAIN packet_list : IsFirst(i, Match, Match) /\ RemoveEntry(i)
        \/ NoneMatches(Match) /\ UNCHANGED storageVars

\* A stored packet that still has a hop-by-hop header and the quoted source
\* makes the walk `continue' without advancing (line 661).
delete_packet_by_icmp_data(q) ==
    LET Stuck(s) == s.src = q.src /\ s.hbh # << >>
        May(s)   == MayMatch(s, q) /\ ~Stuck(s)
        Stop(s)  == MustMatch(s, q) \/ Stuck(s)
    IN  IF packet_list # << >> /\ ActualPayloadBytes(q) = 0
        THEN delete_packet_by_ip_header(q)
        ELSE \/ \E i \in DOMAIN packet_list : IsFirst(i, May, Stop) /\ RemoveEntry(i)
             \/ NoneMatches(Stop) /\ UNCHANGED storageVars
             \/ /\ \E i \in DOMAIN packet_list : IsFirst(i, Stuck, Stop)
                /\ proc' = "hung"
                /\ UNCHANGED <<packet_list, stored_packets_count, disk, now>>
-----------------------------------------------------------------------------
(***************************************************************************)
(* The process ends, and starts again.  dtn_storage_destroy frees the list *)
(* and leaves the files, which is what a crash does too.  A crash inside   *)
(* store_packet may leave the new file cut short or complete.              *)
(***************************************************************************)
LoseMemory ==
    /\ proc' = "down"
    /\ packet_list' = << >>
    /\ stored_packets_count' = 0
    /\ UNCHANGED now

\* Faulty variant: the clean-up empties the directory as well.
CrashEmptiesDirectory ==
    proc # "down" /\ LoseMemory /\ disk' = [n \in FileName |-> NoFile]

Crash == proc # "down" /\ LoseMemory /\ UNCHANGED disk

CrashInStore(p) ==
    /\ MayOpen(p)
    /\ LoseMemory
    /\ \E c \in StoredForms(p) \cup {Partial} : disk' = [disk EXCEPT ![<<p.dest, now>>] = c]

(***************************************************************************)
(* dtn_storage_load_packets_from_disk: complete files in directory order,  *)
(* until MAX_STORED_PACKETS are loaded; a file that cannot be read, or for *)
(* which there is no memory, is skipped.                                   *)
(***************************************************************************)
LoadOrders ==
    {s \in UNION {[1 .. n -> Complete] : n \in 0 .. MaxStored} :
        /\ \A i, j \in DOMAIN s : s[i] = s[j] => i = j
        /\ \/ DOMAIN s = Ptr
           \/ Complete = {s[i] : i \in DOMAIN s}
           \/ AllocMayFail}

\* Faulty variant: an entry is stamped with the time of loading instead of the
\* time in its name.
LoadStampsNow(s) ==
    /\ packet_list' = [i \in 1 .. Len(s) |-> [ptr |-> i, p |-> disk[s[i]], time |-> now]]
    /\ stored_packets_count' = Len(s)

Load(s) ==
    /\ packet_list' = [i \in 1 .. Len(s) |-> [ptr |-> i, p |-> disk[s[i]], time |-> s[i][2]]]
    /\ stored_packets_count' = Len(s)

Restart ==
    /\ proc = "down"
    /\ proc' = "running"
    /\ \E s \in LoadOrders : Load(s)
    /\ UNCHANGED <<disk, now>>

Tick ==
    /\ now' = (now + 1) % ClockMod
    /\ UNCHANGED <<packet_list, stored_packets_count, disk, proc>>
-----------------------------------------------------------------------------
StorageInit ==
    /\ packet_list = << >>
    /\ stored_packets_count = 0
    /\ disk = [n \in FileName |-> NoFile]
    /\ proc = "running"
    /\ now = 0

\* What an acknowledgement can quote: a packet as this node sends it, or a
\* packet of the network as it came in.
Quotes == {Quote(p) : p \in Arrivals}
          \cup {Quote(UpdateOrAddCustodian(p, Me)) : p \in Arrivals}

StorageOp ==
    \/ \E p \in Arrivals : StoreSucceeds(p) \/ StoreFails(p) \/ CrashInStore(p)
    \/ \E d \in {p.dest : p \in Arrivals} : retrieve_packet_for_dest(d)
    \/ \E q \in Quotes : delete_packet_by_icmp_data(q)
    \/ \E q \in Quotes : delete_packet_by_ip_header(q)

StorageNext ==
    \/ proc = "running" /\ StorageOp
    \/ Crash
    \/ Restart
    \/ Tick

StorageSpec == StorageInit /\ [][StorageNext]_storageVars
-----------------------------------------------------------------------------
(***************************************************************************)
(* Type correctness of the storage state.                                  *)
(***************************************************************************)
StorageTypeOK ==
    /\ packet_list \in Seq(Entry)
    /\ stored_packets_count \in 0 .. MaxStored
    /\ disk \in [FileName -> Packet \cup {NoFile, Partial}]
    /\ proc \in {"running", "hung", "down"}
    /\ now \in Time

\* The counter that is_full tests is the length of the list, and no two
\* entries of the list are the same heap object: store, load and the three
\* removals keep list and counter together.
ListConsistent ==
    /\ stored_packets_count = Len(packet_list)
    /\ \A i, j \in DOMAIN packet_list : packet_list[i].ptr = packet_list[j].ptr => i = j

\* While the process lives, every packet in memory can be recovered from
\* its own file: store_packet saves before it appends, no removal deletes
\* another entry's file, and load keeps the name it read.  (As long as the
\* write in fclose succeeds and no two stores share a name.)
MemoryOnDisk ==
    proc # "down" =>
        \A i \in DOMAIN packet_list : disk[filename(packet_list[i])] = packet_list[i].p

\* No file outlives the entry it was written for, and no two entries share
\* one: what a restart brings back is what was in memory, never a packet
\* that was acknowledged or given up before.  (As long as remove and the
\* write in fclose succeed and no two stores share a name.)
NoOrphanFile ==
    proc # "down" =>
        /\ Complete = {filename(packet_list[i]) : i \in DOMAIN packet_list}
        /\ \A i, j \in DOMAIN packet_list :
              filename(packet_list[i]) = filename(packet_list[j]) => i = j

\* No more complete files than MAX_STORED_PACKETS ever lie on disk, so that
\* load_packets_from_disk, which stops at that number, leaves none behind.
LoadIsComplete == Cardinality(Complete) <= MaxStored

\* What the store holds: the list while the process lives, the complete
\* files while it does not.
Held ==
    IF proc # "down" THEN {<<filename(packet_list[i]), packet_list[i].p>> : i \in DOMAIN packet_list}
                     ELSE {<<n, disk[n]>> : n \in Complete}

Promise == INSTANCE PersistentStore WITH Name <- FileName, Item <- Packet,
                                         Capacity <- MaxStored, held <- Held

\* dtn_storage.c implements a bounded store that no crash and no restart
\* changes: only a store adds a packet, only a removal takes one out.  (As
\* long as remove and the write in fclose succeed, memory does not run out
\* and no two stores share a name.)
ImplementsPersistentStore == Promise!Spec
=============================================================================
