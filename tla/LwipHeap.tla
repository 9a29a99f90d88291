------------------------------ MODULE LwipHeap ------------------------------
(***************************************************************************)
(* The heap of lwIP (mem.c with MEM_LIBC_MALLOC 0 and NO_SYS 1), from      *)
(* which every PBUF_RAM comes: the copies in the store, the packets of     *)
(* ICMPv6 and the packets with a custodian option.                         *)
(*                                                                         *)
(* heap has a struct mem at each offset where a block begins, ram_end      *)
(* included; what an absorbed block leaves behind in memory is dropped.    *)
(* The caller's side is held, which gives the size that was asked for each *)
(* block in use, and denied, the last request if it was denied, else 0.    *)
(* aborted: an LWIP_ASSERT failed, which ends the process.                 *)
(***************************************************************************)
EXTENDS Integers, FiniteSetsExt

CONSTANTS MEM_SIZE, SIZEOF_STRUCT_MEM, MIN_SIZE,   \* each aligned
          MEM_ALIGNMENT,
          SizeMod,      \* one more than the largest mem_size_t
          Requests      \* the sizes asked for

ASSUME HeapAssumption ==
    /\ {MEM_SIZE, SIZEOF_STRUCT_MEM, MIN_SIZE, MEM_ALIGNMENT, SizeMod} \subseteq Nat
    /\ MEM_ALIGNMENT > 0 /\ SizeMod > MEM_SIZE
    /\ MIN_SIZE > 0 /\ MIN_SIZE % MEM_ALIGNMENT = 0 /\ SIZEOF_STRUCT_MEM > 0
    /\ SIZEOF_STRUCT_MEM % MEM_ALIGNMENT = 0 /\ SizeMod % MEM_ALIGNMENT = 0
    /\ MEM_SIZE % MEM_ALIGNMENT = 0 /\ MEM_SIZE >= SIZEOF_STRUCT_MEM + MIN_SIZE
    /\ Requests \subseteq 1 .. SizeMod - 1

VARIABLES heap, lfree, held, denied, aborted

heapVars == <<heap, lfree, held, denied, aborted>>

ram_end == MEM_SIZE
-----------------------------------------------------------------------------
LWIP_MEM_ALIGN_SIZE(n) ==
    (((n + MEM_ALIGNMENT - 1) \div MEM_ALIGNMENT) * MEM_ALIGNMENT) % SizeMod

BlockSize(n) ==
    IF LWIP_MEM_ALIGN_SIZE(n) < MIN_SIZE THEN MIN_SIZE ELSE LWIP_MEM_ALIGN_SIZE(n)

\* Faulty variant: a size that rounding up made small goes through.
TooLargeUnchecked(n) == BlockSize(n) > MEM_SIZE

\* The request is too large, or rounding it up left the range of mem_size_t.
TooLarge(n) == BlockSize(n) > MEM_SIZE \/ BlockSize(n) < n

\* The data a block has room for.
Room(h, ptr) == h[ptr].next - (ptr + SIZEOF_STRUCT_MEM)

\* An unused block is put between ptr and the block after it.
Insert(h, ptr, ptr2) ==
    LET next == h[ptr].next
    IN  [b \in DOMAIN h \cup {ptr2} |->
            CASE b = ptr2 -> [next |-> next, prev |-> ptr, used |-> FALSE]
              [] b = ptr -> [h[b] EXCEPT !.next = ptr2]
              [] b = next /\ b # ram_end -> [h[b] EXCEPT !.prev = ptr2]
              [] OTHER -> h[b]]

\* Block ptr absorbs the block after it.
Absorb(h, ptr) ==
    LET gone == h[ptr].next
        next == h[gone].next
    IN  [b \in DOMAIN h \ {gone} |->
            CASE b = ptr -> [h[b] EXCEPT !.next = next]
              [] b = next /\ b # ram_end -> [h[b] EXCEPT !.prev = ptr]
              [] OTHER -> h[b]]

Use(h, ptr) == [h EXCEPT ![ptr].used = TRUE]

Unused(h) == {b \in DOMAIN h \ {ram_end} : ~h[b].used}
-----------------------------------------------------------------------------
(***************************************************************************)
(* mem_malloc.  The scan takes the first block from lfree on that has      *)
(* room; lfree, if it was that block, moves on to the next unused one.     *)
(***************************************************************************)
Fitting(size) ==
    {ptr \in DOMAIN heap : /\ lfree <= ptr /\ ptr < MEM_SIZE - size
                           /\ ~heap[ptr].used /\ Room(heap, ptr) >= size}

NextUnused(h, ptr) == Min({b \in Unused(h) \cup {ram_end} : b >= ptr})

Taken(ptr, size) ==
    IF Room(heap, ptr) >= size + SIZEOF_STRUCT_MEM + MIN_SIZE
    THEN Use(Insert(heap, ptr, ptr + SIZEOF_STRUCT_MEM + size), ptr)
    ELSE Use(heap, ptr)

\* Faulty variant: lfree stays where it is.
mem_malloc_keeps_lfree(n) ==
    LET size == BlockSize(n)
        ptr == Min(Fitting(size))
    IN  IF TooLarge(n) \/ Fitting(size) = {}
        THEN denied' = n /\ UNCHANGED <<heap, lfree, held, aborted>>
        ELSE /\ heap' = Taken(ptr, size)
             /\ held' = [b \in DOMAIN held \cup {ptr} |-> IF b = ptr THEN n ELSE held[b]]
             /\ denied' = 0
             /\ UNCHANGED <<lfree, aborted>>

mem_malloc(n) ==
    LET size == BlockSize(n)
        ptr == Min(Fitting(size))
    IN  IF TooLarge(n) \/ Fitting(size) = {}
        THEN denied' = n /\ UNCHANGED <<heap, lfree, held, aborted>>
        ELSE /\ heap' = Taken(ptr, size)
             /\ lfree' = IF ptr = lfree THEN NextUnused(heap', ptr) ELSE lfree
             /\ held' = [b \in DOMAIN held \cup {ptr} |-> IF b = ptr THEN n ELSE held[b]]
             /\ denied' = 0
             /\ UNCHANGED aborted
-----------------------------------------------------------------------------
(***************************************************************************)
(* mem_free and plug_holes, for a block in use: the checks for a second    *)
(* mem_free of a block do not fire.                                        *)
(***************************************************************************)
PlugForward(s, ptr) ==
    LET next == s.heap[ptr].next
    IN  IF next # ram_end /\ ~s.heap[next].used
        THEN [heap |-> Absorb(s.heap, ptr), lfree |-> IF s.lfree = next THEN ptr ELSE s.lfree]
        ELSE s

PlugBackward(s, ptr) ==
    LET prev == s.heap[ptr].prev
    IN  IF prev # ptr /\ ~s.heap[prev].used
        THEN [heap |-> Absorb(s.heap, prev), lfree |-> IF s.lfree = ptr THEN prev ELSE s.lfree]
        ELSE s

\* Faulty variant: holes are plugged on one side only.
plug_forward_only(s, ptr) == PlugForward(s, ptr)

plug_holes(s, ptr) == PlugBackward(PlugForward(s, ptr), ptr)

mem_free(ptr) ==
    LET s == plug_holes([heap |-> [heap EXCEPT ![ptr].used = FALSE],
                         lfree |-> IF ptr < lfree THEN ptr ELSE lfree], ptr)
    IN  /\ heap' = s.heap
        /\ lfree' = s.lfree
        /\ held' = [b \in DOMAIN held \ {ptr} |-> held[b]]
        /\ denied' = 0
        /\ UNCHANGED aborted
-----------------------------------------------------------------------------
(***************************************************************************)
(* mem_trim, to no more than was asked for.  An unused block that follows  *)
(* moves down; otherwise a new one is made if there is room for it, but    *)
(* not in the last block of the heap: there the assertion "invalid next    *)
(* ptr" fails before anything is changed.  (pbuf_realloc is the caller; in *)
(* this program it sees pool pbufs only, and the heap is never trimmed.)   *)
(***************************************************************************)
SplitsOff(ptr, size) ==
    /\ size # Room(heap, ptr) /\ heap[heap[ptr].next].used
    /\ size + SIZEOF_STRUCT_MEM + MIN_SIZE <= Room(heap, ptr)

TrimAborts(ptr, n) ==
    /\ SplitsOff(ptr, BlockSize(n)) /\ heap[ptr].next = ram_end
    /\ aborted' = TRUE
    /\ UNCHANGED <<heap, lfree, held, denied>>

\* Faulty variant: a new unused block below lfree does not become lfree.
mem_trim_keeps_lfree(ptr, n) ==
    LET size == BlockSize(n)
        ptr2 == ptr + SIZEOF_STRUCT_MEM + size
        next == heap[ptr].next
    IN  /\ ~(SplitsOff(ptr, size) /\ next = ram_end)
        /\ IF size # Room(heap, ptr) /\ ~heap[next].used
           THEN /\ heap' = Insert(Absorb(heap, ptr), ptr, ptr2)
                /\ lfree' = IF lfree = next THEN ptr2 ELSE lfree
           ELSE IF SplitsOff(ptr, size)
           THEN heap' = Insert(heap, ptr, ptr2) /\ UNCHANGED lfree
           ELSE UNCHANGED <<heap, lfree>>
        /\ held' = [held EXCEPT ![ptr] = n]
        /\ denied' = 0
        /\ UNCHANGED aborted

mem_trim(ptr, n) ==
    LET size == BlockSize(n)
        ptr2 == ptr + SIZEOF_STRUCT_MEM + size
        next == heap[ptr].next
    IN  /\ ~(SplitsOff(ptr, size) /\ next = ram_end)
        /\ IF size # Room(heap, ptr) /\ ~heap[next].used
           THEN /\ heap' = Insert(Absorb(heap, ptr), ptr, ptr2)
                /\ lfree' = IF lfree = next THEN ptr2 ELSE lfree
           ELSE IF SplitsOff(ptr, size)
           THEN /\ heap' = Insert(heap, ptr, ptr2)
                /\ lfree' = IF ptr2 < lfree THEN ptr2 ELSE lfree
           ELSE UNCHANGED <<heap, lfree>>
        /\ held' = [held EXCEPT ![ptr] = n]
        /\ denied' = 0
        /\ UNCHANGED aborted
-----------------------------------------------------------------------------
mem_init ==
    /\ heap = [b \in {0, ram_end} |->
                  IF b = 0 THEN [next |-> ram_end, prev |-> 0, used |-> FALSE]
                           ELSE [next |-> ram_end, prev |-> ram_end, used |-> TRUE]]
    /\ lfree = 0
    /\ held = << >>
    /\ denied = 0
    /\ aborted = FALSE

HeapNext ==
    /\ ~aborted
    /\ \/ \E n \in Requests : mem_malloc(n)
       \/ \E ptr \in DOMAIN held : mem_free(ptr)
       \/ \E ptr \in DOMAIN held, n \in Requests :
             n <= held[ptr] /\ (mem_trim(ptr, n) \/ TrimAborts(ptr, n))

HeapSpec == mem_init /\ [][HeapNext]_heapVars
-----------------------------------------------------------------------------
Aligned(n) == n \in Nat /\ n % MEM_ALIGNMENT = 0

Block == [next : 0 .. MEM_SIZE, prev : 0 .. MEM_SIZE, used : BOOLEAN]

\* Every block begins at an aligned offset, so that the pointers mem_malloc
\* returns are aligned ("allocated memory properly aligned").
HeapTypeOK ==
    /\ DOMAIN heap \subseteq {b \in 0 .. MEM_SIZE : Aligned(b)} /\ {0, ram_end} \subseteq DOMAIN heap
    /\ heap \in [DOMAIN heap -> Block]
    /\ lfree \in DOMAIN heap
    /\ held \in [DOMAIN held -> Requests] /\ DOMAIN held \subseteq DOMAIN heap
    /\ denied \in Requests \cup {0} /\ aborted \in BOOLEAN

\* What mem_sanity would check (it is compiled out): next leads through every
\* block in order and prev back, each block has MIN_SIZE of data at least,
\* and "there should not exist one empty struct mem pointing to another empty
\* struct mem" (plug_holes).
HeapSane ==
    /\ heap[0].prev = 0
    /\ heap[ram_end] = [next |-> ram_end, prev |-> ram_end, used |-> TRUE]
    /\ \A b \in DOMAIN heap \ {ram_end} :
          LET next == heap[b].next
          IN  /\ next \in DOMAIN heap
              /\ next >= b + SIZEOF_STRUCT_MEM + MIN_SIZE
              /\ \A c \in DOMAIN heap : c <= b \/ c >= next
              /\ next # ram_end => heap[next].prev = b
              /\ heap[b].used \/ heap[next].used

\* "pointer to the lowest free block": no unused block lies below lfree,
\* where no scan would find it, and lfree itself is unused unless the heap has
\* no unused block, whatever splits and merges moved that block.
LowestFree == lfree = Min(Unused(heap) \cup {ram_end})

\* The blocks in use are those that callers hold, each with room for what its
\* caller asked for: with HeapSane, no two callers share memory and no block
\* is lost.
Reserved ==
    /\ {b \in DOMAIN heap \ {ram_end} : heap[b].used} = DOMAIN held
    /\ \A b \in DOMAIN held : Room(heap, b) >= held[b]

\* mem_malloc returns NULL only if no unused block anywhere has room for the
\* request, the largest requests included, whose rounded size overflows.
DeniedOnlyWithoutRoom ==
    denied # 0 => \A b \in Unused(heap) : Room(heap, b) < denied

\* When every block has been given back, in whatever order, the heap is again
\* the one block of mem_init: fragmentation does not outlive the blocks.
WholeWhenAllFreed ==
    held = << >> => DOMAIN heap = {0, ram_end} /\ lfree = 0
=============================================================================
