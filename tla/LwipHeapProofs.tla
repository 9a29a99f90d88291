--------------------------- MODULE LwipHeapProofs ---------------------------
(***************************************************************************)
(* The heap of lwIP is sound for every size of heap, header and block and  *)
(* every sequence of requests.                                             *)
(***************************************************************************)
EXTENDS LwipHeap, SequenceLemmas

(***************************************************************************)
(* Arithmetic of aligned sizes.                                            *)
(***************************************************************************)
\* A multiple leaves no rest.
LEMMA MultMod ==
    ASSUME NEW A \in Nat, A > 0, NEW j \in Int
    PROVE  (A * j) % A = 0
<1> DEFINE d == (A * j) \div A
           r == (A * j) % A
<1>1. A * j \in Int
    OBVIOUS
<1>2. A * j = A * d + r /\ r \in 0 .. A - 1 /\ d \in Int
    BY <1>1
<1> HIDE DEF d, r
<1>3. A * (j - d) = r
    BY <1>2
<1>4. CASE j - d >= 1
    <2>1. A * (j - d) >= A
        BY <1>2, <1>4
    <2> QED BY <1>2, <1>3, <2>1
<1>5. CASE j - d <= -1
    <2>1. A * (j - d) <= -A
        BY <1>2, <1>5
    <2> QED BY <1>2, <1>3, <2>1
<1>6. CASE j = d
    BY <1>2, <1>3, <1>6 DEF r
<1> QED BY <1>2, <1>4, <1>5, <1>6

\* What leaves no rest is a multiple.
LEMMA Multiple ==
    ASSUME NEW A \in Nat, A > 0, NEW x \in Int, x % A = 0
    PROVE  x = A * (x \div A) /\ x \div A \in Int
    OBVIOUS

\* Sums and differences of aligned numbers are aligned.
LEMMA AlignedSum ==
    ASSUME NEW A \in Nat, A > 0, NEW x \in Int, NEW y \in Int, x % A = 0, y % A = 0
    PROVE  (x + y) % A = 0 /\ (x - y) % A = 0
<1> DEFINE p == x \div A
           q == y \div A
<1>1. x = A * p /\ y = A * q /\ p \in Int /\ q \in Int
    BY Multiple
<1> HIDE DEF p, q
<1>2. x + y = A * (p + q) /\ x - y = A * (p - q) /\ p + q \in Int /\ p - q \in Int
    BY <1>1
<1>3. (A * (p + q)) % A = 0 /\ (A * (p - q)) % A = 0
    BY <1>2, MultMod
<1> QED BY <1>2, <1>3

\* Rounding up to a multiple gives the least one that is large enough.
LEMMA RoundUp ==
    ASSUME NEW A \in Nat, A > 0, NEW n \in Nat
    PROVE  LET up == ((n + A - 1) \div A) * A
           IN  /\ up \in Nat /\ up >= n /\ up % A = 0
               /\ \A r \in Nat : r % A = 0 /\ n <= r => up <= r
<1> DEFINE k == (n + A - 1) \div A
           e == (n + A - 1) % A
<1>1. n + A - 1 = A * k + e /\ e \in 0 .. A - 1 /\ k \in Nat
    OBVIOUS
<1> HIDE DEF k, e
<1>2. k * A = A * k /\ A * k \in Nat
    BY <1>1
<1>3. k * A >= n
  <2> DEFINE w == A * k
  <2>1. w \in Nat /\ n + A - 1 = w + e /\ k * A = w
      BY <1>1, <1>2
  <2> HIDE DEF w
  <2>2. w >= n
      BY <1>1, <2>1
  <2> QED BY <2>1, <2>2
<1>4. (k * A) % A = 0
  <2>1. k \in Int
      BY <1>1
  <2>2. (A * k) % A = 0
      BY <2>1, MultMod, Zenon
  <2> QED BY <1>2, <2>2, Zenon
<1>5. ASSUME NEW r \in Nat, r % A = 0, n <= r PROVE k * A <= r
  <2> DEFINE q == r \div A
  <2>1. r = A * q /\ q \in Int
      BY <1>5, Multiple
  <2> HIDE DEF q
  <2>2. A * k < A * q + A
      BY <1>1, <1>5, <2>1
  <2>3. A * (q + 1) = A * q + A
      BY <2>1
  <2>4. A * q \in Int /\ A * (q + 1) \in Int
      BY <2>1
  <2>5. ~(k >= q + 1)
    <3>1. SUFFICES ASSUME k >= q + 1 PROVE FALSE
        OBVIOUS
    <3>2. A * k >= A * (q + 1)
        BY <3>1, <1>1, <2>1
    <3> QED BY <3>2, <2>2, <2>3, <2>4, <1>2
  <2>6. k <= q
      BY <2>5, <1>1, <2>1
  <2>7. A * k <= A * q
      BY <2>6, <1>1, <2>1
  <2> QED BY <2>1, <2>7, <1>2
<1> QED BY <1>2, <1>3, <1>4, <1>5 DEF k

\* A number in range is not changed by the modulus.
LEMMA SmallMod ==
    ASSUME NEW M \in Nat, NEW x \in 0 .. M - 1
    PROVE  x % M = x
    OBVIOUS

\* The modulus keeps an aligned number aligned, if it is aligned itself.
LEMMA ModAligned ==
    ASSUME NEW A \in Nat, A > 0, NEW M \in Nat, M > 0, NEW x \in Nat, x % A = 0, M % A = 0
    PROVE  x % M \in Nat /\ (x % M) % A = 0
<1> DEFINE d == x \div M
           r == x % M
           m == M \div A
<1>1. x = M * d + r /\ r \in Nat /\ d \in Int
    OBVIOUS
<1>2. M = A * m /\ m \in Int
    BY Multiple
<1> HIDE DEF d, r, m
<1>3. M * d \in Int /\ M * d = A * (m * d) /\ m * d \in Int
  <2>1. (A * m) * d = A * (m * d)
      BY <1>1, <1>2
  <2> QED BY <1>1, <1>2, <2>1
<1>4. (M * d) % A = 0
    BY <1>3, MultMod
<1>5. r = x - M * d
    BY <1>1, <1>3
<1>6. r % A = 0
  <2> DEFINE z == M * d
  <2>1. z \in Int /\ z % A = 0 /\ r = x - z
      BY <1>3, <1>4, <1>5
  <2> HIDE DEF z
  <2>2. x \in Int
      OBVIOUS
  <2>3. (x - z) % A = 0
      BY <2>1, <2>2, AlignedSum, Zenon
  <2> QED BY <2>1, <2>3, Zenon
<1> QED BY <1>1, <1>6 DEF r

\* What a request is rounded to.
LEMMA BlockSizeFacts ==
    ASSUME NEW n \in Requests
    PROVE  /\ BlockSize(n) \in Nat /\ BlockSize(n) % MEM_ALIGNMENT = 0
           /\ BlockSize(n) >= MIN_SIZE
           /\ \A r \in MIN_SIZE .. MEM_SIZE :
                 r % MEM_ALIGNMENT = 0 /\ n <= r => n <= BlockSize(n) /\ BlockSize(n) <= r
<1> DEFINE A == MEM_ALIGNMENT
           up == ((n + A - 1) \div A) * A
           a == up % SizeMod
<1>1. /\ A \in Nat /\ A > 0 /\ SizeMod \in Nat /\ SizeMod > 0 /\ SizeMod % A = 0
      /\ MIN_SIZE \in Nat /\ MIN_SIZE % A = 0 /\ MEM_SIZE \in Nat /\ MEM_SIZE < SizeMod
      /\ n \in Nat
    BY HeapAssumption
<1>2. /\ up \in Nat /\ up >= n /\ up % A = 0
      /\ \A r \in Nat : r % A = 0 /\ n <= r => up <= r
    BY <1>1, RoundUp
<1> HIDE DEF up
<1>3. a \in Nat /\ a % A = 0
    BY <1>1, <1>2, ModAligned
<1>4. BlockSize(n) = IF a < MIN_SIZE THEN MIN_SIZE ELSE a
    BY DEF BlockSize, LWIP_MEM_ALIGN_SIZE, up
<1> HIDE DEF a
<1>5. ASSUME NEW r \in MIN_SIZE .. MEM_SIZE, r % A = 0, n <= r
      PROVE  n <= BlockSize(n) /\ BlockSize(n) <= r
  <2>1. up <= r /\ r \in Nat
      BY <1>1, <1>2, <1>5
  <2>2. a = up
      BY <1>1, <1>2, <2>1, SmallMod DEF a
  <2> QED BY <1>1, <1>2, <1>4, <1>5, <2>1, <2>2
<1> HIDE DEF A
<1>6. BlockSize(n) \in Nat /\ BlockSize(n) % A = 0 /\ BlockSize(n) >= MIN_SIZE
    BY <1>1, <1>3, <1>4
<1> QED BY <1>5, <1>6 DEF A
-----------------------------------------------------------------------------
(***************************************************************************)
(* The list of blocks.                                                     *)
(***************************************************************************)
Offset == {b \in 0 .. MEM_SIZE : Aligned(b)}

Typed(h) ==
    /\ DOMAIN h \subseteq Offset /\ {0, ram_end} \subseteq DOMAIN h
    /\ h \in [DOMAIN h -> Block]

\* Block b and the block after it: nothing lies between them.
NextOK(h, b) ==
    /\ h[b].next \in DOMAIN h
    /\ h[b].next >= b + SIZEOF_STRUCT_MEM + MIN_SIZE
    /\ \A c \in DOMAIN h : c <= b \/ c >= h[b].next
    /\ h[b].next # ram_end => h[h[b].next].prev = b

PrevOK(h, b) == h[b].prev \in DOMAIN h \ {ram_end} /\ h[h[b].prev].next = b

\* The list of blocks, apart from which of them are in use.
Linked(h) ==
    /\ Typed(h)
    /\ h[0].prev = 0
    /\ h[ram_end].next = ram_end /\ h[ram_end].prev = ram_end /\ h[ram_end].used = TRUE
    /\ \A b \in DOMAIN h \ {ram_end} : NextOK(h, b)
    /\ \A b \in DOMAIN h \ {0, ram_end} : PrevOK(h, b)

\* No two unused blocks in a row.
Plugged(h) == \A b \in DOMAIN h \ {ram_end} : h[b].used \/ h[h[b].next].used

\* lfree as an order: LowestFree without Min.
IsLowest(l, h) == l \in Unused(h) \cup {ram_end} /\ \A b \in Unused(h) : l <= b

UsedBlocks(h) == {b \in DOMAIN h \ {ram_end} : h[b].used}

\* The blocks in use are the same and as large.
SameUsed(g, h) ==
    UsedBlocks(g) = UsedBlocks(h) /\ \A b \in UsedBlocks(h) : g[b].next = h[b].next
-----------------------------------------------------------------------------
\* A struct mem with one field written.
LEMMA BlockFields ==
    ASSUME NEW r \in Block, NEW v \in 0 .. MEM_SIZE
    PROVE  /\ [r EXCEPT !.next = v] \in Block
           /\ [r EXCEPT !.next = v].next = v
           /\ [r EXCEPT !.next = v].prev = r.prev
           /\ [r EXCEPT !.next = v].used = r.used
    BY DEF Block

Inserted(g, h, ptr, ptr2) ==
    /\ DOMAIN g = DOMAIN h \cup {ptr2}
    /\ Typed(g)
    /\ g[ptr2].next = h[ptr].next /\ g[ptr2].prev = ptr /\ g[ptr2].used = FALSE
    /\ \A b \in DOMAIN h :
          /\ g[b].used = h[b].used
          /\ g[b].next = IF b = ptr THEN ptr2 ELSE h[b].next
          /\ g[b].prev = IF b = h[ptr].next /\ b # ram_end THEN ptr2 ELSE h[b].prev

\* The fields of the blocks after Insert.
LEMMA InsertFacts ==
    ASSUME NEW h, Typed(h), NEW ptr \in DOMAIN h, h[ptr].next \in DOMAIN h, ptr # h[ptr].next,
           NEW ptr2 \in Offset, ptr2 \notin DOMAIN h
    PROVE  Inserted(Insert(h, ptr, ptr2), h, ptr, ptr2)
<1> DEFINE g == Insert(h, ptr, ptr2)
           next == h[ptr].next
<1>1. /\ DOMAIN g = DOMAIN h \cup {ptr2}
      /\ \A b \in DOMAIN g : g[b] =
            CASE b = ptr2 -> [next |-> next, prev |-> ptr, used |-> FALSE]
              [] b = ptr -> [h[b] EXCEPT !.next = ptr2]
              [] b = next /\ b # ram_end -> [h[b] EXCEPT !.prev = ptr2]
              [] OTHER -> h[b]
      /\ g \in [DOMAIN g -> {g[b] : b \in DOMAIN g}]
    BY DEF Insert
<1>2. \A b \in DOMAIN h : h[b] \in Block
    BY DEF Typed
<1>3. /\ ptr \in 0 .. MEM_SIZE /\ ptr2 \in 0 .. MEM_SIZE /\ next \in 0 .. MEM_SIZE
      /\ next \in DOMAIN h /\ ptr # next
    BY DEF Typed, Offset
<1> HIDE DEF g, next
<1>4. g[ptr2] = [next |-> next, prev |-> ptr, used |-> FALSE]
    BY <1>1, <1>3
<1>5. ASSUME NEW b \in DOMAIN h
      PROVE  /\ g[b] \in Block
             /\ g[b].used = h[b].used
             /\ g[b].next = IF b = ptr THEN ptr2 ELSE h[b].next
             /\ g[b].prev = IF b = next /\ b # ram_end THEN ptr2 ELSE h[b].prev
  <2>1. b # ptr2 /\ h[b] \in Block
      BY <1>2
  <2>2. CASE b = ptr
      <3>1. g[b] = [h[b] EXCEPT !.next = ptr2]
          BY <1>1, <1>3, <2>1, <2>2
      <3>2. /\ g[b] \in Block /\ g[b].next = ptr2
            /\ g[b].used = h[b].used /\ g[b].prev = h[b].prev
          BY <2>1, <3>1, <1>3, BlockFields
      <3> QED BY <2>2, <3>2, <1>3
  <2>3. CASE b # ptr /\ b = next /\ b # ram_end
      <3>1. g[b] = [h[b] EXCEPT !.prev = ptr2]
          BY <1>1, <2>1, <2>3
      <3> QED BY <2>1, <2>3, <3>1, <1>3 DEF Block
  <2>4. CASE b # ptr /\ ~(b = next /\ b # ram_end)
      <3>1. g[b] = h[b]
          BY <1>1, <2>1, <2>4
      <3> QED BY <2>1, <2>4, <3>1
  <2> QED BY <2>2, <2>3, <2>4
<1>6. g[ptr2] \in Block
    BY <1>3, <1>4 DEF Block
<1>7. g \in [DOMAIN g -> Block]
    BY <1>1, <1>5, <1>6
<1>8. Typed(g)
    BY <1>1, <1>7 DEF Typed
<1> QED
    BY <1>1, <1>4, <1>5, <1>8 DEF g, next, Inserted

\* The fields of the blocks after Absorb.
LEMMA AbsorbFacts ==
    ASSUME NEW h, Typed(h), NEW ptr \in DOMAIN h, h[ptr].next \in DOMAIN h \ {0, ram_end},
           ptr # h[ptr].next, h[h[ptr].next].next \in DOMAIN h \ {ptr}
    PROVE  LET g == Absorb(h, ptr)
               gone == h[ptr].next
           IN  /\ DOMAIN g = DOMAIN h \ {gone}
               /\ Typed(g)
               /\ \A b \in DOMAIN g :
                     /\ g[b].used = h[b].used
                     /\ g[b].next = IF b = ptr THEN h[gone].next ELSE h[b].next
                     /\ g[b].prev = IF b = h[gone].next /\ b # ram_end THEN ptr ELSE h[b].prev
<1> DEFINE g == Absorb(h, ptr)
           gone == h[ptr].next
           next == h[gone].next
<1>1. /\ DOMAIN g = DOMAIN h \ {gone}
      /\ \A b \in DOMAIN g : g[b] =
            CASE b = ptr -> [h[b] EXCEPT !.next = next]
              [] b = next /\ b # ram_end -> [h[b] EXCEPT !.prev = ptr]
              [] OTHER -> h[b]
      /\ g \in [DOMAIN g -> {g[b] : b \in DOMAIN g}]
    BY DEF Absorb
<1>2. \A b \in DOMAIN h : h[b] \in Block
    BY DEF Typed
<1>3. ptr \in 0 .. MEM_SIZE /\ next \in 0 .. MEM_SIZE /\ ptr # next
    BY DEF Typed, Offset
<1> HIDE DEF g, next, gone
<1>5. ASSUME NEW b \in DOMAIN g
      PROVE  /\ g[b] \in Block
             /\ g[b].used = h[b].used
             /\ g[b].next = IF b = ptr THEN next ELSE h[b].next
             /\ g[b].prev = IF b = next /\ b # ram_end THEN ptr ELSE h[b].prev
  <2>1. h[b] \in Block
      BY <1>1, <1>2
  <2>2. CASE b = ptr
      <3>1. g[b] = [h[b] EXCEPT !.next = next]
          BY <1>1, <1>3, <2>2
      <3>2. /\ g[b] \in Block /\ g[b].next = next
            /\ g[b].used = h[b].used /\ g[b].prev = h[b].prev
          BY <2>1, <3>1, <1>3, BlockFields
      <3> QED BY <2>2, <3>2, <1>3
  <2>3. CASE b # ptr /\ b = next /\ b # ram_end
      <3>1. g[b] = [h[b] EXCEPT !.prev = ptr]
          BY <1>1, <2>3
      <3> QED BY <2>1, <2>3, <3>1, <1>3 DEF Block
  <2>4. CASE b # ptr /\ ~(b = next /\ b # ram_end)
      <3>1. g[b] = h[b]
          BY <1>1, <2>4
      <3> QED BY <2>1, <2>4, <3>1
  <2> QED BY <2>2, <2>3, <2>4
<1>7. g \in [DOMAIN g -> Block]
    BY <1>1, <1>5
<1>8. Typed(g)
    BY <1>1, <1>7 DEF Typed, gone
<1> QED
    BY <1>1, <1>5, <1>8 DEF g, next, gone

\* What the code assumes of the sizes.
LEMMA Sizes ==
    /\ MEM_SIZE \in Nat /\ SIZEOF_STRUCT_MEM \in Nat /\ MIN_SIZE \in Nat /\ MIN_SIZE > 0
    /\ MEM_SIZE >= SIZEOF_STRUCT_MEM + MIN_SIZE
    BY HeapAssumption

\* Insert keeps the list of blocks in order.
LEMMA InsertLinked ==
    ASSUME NEW h, Linked(h), NEW ptr \in DOMAIN h \ {ram_end}, NEW ptr2 \in Offset,
           ptr + SIZEOF_STRUCT_MEM + MIN_SIZE <= ptr2,
           ptr2 + SIZEOF_STRUCT_MEM + MIN_SIZE <= h[ptr].next
    PROVE  /\ Linked(Insert(h, ptr, ptr2))
           /\ Inserted(Insert(h, ptr, ptr2), h, ptr, ptr2)
           /\ ptr2 \notin DOMAIN h
<1> DEFINE g == Insert(h, ptr, ptr2)
           next == h[ptr].next
<1>1. /\ Typed(h) /\ NextOK(h, ptr) /\ next \in DOMAIN h
      /\ \A b \in DOMAIN h : b \in 0 .. MEM_SIZE
    BY DEF Linked, Typed, NextOK, Offset
<1>2. ptr < ptr2 /\ ptr2 < next /\ ptr2 \in 0 .. MEM_SIZE
    BY <1>1, Sizes DEF Offset
<1>3. ptr2 \notin DOMAIN h
    BY <1>1, <1>2 DEF NextOK
<1>4. /\ DOMAIN g = DOMAIN h \cup {ptr2} /\ Typed(g)
      /\ g[ptr2].next = next /\ g[ptr2].prev = ptr /\ g[ptr2].used = FALSE
      /\ \A b \in DOMAIN h :
            /\ g[b].used = h[b].used
            /\ g[b].next = IF b = ptr THEN ptr2 ELSE h[b].next
            /\ g[b].prev = IF b = next /\ b # ram_end THEN ptr2 ELSE h[b].prev
  <2>1. ptr # next
      BY <1>1, <1>2
  <2>2. ptr \in DOMAIN h
      OBVIOUS
  <2>3. Inserted(g, h, ptr, ptr2)
      BY <1>1, <1>3, <2>1, <2>2, InsertFacts
  <2> HIDE DEF g
  <2> QED BY <2>3 DEF Inserted
<1>5. {0, ram_end} \subseteq DOMAIN h /\ ram_end \in Nat /\ next # 0 /\ ptr # ram_end
    BY <1>1, <1>2, Sizes DEF Typed, ram_end
<1>6. g[0].prev = 0
    BY <1>4, <1>5 DEF Linked
<1>7. g[ram_end].next = ram_end /\ g[ram_end].prev = ram_end /\ g[ram_end].used = TRUE
    BY <1>4, <1>5 DEF Linked
<1> HIDE DEF g
<1>8. ASSUME NEW b \in DOMAIN g \ {ram_end} PROVE NextOK(g, b)
  <2>1. CASE b = ptr2
    <3>1. \A c \in DOMAIN g : c <= b \/ c >= next
        BY <1>1, <1>2, <1>4, <2>1 DEF NextOK
    <3>2. next # ram_end => g[next].prev = b
        BY <1>1, <1>4, <2>1
    <3> QED BY <1>1, <1>4, <2>1, <3>1, <3>2 DEF NextOK
  <2>2. CASE b = ptr
    <3>1. \A c \in DOMAIN g : c <= b \/ c >= ptr2
        BY <1>1, <1>2, <1>4, <2>2 DEF NextOK
    <3> QED BY <1>1, <1>4, <2>2, <3>1 DEF NextOK
  <2>3. CASE b # ptr /\ b # ptr2
    <3>1. b \in DOMAIN h \ {ram_end} /\ NextOK(h, b) /\ g[b].next = h[b].next
        BY <1>4, <2>3 DEF Linked
    <3>2. ptr2 <= b \/ ptr2 >= h[b].next
        BY <1>1, <1>2, <2>3, <3>1 DEF NextOK
    <3>3. h[b].next # ram_end => h[b].next # next
        BY <1>1, <2>3, <3>1 DEF NextOK
    <3> QED BY <1>4, <3>1, <3>2, <3>3 DEF NextOK
  <2> QED BY <2>1, <2>2, <2>3
<1>9. ASSUME NEW b \in DOMAIN g \ {0, ram_end} PROVE PrevOK(g, b)
  <2>1. CASE b = ptr2
      BY <1>4, <1>5, <2>1 DEF PrevOK
  <2>2. CASE b = next
    <3>1. g[b].prev = ptr2 /\ ptr2 \in DOMAIN g /\ ptr2 # ram_end
        BY <1>1, <1>2, <1>3, <1>4, <1>5, <2>2
    <3> QED BY <1>4, <2>2, <3>1 DEF PrevOK
  <2>3. CASE b # next /\ b # ptr2
    <3>1. b \in DOMAIN h \ {0, ram_end} /\ PrevOK(h, b) /\ g[b].prev = h[b].prev
        BY <1>4, <2>3 DEF Linked
    <3>2. h[b].prev # ptr
        BY <2>3, <3>1 DEF PrevOK
    <3> QED BY <1>4, <3>1, <3>2 DEF PrevOK
  <2> QED BY <2>1, <2>2, <2>3
<1> QED
    BY <1>3, <1>4, <1>6, <1>7, <1>8, <1>9 DEF Linked, Inserted, g

Absorbed(g, h, ptr) ==
    /\ h[ptr].next \in DOMAIN h /\ ptr < h[ptr].next
    /\ DOMAIN g = DOMAIN h \ {h[ptr].next}
    /\ \A b \in DOMAIN g :
          /\ g[b].used = h[b].used
          /\ g[b].next = IF b = ptr THEN h[h[ptr].next].next ELSE h[b].next

\* Absorb keeps the list of blocks in order.
LEMMA AbsorbLinked ==
    ASSUME NEW h, Linked(h), NEW ptr \in DOMAIN h \ {ram_end}, h[ptr].next # ram_end
    PROVE  Linked(Absorb(h, ptr)) /\ Absorbed(Absorb(h, ptr), h, ptr)
<1> DEFINE g == Absorb(h, ptr)
           gone == h[ptr].next
           next == h[gone].next
<1>1. /\ Typed(h) /\ NextOK(h, ptr) /\ gone \in DOMAIN h \ {ram_end}
      /\ \A b \in DOMAIN h : b \in 0 .. MEM_SIZE
    BY DEF Linked, Typed, NextOK, Offset
<1>2. NextOK(h, gone) /\ next \in DOMAIN h
    BY <1>1 DEF Linked, NextOK
<1>3. ptr < gone /\ gone < next
    BY <1>1, <1>2, Sizes DEF NextOK
<1>4. {0, ram_end} \subseteq DOMAIN h /\ next # 0 /\ gone # 0 /\ ptr # next /\ gone # ram_end
    BY <1>1, <1>2, <1>3 DEF Typed
<1>5. /\ DOMAIN g = DOMAIN h \ {gone} /\ Typed(g)
      /\ \A b \in DOMAIN g :
            /\ g[b].used = h[b].used
            /\ g[b].next = IF b = ptr THEN next ELSE h[b].next
            /\ g[b].prev = IF b = next /\ b # ram_end THEN ptr ELSE h[b].prev
    BY <1>1, <1>2, <1>3, <1>4, AbsorbFacts
<1>6. g[0].prev = 0
    BY <1>4, <1>5 DEF Linked
<1>7. g[ram_end].next = ram_end /\ g[ram_end].prev = ram_end /\ g[ram_end].used = TRUE
    BY <1>4, <1>5 DEF Linked
<1> HIDE DEF g
<1>8. ASSUME NEW b \in DOMAIN g \ {ram_end} PROVE NextOK(g, b)
  <2>1. CASE b = ptr
    <3>1. \A c \in DOMAIN g : c <= b \/ c >= next
        BY <1>1, <1>2, <1>3, <1>5, <2>1 DEF NextOK
    <3>2. next >= b + SIZEOF_STRUCT_MEM + MIN_SIZE
        BY <1>1, <1>2, <1>3, <2>1, Sizes DEF NextOK
    <3>3. next \in DOMAIN g
        BY <1>1, <1>2, <1>3, <1>5
    <3> QED BY <1>5, <2>1, <3>1, <3>2, <3>3 DEF NextOK
  <2>2. CASE b # ptr
    <3>1. b \in DOMAIN h \ {ram_end, gone} /\ NextOK(h, b) /\ g[b].next = h[b].next
        BY <1>5, <2>2 DEF Linked
    <3>2. h[b].next # gone
        BY <1>1, <2>2, <3>1 DEF NextOK
    <3>3. h[b].next # ram_end => h[b].next # next
        BY <1>2, <3>1 DEF NextOK
    <3> QED BY <1>5, <3>1, <3>2, <3>3 DEF NextOK
  <2> QED BY <2>1, <2>2
<1>9. ASSUME NEW b \in DOMAIN g \ {0, ram_end} PROVE PrevOK(g, b)
  <2>1. CASE b = next
    <3>1. ptr \in DOMAIN g \ {ram_end}
        BY <1>3, <1>5, <1>1
    <3> QED BY <1>5, <2>1, <3>1 DEF PrevOK
  <2>2. CASE b # next
    <3>1. b \in DOMAIN h \ {0, ram_end, gone} /\ PrevOK(h, b) /\ g[b].prev = h[b].prev
        BY <1>5, <2>2 DEF Linked
    <3>2. h[b].prev # ptr /\ h[b].prev # gone
        BY <2>2, <3>1 DEF PrevOK
    <3> QED BY <1>5, <3>1, <3>2 DEF PrevOK
  <2> QED BY <2>1, <2>2
<1> QED
    BY <1>1, <1>3, <1>5, <1>6, <1>7, <1>8, <1>9 DEF Linked, Absorbed, g
-----------------------------------------------------------------------------
(***************************************************************************)
(* Which blocks are in use.                                                *)
(***************************************************************************)
LEMMA MinFacts ==
    ASSUME NEW S \in SUBSET Nat, S # {}
    PROVE  Min(S) \in S /\ \A n \in S : Min(S) <= n
    BY LeastElement DEF Min

\* The lower bound that belongs to a set is its minimum.
LEMMA MinIs ==
    ASSUME NEW S \in SUBSET Nat, NEW m \in S, \A n \in S : m <= n
    PROVE  Min(S) = m
<1> DEFINE z == Min(S)
<1>1. z \in S /\ z <= m
    BY MinFacts
<1> HIDE DEF z
<1>2. z = m
    BY <1>1
<1> QED BY <1>2 DEF z

Marked(g, h, ptr, v) ==
    /\ DOMAIN g = DOMAIN h
    /\ \A b \in DOMAIN h : /\ g[b].next = h[b].next /\ g[b].prev = h[b].prev
                           /\ g[b].used = IF b = ptr THEN v ELSE h[b].used

\* Only used is written.
LEMMA SetUsed ==
    ASSUME NEW h, Linked(h), NEW ptr \in DOMAIN h \ {ram_end}, NEW v \in BOOLEAN
    PROVE  Linked([h EXCEPT ![ptr].used = v]) /\ Marked([h EXCEPT ![ptr].used = v], h, ptr, v)
<1> DEFINE g == [h EXCEPT ![ptr].used = v]
<1>1. Typed(h) /\ \A b \in DOMAIN h : h[b] \in Block
    BY DEF Linked, Typed
<1>2. h = [b \in DOMAIN h |-> h[b]]
    BY <1>1 DEF Typed
<1>3. DOMAIN g = DOMAIN h /\ g[ptr] = [h[ptr] EXCEPT !.used = v]
      /\ \A b \in DOMAIN h \ {ptr} : g[b] = h[b]
    BY <1>2
<1>4. g = [b \in DOMAIN h |-> g[b]]
    BY <1>2
<1> HIDE DEF g
<1>5. ASSUME NEW b \in DOMAIN h
      PROVE  /\ g[b] \in Block /\ g[b].next = h[b].next /\ g[b].prev = h[b].prev
             /\ g[b].used = IF b = ptr THEN v ELSE h[b].used
  <2>1. CASE b = ptr
    <3>1. h[ptr] \in Block
        BY <1>1
    <3> QED BY <1>3, <2>1, <3>1 DEF Block
  <2>2. CASE b # ptr
      BY <1>1, <1>3, <2>2
  <2> QED BY <2>1, <2>2
<1>6. Typed(g)
    BY <1>1, <1>3, <1>4, <1>5 DEF Typed
<1>7. ASSUME NEW b \in DOMAIN g \ {ram_end} PROVE NextOK(g, b)
    BY <1>3, <1>5, <1>7 DEF Linked, NextOK
<1>8. ASSUME NEW b \in DOMAIN g \ {0, ram_end} PROVE PrevOK(g, b)
    BY <1>3, <1>5, <1>8 DEF Linked, PrevOK
<1>9. Linked(g)
    BY <1>1, <1>3, <1>5, <1>6, <1>7, <1>8 DEF Linked, Typed
<1> QED BY <1>3, <1>5, <1>9 DEF g, Marked

\* An unused block absorbs an unused block: lfree is neither lost nor moved.
LEMMA AbsorbUnused ==
    ASSUME NEW h, Linked(h), NEW l, IsLowest(l, h), NEW ptr \in DOMAIN h \ {ram_end},
           h[ptr].used = FALSE, h[ptr].next # ram_end, h[h[ptr].next].used = FALSE
    PROVE  /\ l # h[ptr].next
           /\ IsLowest(l, Absorb(h, ptr))
           /\ SameUsed(Absorb(h, ptr), h)
<1> DEFINE g == Absorb(h, ptr)
           gone == h[ptr].next
<1>0. Absorbed(g, h, ptr)
    BY AbsorbLinked
<1> HIDE DEF g
<1>1. /\ gone \in DOMAIN h /\ ptr < gone /\ DOMAIN g = DOMAIN h \ {gone}
      /\ \A b \in DOMAIN g : /\ g[b].used = h[b].used
                              /\ g[b].next = IF b = ptr THEN h[gone].next ELSE h[b].next
    BY <1>0 DEF Absorbed
<1>2. \A b \in DOMAIN h : b \in 0 .. MEM_SIZE
    BY DEF Linked, Typed, Offset
<1>3. ptr \in Unused(h) /\ l <= ptr
    BY DEF Unused, IsLowest
<1>4. l # gone
    BY <1>1, <1>2, <1>3
<1>5. Unused(g) = Unused(h) \ {gone}
    BY <1>1 DEF Unused
<1>6. IsLowest(l, g)
    BY <1>4, <1>5 DEF IsLowest
<1>7. UsedBlocks(g) = UsedBlocks(h) /\ ptr \notin UsedBlocks(h)
    BY <1>1 DEF UsedBlocks
<1>8. \A b \in UsedBlocks(h) : g[b].next = h[b].next
    BY <1>1, <1>7 DEF UsedBlocks
<1> QED BY <1>4, <1>6, <1>7, <1>8 DEF SameUsed, g
-----------------------------------------------------------------------------
(***************************************************************************)
(* The inductive invariant.                                                *)
(***************************************************************************)
HeldOK(h, hold) ==
    /\ hold \in [DOMAIN hold -> Requests]
    /\ UsedBlocks(h) = DOMAIN hold
    /\ \A b \in DOMAIN hold : Room(h, b) >= hold[b]

HeapInv ==
    /\ Linked(heap) /\ Plugged(heap) /\ IsLowest(lfree, heap)
    /\ HeldOK(heap, held)
    /\ denied \in Requests \cup {0} /\ aborted \in BOOLEAN
    /\ DeniedOnlyWithoutRoom

\* The room of a block is aligned and at least MIN_SIZE.
LEMMA RoomFacts ==
    ASSUME NEW h, Linked(h), NEW b \in DOMAIN h \ {ram_end}
    PROVE  /\ Room(h, b) \in MIN_SIZE .. MEM_SIZE /\ Room(h, b) % MEM_ALIGNMENT = 0
           /\ h[b].next = b + SIZEOF_STRUCT_MEM + Room(h, b)
           /\ b \in 0 .. MEM_SIZE /\ h[b].next \in 0 .. MEM_SIZE
<1> DEFINE A == MEM_ALIGNMENT
           next == h[b].next
<1>1. NextOK(h, b) /\ b \in Offset /\ next \in Offset
    BY DEF Linked, NextOK, Typed
<1>2. /\ A \in Nat /\ A > 0 /\ SIZEOF_STRUCT_MEM \in Int /\ SIZEOF_STRUCT_MEM % A = 0
    BY HeapAssumption
<1>3. next \in Int /\ b \in Int /\ next % A = 0 /\ b % A = 0
    BY <1>1, Sizes DEF Offset, Aligned
<1>4. next \in 0 .. MEM_SIZE /\ b \in 0 .. MEM_SIZE /\ next >= b + SIZEOF_STRUCT_MEM + MIN_SIZE
    BY <1>1 DEF Offset, NextOK
<1> HIDE DEF A, next
<1>5. (b + SIZEOF_STRUCT_MEM) % A = 0
    BY <1>2, <1>3, AlignedSum, Zenon
<1>9. b + SIZEOF_STRUCT_MEM \in Int
    BY <1>2, <1>3
<1>6. (next - (b + SIZEOF_STRUCT_MEM)) % A = 0
    BY <1>2, <1>3, <1>5, <1>9, AlignedSum, Zenon
<1>7. Room(h, b) = next - (b + SIZEOF_STRUCT_MEM)
    BY DEF Room, next
<1>8. Room(h, b) \in MIN_SIZE .. MEM_SIZE /\ next = b + SIZEOF_STRUCT_MEM + Room(h, b)
    BY <1>4, <1>7, Sizes
<1> QED BY <1>4, <1>6, <1>7, <1>8 DEF A, next

\* Where a block that is cut off begins.
LEMMA CutOffset ==
    ASSUME NEW h, Linked(h), NEW ptr \in DOMAIN h \ {ram_end}, NEW n \in Requests,
           BlockSize(n) <= Room(h, ptr)
    PROVE  ptr + SIZEOF_STRUCT_MEM + BlockSize(n) \in Offset
<1> DEFINE A == MEM_ALIGNMENT
           size == BlockSize(n)
<1>1. /\ A \in Nat /\ A > 0 /\ SIZEOF_STRUCT_MEM \in Int /\ SIZEOF_STRUCT_MEM % A = 0
    BY HeapAssumption
<1>2. ptr \in Nat /\ ptr \in Int /\ ptr % A = 0
    BY Sizes DEF Linked, Typed, Offset, Aligned
<1>3. size \in Nat /\ size \in Int /\ size % A = 0
    BY BlockSizeFacts
<1>4. size <= Room(h, ptr)
    OBVIOUS
<1> HIDE DEF A, size
<1>5. (ptr + SIZEOF_STRUCT_MEM) % A = 0
    BY <1>1, <1>2, AlignedSum, Zenon
<1>9. ptr + SIZEOF_STRUCT_MEM \in Int
    BY <1>1, <1>2
<1>6. (ptr + SIZEOF_STRUCT_MEM + size) % A = 0
    BY <1>1, <1>3, <1>5, <1>9, AlignedSum, Zenon
<1>7. ptr + SIZEOF_STRUCT_MEM + size \in 0 .. MEM_SIZE
    BY <1>2, <1>3, <1>4, RoomFacts, Sizes
<1>8. ptr + SIZEOF_STRUCT_MEM + size \in Nat
    BY <1>7, Sizes
<1> QED BY <1>6, <1>7, <1>8 DEF Offset, Aligned, A, size

\* mem_init: one free block, and lfree there.
LEMMA InitInv == mem_init => HeapInv
<1> SUFFICES ASSUME mem_init PROVE HeapInv
    OBVIOUS
<1>1. /\ DOMAIN heap = {0, ram_end} /\ ram_end # 0
      /\ heap[0] = [next |-> ram_end, prev |-> 0, used |-> FALSE]
      /\ heap[ram_end] = [next |-> ram_end, prev |-> ram_end, used |-> TRUE]
      /\ heap = [b \in DOMAIN heap |-> heap[b]]
    BY Sizes DEF mem_init, ram_end
<1>2. heap[0] \in Block /\ heap[ram_end] \in Block
    BY <1>1, Sizes DEF Block, ram_end
<1>3. {0, ram_end} \subseteq Offset
    BY HeapAssumption DEF Offset, Aligned, ram_end
<1>4. Typed(heap)
    BY <1>1, <1>2, <1>3 DEF Typed
<1>5. NextOK(heap, 0)
    BY <1>1, Sizes DEF NextOK, ram_end
<1>6. Linked(heap)
    BY <1>1, <1>4, <1>5 DEF Linked
<1>7. Plugged(heap)
    BY <1>1 DEF Plugged
<1>8. Unused(heap) = {0} /\ UsedBlocks(heap) = {}
    BY <1>1 DEF Unused, UsedBlocks
<1>9. lfree = 0 /\ held = << >> /\ denied = 0 /\ aborted = FALSE
    BY DEF mem_init
<1>10. IsLowest(lfree, heap)
    BY <1>8, <1>9 DEF IsLowest
<1>11. HeldOK(heap, held)
  <2>1. DOMAIN held = {} /\ held \in [{} -> Requests]
      BY <1>9
  <2> QED BY <1>8, <2>1 DEF HeldOK
<1> QED BY <1>6, <1>7, <1>9, <1>10, <1>11 DEF HeapInv, DeniedOnlyWithoutRoom

TakenOK(g, ptr, n) ==
    /\ Linked(g) /\ Plugged(g)
    /\ ptr \in Unused(heap) /\ ptr \notin Unused(g)
    /\ Unused(heap) \subseteq Unused(g) \cup {ptr}
    /\ \A b \in Unused(g) : b \in Unused(heap) \/ b > ptr
    /\ UsedBlocks(g) = UsedBlocks(heap) \cup {ptr}
    /\ Room(g, ptr) >= n
    /\ \A b \in UsedBlocks(heap) : Room(g, b) = Room(heap, b)

\* The two ways mem_malloc takes a block.
LEMMA TakenFacts ==
    ASSUME HeapInv, NEW n \in Requests, ~TooLarge(n), NEW ptr \in Fitting(BlockSize(n))
    PROVE  TakenOK(Taken(ptr, BlockSize(n)), ptr, n)
<1> DEFINE size == BlockSize(n)
           ptr2 == ptr + SIZEOF_STRUCT_MEM + size
           h == Insert(heap, ptr, ptr2)
           g == Taken(ptr, size)
<1>1. /\ Linked(heap) /\ Plugged(heap) /\ IsLowest(lfree, heap)
      /\ \A b \in DOMAIN heap : b \in 0 .. MEM_SIZE
      /\ heap[ram_end].used = TRUE
      /\ \A b \in DOMAIN heap : heap[b].used \in BOOLEAN
    BY DEF HeapInv, Linked, Typed, Offset, Block
<1>2. /\ ptr \in DOMAIN heap \ {ram_end} /\ heap[ptr].used = FALSE /\ Room(heap, ptr) >= size
    BY <1>1 DEF Fitting
<1>3. size \in Nat /\ size >= MIN_SIZE /\ size >= n /\ n \in Nat
    BY BlockSizeFacts, HeapAssumption DEF TooLarge
<1>4. /\ Room(heap, ptr) \in MIN_SIZE .. MEM_SIZE
      /\ heap[ptr].next = ptr + SIZEOF_STRUCT_MEM + Room(heap, ptr)
    BY <1>1, <1>2, RoomFacts
<1>5. ptr \in Unused(heap)
    BY <1>2 DEF Unused
<1>6. heap[heap[ptr].next].used = TRUE /\ heap[ptr].next \in DOMAIN heap /\ heap[ptr].next # ptr
    BY <1>1, <1>2, <1>4, Sizes DEF Plugged, Linked, NextOK
<1>7. CASE Room(heap, ptr) >= size + SIZEOF_STRUCT_MEM + MIN_SIZE
  <2>1. ptr2 \in Offset
      BY <1>1, <1>2, CutOffset
  <2>2. /\ ptr + SIZEOF_STRUCT_MEM + MIN_SIZE <= ptr2
        /\ ptr2 + SIZEOF_STRUCT_MEM + MIN_SIZE <= heap[ptr].next
        /\ ptr < ptr2 /\ ptr \in Nat /\ ptr2 \in Nat
      BY <1>1, <1>2, <1>3, <1>4, <1>7, Sizes
  <2>3. Linked(h) /\ Inserted(h, heap, ptr, ptr2) /\ ptr2 \notin DOMAIN heap
      BY <1>1, <1>2, <2>1, <2>2, InsertLinked
  <2>4. g = [h EXCEPT ![ptr].used = TRUE]
      BY <1>7 DEF Taken, Use
  <2>5. ptr2 = ptr + SIZEOF_STRUCT_MEM + size
      OBVIOUS
  <2> HIDE DEF h, ptr2, g
  <2>6. /\ DOMAIN h = DOMAIN heap \cup {ptr2}
        /\ h[ptr2].next = heap[ptr].next /\ h[ptr2].used = FALSE
        /\ \A b \in DOMAIN heap : /\ h[b].used = heap[b].used
                                   /\ h[b].next = IF b = ptr THEN ptr2 ELSE heap[b].next
      BY <2>3 DEF Inserted
  <2>7. /\ Linked(g) /\ DOMAIN g = DOMAIN h
        /\ \A b \in DOMAIN h : /\ g[b].next = h[b].next
                                /\ g[b].used = IF b = ptr THEN TRUE ELSE h[b].used
    <3>1. ptr \in DOMAIN h \ {ram_end}
        BY <1>2, <2>6
    <3>2. Linked(g) /\ Marked(g, h, ptr, TRUE)
        BY <2>3, <2>4, <3>1, SetUsed
    <3> QED BY <3>2 DEF Marked
  <2>8. /\ DOMAIN g = DOMAIN heap \cup {ptr2}
        /\ g[ptr2].next = heap[ptr].next /\ g[ptr2].used = FALSE
        /\ g[ptr].next = ptr2 /\ g[ptr].used = TRUE
        /\ \A b \in DOMAIN heap \ {ptr} : g[b].used = heap[b].used /\ g[b].next = heap[b].next
      BY <1>2, <2>3, <2>6, <2>7
  <2>9. ASSUME NEW b \in DOMAIN g \ {ram_end} PROVE g[b].used \/ g[g[b].next].used
    <3>1. CASE b = ptr
        BY <2>8, <3>1
    <3>2. CASE b = ptr2
        BY <1>6, <2>8, <3>2
    <3>3. CASE b # ptr /\ b # ptr2
      <4>1. /\ b \in DOMAIN heap \ {ram_end} /\ heap[b].next \in DOMAIN heap
            /\ heap[b].used \/ heap[heap[b].next].used
          BY <1>1, <2>8, <3>3 DEF Plugged, Linked, NextOK
      <4> QED BY <2>8, <3>3, <4>1
    <3> QED BY <3>1, <3>2, <3>3
  <2>10. Plugged(g)
      BY <2>9 DEF Plugged
  <2>11. ptr2 # ram_end
      BY <2>3 DEF Linked, Typed, Inserted
  <2>12. Unused(g) = (Unused(heap) \ {ptr}) \cup {ptr2}
      BY <1>2, <2>3, <2>8, <2>11 DEF Unused
  <2>13. UsedBlocks(g) = UsedBlocks(heap) \cup {ptr}
      BY <1>2, <2>3, <2>8, <2>11 DEF UsedBlocks
  <2>14. Room(g, ptr) = size
      BY <2>2, <2>5, <2>8, <1>3, Sizes DEF Room
  <2>15. \A b \in UsedBlocks(heap) : Room(g, b) = Room(heap, b)
      BY <1>2, <2>8 DEF Room, UsedBlocks
  <2>16. ptr \notin Unused(g)
      BY <2>8 DEF Unused
  <2> QED BY <1>3, <1>5, <2>2, <2>7, <2>10, <2>12, <2>13, <2>14, <2>15, <2>16 DEF g, TakenOK
<1>8. CASE ~(Room(heap, ptr) >= size + SIZEOF_STRUCT_MEM + MIN_SIZE)
  <2>1. g = [heap EXCEPT ![ptr].used = TRUE]
      BY <1>8 DEF Taken, Use
  <2> HIDE DEF g
  <2>2. /\ Linked(g) /\ DOMAIN g = DOMAIN heap
        /\ \A b \in DOMAIN heap : /\ g[b].next = heap[b].next
                                   /\ g[b].used = IF b = ptr THEN TRUE ELSE heap[b].used
    <3>1. Linked(g) /\ Marked(g, heap, ptr, TRUE)
        BY <1>1, <1>2, <2>1, SetUsed
    <3> QED BY <3>1 DEF Marked
  <2>3. ASSUME NEW b \in DOMAIN g \ {ram_end} PROVE g[b].used \/ g[g[b].next].used
    <3>1. /\ heap[b].next \in DOMAIN heap
          /\ heap[b].used \/ heap[heap[b].next].used
        BY <1>1, <2>2 DEF Plugged, Linked, NextOK
    <3> QED BY <2>2, <3>1
  <2>4. Plugged(g)
      BY <2>3 DEF Plugged
  <2>5. Unused(g) = Unused(heap) \ {ptr}
      BY <1>2, <2>2 DEF Unused
  <2>6. UsedBlocks(g) = UsedBlocks(heap) \cup {ptr}
      BY <1>2, <2>2 DEF UsedBlocks
  <2>7. \A b \in DOMAIN heap : Room(g, b) = Room(heap, b)
      BY <2>2 DEF Room
  <2>8. Room(g, ptr) >= n /\ \A b \in UsedBlocks(heap) : Room(g, b) = Room(heap, b)
      BY <1>2, <1>3, <1>4, <2>7, Sizes DEF UsedBlocks
  <2> QED BY <1>5, <2>2, <2>4, <2>5, <2>6, <2>8 DEF g, TakenOK
<1> QED BY <1>7, <1>8

\* mem_malloc keeps the invariant.
LEMMA MallocInv ==
    ASSUME HeapInv, NEW n \in Requests, mem_malloc(n)
    PROVE  HeapInv'
<1> DEFINE size == BlockSize(n)
           ptr == Min(Fitting(size))
<1>1. /\ Linked(heap) /\ IsLowest(lfree, heap) /\ HeldOK(heap, held)
      /\ \A b \in DOMAIN heap : b \in 0 .. MEM_SIZE
      /\ n \in Nat /\ n # 0
    BY HeapAssumption DEF HeapInv, Linked, Typed, Offset
<1>2. CASE TooLarge(n) \/ Fitting(size) = {}
  <2>1. denied' = n /\ UNCHANGED <<heap, lfree, held, aborted>>
      BY <1>2 DEF mem_malloc
  <2>2. ASSUME NEW b \in Unused(heap), Room(heap, b) >= n PROVE FALSE
    <3>1. b \in DOMAIN heap \ {ram_end} /\ ~heap[b].used /\ lfree <= b
        BY <1>1 DEF Unused, IsLowest
    <3>2. /\ Room(heap, b) \in MIN_SIZE .. MEM_SIZE /\ Room(heap, b) % MEM_ALIGNMENT = 0
          /\ heap[b].next = b + SIZEOF_STRUCT_MEM + Room(heap, b)
          /\ b \in 0 .. MEM_SIZE /\ heap[b].next \in 0 .. MEM_SIZE
        BY <1>1, <3>1, RoomFacts
    <3>3. n <= size /\ size <= Room(heap, b) /\ size \in Nat
        BY <2>2, <3>2, BlockSizeFacts
    <3>4. ~TooLarge(n)
        BY <1>1, <3>2, <3>3, Sizes DEF TooLarge
    <3>5. b < MEM_SIZE - size
        BY <3>2, <3>3, Sizes, HeapAssumption
    <3>6. b \in Fitting(size)
        BY <3>1, <3>2, <3>3, <3>5, Sizes DEF Fitting
    <3> QED BY <1>2, <3>4, <3>6
  <2>3. ASSUME NEW b \in Unused(heap) PROVE Room(heap, b) < n
    <3>1. Room(heap, b) \in Nat
        BY <1>1, RoomFacts, Sizes DEF Unused
    <3> QED BY <1>1, <2>2, <3>1
  <2>4. DeniedOnlyWithoutRoom'
      BY <2>1, <2>3 DEF DeniedOnlyWithoutRoom
  <2> QED BY <2>1, <2>4 DEF HeapInv
<1>3. CASE ~(TooLarge(n) \/ Fitting(size) = {})
  <2>1. /\ heap' = Taken(ptr, size)
        /\ lfree' = IF ptr = lfree THEN NextUnused(heap', ptr) ELSE lfree
        /\ held' = [b \in DOMAIN held \cup {ptr} |-> IF b = ptr THEN n ELSE held[b]]
        /\ denied' = 0 /\ aborted' = aborted
      BY <1>3 DEF mem_malloc
  <2>2. ptr \in Fitting(size)
    <3>1. Fitting(size) \in SUBSET Nat
        BY <1>1, Sizes DEF Fitting
    <3> QED BY <1>3, <3>1, MinFacts
  <2> HIDE DEF ptr
  <2>3. TakenOK(heap', ptr, n)
      BY <1>3, <2>1, <2>2, TakenFacts
  <2>4. lfree <= ptr /\ ptr \in DOMAIN heap
      BY <2>2 DEF Fitting
  <2>5. \A b \in DOMAIN heap' : b \in Nat
      BY <2>3, Sizes DEF TakenOK, Linked, Typed, Offset
  <2>6. ram_end \in Nat /\ ptr \in Nat /\ lfree \in Nat /\ ram_end >= ptr
      BY <1>1, <2>4, Sizes DEF ram_end, IsLowest, Unused
  <2>7. IsLowest(lfree', heap')
    <3>1. CASE ptr = lfree
      <4> DEFINE S == {b \in Unused(heap') \cup {ram_end} : b >= ptr}
      <4>1. S \in SUBSET Nat /\ ram_end \in S
          BY <2>5, <2>6 DEF Unused
      <4>2. lfree' = Min(S)
          BY <2>1, <3>1 DEF NextUnused
      <4> HIDE DEF S
      <4>3. lfree' \in S /\ \A b \in S : lfree' <= b
          BY <4>1, <4>2, MinFacts
      <4>4. \A b \in Unused(heap') : b >= ptr
          BY <1>1, <2>3, <2>5, <2>6, <3>1 DEF TakenOK, IsLowest, Unused
      <4> QED BY <4>3, <4>4 DEF IsLowest, S
    <3>2. CASE ptr # lfree
      <4>1. lfree' = lfree /\ lfree < ptr
          BY <2>1, <2>4, <2>6, <3>2
      <4>2. lfree \in Unused(heap)
          BY <1>1, <2>6, <4>1 DEF IsLowest
      <4>3. lfree \in Unused(heap')
          BY <2>3, <3>2, <4>2 DEF TakenOK
      <4>4. \A b \in Unused(heap') : lfree <= b
          BY <1>1, <2>3, <2>5, <2>6, <4>1 DEF TakenOK, IsLowest, Unused
      <4> QED BY <4>1, <4>3, <4>4 DEF IsLowest
    <3> QED BY <3>1, <3>2
  <2>8. HeldOK(heap', held')
    <3>1. held \in [DOMAIN held -> Requests] /\ UsedBlocks(heap) = DOMAIN held
        BY <1>1 DEF HeldOK
    <3>2. ptr \notin DOMAIN held
        BY <2>3, <3>1 DEF TakenOK, Unused, UsedBlocks
    <3>3. /\ DOMAIN held' = DOMAIN held \cup {ptr} /\ held' \in [DOMAIN held' -> Requests]
          /\ held'[ptr] = n /\ \A b \in DOMAIN held : held'[b] = held[b]
        BY <2>1, <3>1, <3>2
    <3>4. \A b \in DOMAIN held' : Room(heap', b) >= held'[b]
        BY <1>1, <2>3, <3>1, <3>3 DEF TakenOK, HeldOK
    <3> QED BY <2>3, <3>1, <3>3, <3>4 DEF HeldOK, TakenOK
  <2>9. DeniedOnlyWithoutRoom'
      BY <2>1 DEF DeniedOnlyWithoutRoom
  <2>10. Linked(heap)' /\ Plugged(heap)'
      BY <2>3 DEF TakenOK
  <2> QED BY <2>1, <2>7, <2>8, <2>9, <2>10 DEF HeapInv
<1> QED BY <1>2, <1>3

\* The heap while mem_free plugs holes: the blocks in use are settled, and two
\* unused blocks in a row are left at most around ptr.
Plugging(s, used, ptr) ==
    /\ Linked(s.heap) /\ IsLowest(s.lfree, s.heap)
    /\ ptr \in DOMAIN s.heap \ {ram_end} /\ s.heap[ptr].used = FALSE
    /\ SameUsed(s.heap, used)
    /\ \A b \in DOMAIN s.heap \ {ram_end} :
          s.heap[b].used \/ s.heap[s.heap[b].next].used \/ b = ptr \/ s.heap[b].next = ptr

NotBefore(h, ptr) ==
    \A b \in DOMAIN h \ {ram_end} : h[b].used \/ h[h[b].next].used \/ h[b].next = ptr

\* The hole after ptr is plugged.
LEMMA ForwardFacts ==
    ASSUME NEW h, NEW l, NEW used, NEW ptr, Plugging([heap |-> h, lfree |-> l], used, ptr)
    PROVE  LET s == PlugForward([heap |-> h, lfree |-> l], ptr)
           IN  /\ s = [heap |-> s.heap, lfree |-> s.lfree]
               /\ Plugging(s, used, ptr) /\ NotBefore(s.heap, ptr)
<1> DEFINE s == PlugForward([heap |-> h, lfree |-> l], ptr)
           next == h[ptr].next
           g == Absorb(h, ptr)
<1>1. /\ Linked(h) /\ IsLowest(l, h) /\ ptr \in DOMAIN h \ {ram_end} /\ h[ptr].used = FALSE
      /\ SameUsed(h, used)
      /\ \A b \in DOMAIN h \ {ram_end} :
            h[b].used \/ h[h[b].next].used \/ b = ptr \/ h[b].next = ptr
    BY DEF Plugging
<1>2. /\ \A b \in DOMAIN h \ {ram_end} : h[b].next \in DOMAIN h
      /\ \A b \in DOMAIN h : h[b].used \in BOOLEAN
      /\ h[ram_end].used = TRUE /\ ram_end \in DOMAIN h
    BY <1>1 DEF Linked, NextOK, Typed, Block
<1>3. CASE next # ram_end /\ ~h[next].used
  <2>1. s = [heap |-> g, lfree |-> IF l = next THEN ptr ELSE l]
      BY <1>3 DEF PlugForward
  <2>2. h[next].used = FALSE
      BY <1>1, <1>2, <1>3
  <2>3. l # next /\ IsLowest(l, g) /\ SameUsed(g, h)
      BY <1>1, <1>3, <2>2, AbsorbUnused
  <2>4. Linked(g) /\ Absorbed(g, h, ptr)
      BY <1>1, <1>3, AbsorbLinked
  <2> HIDE DEF g, s
  <2>5. s.heap = g /\ s.lfree = l /\ s = [heap |-> s.heap, lfree |-> s.lfree]
      BY <2>1, <2>3
  <2>6. /\ next \in DOMAIN h /\ ptr < next /\ DOMAIN g = DOMAIN h \ {next}
        /\ \A b \in DOMAIN g : /\ g[b].used = h[b].used
                                /\ g[b].next = IF b = ptr THEN h[next].next ELSE h[b].next
      BY <2>4 DEF Absorbed
  <2>7. SameUsed(g, used)
      BY <1>1, <2>3 DEF SameUsed
  <2>8. ptr \in DOMAIN g \ {ram_end} /\ g[ptr].used = FALSE /\ ram_end \in DOMAIN g
    <3>1. ptr # next
        BY <1>1, <2>6 DEF Linked, Typed, Offset
    <3> QED BY <1>1, <1>2, <1>3, <2>6, <3>1
  <2>9. ASSUME NEW b \in DOMAIN g \ {ram_end} PROVE g[b].used \/ g[g[b].next].used \/ g[b].next = ptr
    <3>0. g[b].next \in DOMAIN g
        BY <2>4 DEF Linked, NextOK
    <3>1. CASE b = ptr
      <4>1. h[next].next # ptr /\ (h[h[next].next].used \/ next = ptr)
        <5>1. NextOK(h, ptr) /\ NextOK(h, next)
            BY <1>1, <1>3, <2>6 DEF Linked
        <5>2. ptr \in Nat /\ next \in Nat /\ h[next].next \in Nat /\ next < h[next].next
            BY <1>1, <2>6, <5>1, Sizes DEF NextOK, Linked, Typed, Offset
        <5> QED BY <1>1, <1>3, <2>2, <2>6, <5>2
      <4>2. next # ptr
          BY <1>1, <2>6 DEF Linked, Typed, Offset
      <4> QED BY <2>6, <3>0, <3>1, <4>1, <4>2
    <3>2. CASE b # ptr
      <4>1. g[b].next = h[b].next /\ g[b].used = h[b].used /\ b \in DOMAIN h \ {ram_end}
          BY <2>6, <3>2
      <4> QED BY <1>1, <2>6, <3>0, <3>2, <4>1
    <3> QED BY <3>1, <3>2
  <2> QED BY <2>3, <2>4, <2>5, <2>7, <2>8, <2>9 DEF Plugging, NotBefore, s
<1>4. CASE ~(next # ram_end /\ ~h[next].used)
  <2>1. s = [heap |-> h, lfree |-> l]
      BY <1>4 DEF PlugForward
  <2>2. h[next].used
      BY <1>2, <1>4
  <2> HIDE DEF s
  <2>3. s.heap = h /\ s.lfree = l
      BY <2>1
  <2>4. NotBefore(h, ptr)
      BY <1>1, <2>2 DEF NotBefore
  <2> QED BY <2>1, <2>3, <2>4 DEF s
<1> QED BY <1>3, <1>4

\* The hole before ptr is plugged, and with it the last one.
LEMMA BackwardFacts ==
    ASSUME NEW h, NEW l, NEW used, NEW ptr, Plugging([heap |-> h, lfree |-> l], used, ptr),
           NotBefore(h, ptr)
    PROVE  LET s == PlugBackward([heap |-> h, lfree |-> l], ptr)
           IN  Linked(s.heap) /\ IsLowest(s.lfree, s.heap) /\ SameUsed(s.heap, used) /\ Plugged(s.heap)
<1> DEFINE s == PlugBackward([heap |-> h, lfree |-> l], ptr)
           prev == h[ptr].prev
           g == Absorb(h, prev)
<1>1. /\ Linked(h) /\ IsLowest(l, h) /\ ptr \in DOMAIN h \ {ram_end} /\ h[ptr].used = FALSE
      /\ SameUsed(h, used)
    BY DEF Plugging
<1>2. /\ \A b \in DOMAIN h \ {ram_end} : h[b].next \in DOMAIN h
      /\ \A b \in DOMAIN h : h[b].used \in BOOLEAN
      /\ h[ram_end].used = TRUE /\ ram_end \in DOMAIN h
    BY <1>1 DEF Linked, NextOK, Typed, Block
<1>3. CASE prev # ptr /\ ~h[prev].used
  <2>1. s = [heap |-> g, lfree |-> IF l = ptr THEN prev ELSE l]
      BY <1>3 DEF PlugBackward
  <2>2. ptr # 0
      BY <1>1, <1>3 DEF Linked
  <2>3. prev \in DOMAIN h \ {ram_end} /\ h[prev].next = ptr
      BY <1>1, <2>2 DEF Linked, PrevOK
  <2>4. h[prev].used = FALSE
      BY <1>2, <1>3, <2>3
  <2>5. l # ptr /\ IsLowest(l, g) /\ SameUsed(g, h)
      BY <1>1, <2>3, <2>4, AbsorbUnused
  <2>6. Linked(g) /\ Absorbed(g, h, prev)
      BY <1>1, <2>3, AbsorbLinked
  <2> HIDE DEF g, s, prev
  <2>7. s.heap = g /\ s.lfree = l
      BY <2>1, <2>5
  <2>8. /\ DOMAIN g = DOMAIN h \ {ptr}
        /\ \A b \in DOMAIN g : /\ g[b].used = h[b].used
                                /\ g[b].next = IF b = prev THEN h[ptr].next ELSE h[b].next
      BY <2>3, <2>6 DEF Absorbed
  <2>9. SameUsed(g, used)
      BY <1>1, <2>5 DEF SameUsed
  <2>10. ASSUME NEW b \in DOMAIN g \ {ram_end} PROVE g[b].used \/ g[g[b].next].used
    <3>1. g[b].next \in DOMAIN g
        BY <2>6 DEF Linked, NextOK
    <3>2. CASE b = prev
      <4>1. h[ptr].next \in DOMAIN g
          BY <2>8, <3>1, <3>2
      <4>2. h[h[ptr].next].used
          BY <1>1, <2>8, <4>1 DEF NotBefore
      <4> QED BY <2>8, <3>2, <4>1, <4>2
    <3>3. CASE b # prev
      <4>1. g[b].next = h[b].next /\ g[b].used = h[b].used /\ b \in DOMAIN h \ {ram_end}
          BY <2>8, <3>3
      <4> QED BY <2>8, <3>1, <4>1 DEF NotBefore
    <3> QED BY <3>2, <3>3
  <2>11. Plugged(g)
      BY <2>10 DEF Plugged
  <2> QED BY <2>5, <2>6, <2>7, <2>9, <2>11 DEF s
<1>4. CASE ~(prev # ptr /\ ~h[prev].used)
  <2>1. s = [heap |-> h, lfree |-> l]
      BY <1>4 DEF PlugBackward
  <2> HIDE DEF s
  <2>2. s.heap = h /\ s.lfree = l
      BY <2>1
  <2>3. ASSUME NEW b \in DOMAIN h \ {ram_end}, ~h[b].used PROVE h[h[b].next].used
    <3>1. SUFFICES ASSUME h[b].next = ptr PROVE FALSE
        BY <2>3 DEF NotBefore
    <3>2. NextOK(h, b) /\ prev = b
        BY <1>1, <3>1 DEF Linked, NextOK
    <3>3. b # ptr
        BY <1>1, <3>1, <3>2, Sizes DEF NextOK, Linked, Typed, Offset
    <3> QED BY <1>4, <2>3, <3>2, <3>3
  <2>4. Plugged(h)
      BY <2>3 DEF Plugged
  <2> QED BY <1>1, <2>2, <2>4 DEF s
<1> QED BY <1>3, <1>4

\* mem_free keeps the invariant.
LEMMA FreeInv ==
    ASSUME HeapInv, NEW ptr \in DOMAIN held, mem_free(ptr)
    PROVE  HeapInv'
<1> DEFINE h0 == [heap EXCEPT ![ptr].used = FALSE]
           l0 == IF ptr < lfree THEN ptr ELSE lfree
           s0 == [heap |-> h0, lfree |-> l0]
           s1 == PlugForward(s0, ptr)
           s2 == PlugBackward(s1, ptr)
<1>1. /\ Linked(heap) /\ Plugged(heap) /\ IsLowest(lfree, heap)
      /\ held \in [DOMAIN held -> Requests] /\ UsedBlocks(heap) = DOMAIN held
      /\ \A b \in DOMAIN held : Room(heap, b) >= held[b]
    BY DEF HeapInv, HeldOK
<1>2. ptr \in DOMAIN heap \ {ram_end}
    BY <1>1 DEF UsedBlocks
<1>3. Linked(h0) /\ Marked(h0, heap, ptr, FALSE)
    BY <1>1, <1>2, SetUsed
<1>4. /\ heap' = s2.heap /\ lfree' = s2.lfree
      /\ held' = [b \in DOMAIN held \ {ptr} |-> held[b]] /\ denied' = 0
      /\ aborted' = aborted
    BY DEF mem_free, plug_holes
<1> HIDE DEF h0
<1>5. /\ DOMAIN h0 = DOMAIN heap
      /\ \A b \in DOMAIN heap : /\ h0[b].next = heap[b].next
                                 /\ h0[b].used = IF b = ptr THEN FALSE ELSE heap[b].used
    BY <1>3 DEF Marked
<1>6. Unused(h0) = Unused(heap) \cup {ptr} /\ UsedBlocks(h0) = UsedBlocks(heap) \ {ptr}
    BY <1>2, <1>5 DEF Unused, UsedBlocks
<1>7. IsLowest(l0, h0)
  <2>1. \A b \in DOMAIN heap : b \in Nat
      BY <1>1, Sizes DEF Linked, Typed, Offset
  <2>2. lfree \in Nat /\ lfree \in Unused(heap) \cup {ram_end} /\ \A b \in Unused(heap) : lfree <= b
      BY <1>1, <2>1, Sizes DEF IsLowest, Unused, ram_end
  <2> QED BY <1>2, <1>6, <2>1, <2>2 DEF IsLowest, Unused
<1>8. ASSUME NEW b \in DOMAIN h0 \ {ram_end}
      PROVE  h0[b].used \/ h0[h0[b].next].used \/ b = ptr \/ h0[b].next = ptr
  <2>1. heap[b].next \in DOMAIN heap /\ (heap[b].used \/ heap[heap[b].next].used)
      BY <1>1, <1>5 DEF Plugged, Linked, NextOK
  <2> QED BY <1>5, <2>1
<1> HIDE DEF l0
<1>9. s0.heap = h0 /\ s0.lfree = l0
    OBVIOUS
<1>10. Plugging(s0, h0, ptr)
    BY <1>2, <1>3, <1>5, <1>7, <1>8, <1>9 DEF Plugging, SameUsed
<1>11. /\ s1 = [heap |-> s1.heap, lfree |-> s1.lfree]
       /\ Plugging(s1, h0, ptr) /\ NotBefore(s1.heap, ptr)
    BY <1>10, ForwardFacts
<1> HIDE DEF s1
<1>12. /\ Linked(s2.heap) /\ IsLowest(s2.lfree, s2.heap)
       /\ SameUsed(s2.heap, h0) /\ Plugged(s2.heap)
  <2> DEFINE h1 == s1.heap
             l1 == s1.lfree
  <2>1. s1 = [heap |-> h1, lfree |-> l1] /\ NotBefore(h1, ptr)
      BY <1>11
  <2> HIDE DEF h1, l1
  <2>2. Plugging([heap |-> h1, lfree |-> l1], h0, ptr)
      BY <1>11, <2>1
  <2>3. s2 = PlugBackward([heap |-> h1, lfree |-> l1], ptr)
      BY <2>1
  <2> HIDE DEF s2
  <2> QED BY <2>1, <2>2, <2>3, BackwardFacts
<1> HIDE DEF s2
<1>13. UsedBlocks(heap') = DOMAIN held \ {ptr}
    BY <1>1, <1>4, <1>6, <1>12 DEF SameUsed
<1>14. \A b \in DOMAIN held \ {ptr} : heap'[b].next = heap[b].next
    BY <1>1, <1>4, <1>5, <1>6, <1>12 DEF SameUsed, UsedBlocks
<1>15. /\ DOMAIN held' = DOMAIN held \ {ptr} /\ held' \in [DOMAIN held' -> Requests]
       /\ \A b \in DOMAIN held' : held'[b] = held[b]
    BY <1>1, <1>4
<1>16. \A b \in DOMAIN held' : Room(heap', b) >= held'[b]
    BY <1>1, <1>14, <1>15 DEF Room
<1>17. HeldOK(heap', held')
    BY <1>13, <1>15, <1>16 DEF HeldOK
<1>18. DeniedOnlyWithoutRoom'
    BY <1>4 DEF DeniedOnlyWithoutRoom
<1>19. (Linked(heap) /\ Plugged(heap) /\ IsLowest(lfree, heap))'
    BY <1>4, <1>12
<1> QED BY <1>4, <1>17, <1>18, <1>19 DEF HeapInv

\* mem_trim keeps the invariant when it returns.
LEMMA TrimInv ==
    ASSUME HeapInv, NEW ptr \in DOMAIN held, NEW n \in Requests, n <= held[ptr], mem_trim(ptr, n)
    PROVE  HeapInv'
<1> DEFINE size == BlockSize(n)
           ptr2 == ptr + SIZEOF_STRUCT_MEM + size
           next == heap[ptr].next
<1>1. /\ Linked(heap) /\ Plugged(heap) /\ IsLowest(lfree, heap)
      /\ held \in [DOMAIN held -> Requests] /\ UsedBlocks(heap) = DOMAIN held
      /\ \A b \in DOMAIN held : Room(heap, b) >= held[b]
      /\ \A b \in DOMAIN heap : b \in Nat
    BY Sizes DEF HeapInv, HeldOK, Linked, Typed, Offset
<1>2. ptr \in DOMAIN heap \ {ram_end} /\ heap[ptr].used /\ ptr \in UsedBlocks(heap)
    BY <1>1 DEF UsedBlocks
<1>3. /\ Room(heap, ptr) \in MIN_SIZE .. MEM_SIZE /\ Room(heap, ptr) % MEM_ALIGNMENT = 0
      /\ next = ptr + SIZEOF_STRUCT_MEM + Room(heap, ptr)
    BY <1>1, <1>2, RoomFacts
<1>4. n \in Nat /\ held[ptr] \in Nat /\ n <= Room(heap, ptr)
    BY <1>1, <1>3, Sizes, HeapAssumption
<1>5. size \in Nat /\ size >= MIN_SIZE /\ n <= size /\ size <= Room(heap, ptr)
    BY <1>3, <1>4, BlockSizeFacts
<1>6. ptr2 \in Offset /\ ptr2 \in Nat
    BY <1>1, <1>2, <1>3, <1>5, CutOffset, Sizes DEF Offset
<1>7. held' = [held EXCEPT ![ptr] = n] /\ denied' = 0 /\ aborted' = aborted
    BY DEF mem_trim
<1>8. DeniedOnlyWithoutRoom'
    BY <1>7 DEF DeniedOnlyWithoutRoom
<1>9. /\ DOMAIN held' = DOMAIN held /\ held' \in [DOMAIN held' -> Requests]
      /\ held'[ptr] = n /\ \A b \in DOMAIN held \ {ptr} : held'[b] = held[b]
    BY <1>1, <1>7
<1>10. ptr2 = ptr + SIZEOF_STRUCT_MEM + size /\ NextOK(heap, ptr) /\ next \in DOMAIN heap /\ ptr < next
    BY <1>1, <1>2, <1>3, Sizes DEF Linked, NextOK
\* What remains of the invariant, from the heap that mem_trim leaves.
<1>11. ASSUME Linked(heap'), Plugged(heap'), IsLowest(lfree', heap'),
              UsedBlocks(heap') = UsedBlocks(heap),
              \A b \in UsedBlocks(heap) \ {ptr} : heap'[b].next = heap[b].next,
              Room(heap', ptr) >= n
       PROVE  HeapInv'
  <2>1. \A b \in DOMAIN held' : Room(heap', b) >= held'[b]
      BY <1>1, <1>9, <1>11 DEF Room
  <2>2. HeldOK(heap', held')
      BY <1>1, <1>9, <1>11, <2>1 DEF HeldOK
  <2> QED BY <1>7, <1>8, <1>11, <2>2 DEF HeapInv
<1>12. CASE UNCHANGED <<heap, lfree>>
  <2>1. Room(heap', ptr) >= n
      BY <1>4, <1>12
  <2> QED BY <1>1, <1>11, <1>12, <2>1
<1>13. CASE /\ size # Room(heap, ptr) /\ ~heap[next].used
            /\ heap' = Insert(Absorb(heap, ptr), ptr, ptr2)
            /\ lfree' = IF lfree = next THEN ptr2 ELSE lfree
  <2> DEFINE h == Absorb(heap, ptr)
  <2>1. next # ram_end
      BY <1>1, <1>13 DEF Linked
  <2>2. Linked(h) /\ Absorbed(h, heap, ptr)
      BY <1>1, <1>2, <2>1, AbsorbLinked
  <2> HIDE DEF h
  <2>3. /\ DOMAIN h = DOMAIN heap \ {next}
        /\ \A b \in DOMAIN h : /\ h[b].used = heap[b].used
                                /\ h[b].next = IF b = ptr THEN heap[next].next ELSE heap[b].next
      BY <2>2 DEF Absorbed
  <2>4. /\ NextOK(heap, next) /\ heap[next].next \in Nat /\ heap[next].next \in DOMAIN heap
        /\ next < heap[next].next
      BY <1>1, <1>10, <2>1, Sizes DEF Linked, NextOK
  <2>5. ptr \in DOMAIN h \ {ram_end} /\ h[ptr].next = heap[next].next
      BY <1>1, <1>2, <1>10, <2>3
  <2>6. /\ ptr + SIZEOF_STRUCT_MEM + MIN_SIZE <= ptr2 /\ ptr2 < next
        /\ ptr2 + SIZEOF_STRUCT_MEM + MIN_SIZE <= h[ptr].next
      BY <1>1, <1>2, <1>3, <1>5, <1>6, <1>10, <1>13, <2>4, <2>5, Sizes DEF NextOK
  <2> HIDE DEF ptr2
  <2>7. Linked(heap') /\ Inserted(heap', h, ptr, ptr2) /\ ptr2 \notin DOMAIN h
      BY <1>6, <1>13, <2>2, <2>5, <2>6, InsertLinked DEF h
  <2>8. ptr2 \notin DOMAIN heap
      BY <1>1, <1>6, <2>3, <2>6, <2>7, <1>10
  <2>9. /\ DOMAIN heap' = (DOMAIN heap \ {next}) \cup {ptr2}
        /\ heap'[ptr2].next = heap[next].next /\ heap'[ptr2].used = FALSE
        /\ heap'[ptr].next = ptr2 /\ heap'[ptr].used = heap[ptr].used
        /\ \A b \in DOMAIN heap \ {next, ptr} :
              heap'[b].used = heap[b].used /\ heap'[b].next = heap[b].next
    <3>1. /\ DOMAIN heap' = DOMAIN h \cup {ptr2}
          /\ heap'[ptr2].next = h[ptr].next /\ heap'[ptr2].used = FALSE
          /\ \A b \in DOMAIN h : /\ heap'[b].used = h[b].used
                                  /\ heap'[b].next = IF b = ptr THEN ptr2 ELSE h[b].next
        BY <2>7 DEF Inserted
    <3> HIDE DEF next
    <3> QED BY <2>3, <2>5, <3>1
  <2>10. next # ptr /\ ptr # ptr2 /\ ram_end \in DOMAIN heap /\ ptr2 # ram_end
      BY <1>1, <1>2, <1>10, <2>8 DEF Linked, Typed
  <2>11. /\ Unused(heap') = (Unused(heap) \ {next}) \cup {ptr2}
         /\ UsedBlocks(heap') = UsedBlocks(heap) /\ next \in Unused(heap)
    <3>1. ~heap[next].used
        BY <1>13
    <3>2. next \in DOMAIN heap
        BY <1>10
    <3> HIDE DEF next
    <3>3. Unused(heap') = (Unused(heap) \ {next}) \cup {ptr2} /\ next \in Unused(heap)
        BY <1>2, <2>1, <2>9, <2>10, <3>1, <3>2 DEF Unused
    <3>4. ASSUME NEW b PROVE b \in UsedBlocks(heap') <=> b \in UsedBlocks(heap)
        BY <1>2, <2>1, <2>8, <2>9, <2>10, <3>1 DEF UsedBlocks
    <3> QED BY <3>3, <3>4 DEF UsedBlocks
  <2>12. \A b \in UsedBlocks(heap) \ {ptr} : heap'[b].next = heap[b].next
      BY <1>13, <2>9 DEF UsedBlocks
  <2>13. Room(heap', ptr) = size
      BY <1>1, <1>2, <1>5, <1>10, <2>9, Sizes DEF Room
  <2>14. ASSUME NEW b \in DOMAIN heap' \ {ram_end} PROVE heap'[b].used \/ heap'[heap'[b].next].used
    <3>1. CASE b = ptr
        BY <1>2, <2>9, <3>1
    <3>2. CASE b = ptr2
      <4>1. heap[heap[next].next].used /\ heap[next].next # next
          BY <1>1, <1>10, <1>13, <2>1, <2>4 DEF Plugged
      <4> QED BY <1>2, <2>4, <2>9, <3>2, <4>1
    <3>3. CASE b # ptr /\ b # ptr2
      <4>1. /\ b \in DOMAIN heap \ {ram_end, next} /\ heap[b].next \in DOMAIN heap
            /\ heap[b].used \/ heap[heap[b].next].used
          BY <1>1, <2>9, <3>3 DEF Plugged, Linked, NextOK
      <4> QED BY <1>13, <2>9, <3>3, <4>1
    <3> QED BY <3>1, <3>2, <3>3
  <2>15. IsLowest(lfree', heap')
    <3>1. CASE lfree = next
      <4>1. lfree' = ptr2
          BY <1>13, <3>1
      <4>2. \A b \in Unused(heap') : ptr2 <= b
          BY <1>1, <1>6, <1>10, <2>6, <2>11, <3>1 DEF IsLowest, Unused
      <4> QED BY <2>11, <4>1, <4>2 DEF IsLowest
    <3>2. CASE lfree # next
      <4>1. lfree' = lfree /\ lfree <= next /\ lfree \in DOMAIN heap
          BY <1>1, <1>13, <2>10, <2>11, <3>2 DEF IsLowest, Unused
      <4>2. lfree \in Nat /\ next \in Nat /\ ram_end \in Nat /\ next < ram_end
          BY <1>1, <1>10, <2>1, <2>4, <4>1, Sizes DEF Linked, Typed, Offset, ram_end
      <4>3. lfree \in Unused(heap')
          BY <1>1, <2>11, <3>2, <4>1, <4>2 DEF IsLowest
      <4>4. lfree <= ptr
          BY <1>1, <1>10, <3>2, <4>1, <4>2 DEF NextOK
      <4>5. lfree <= ptr2
          BY <1>1, <1>2, <1>6, <2>6, <4>2, <4>4, <1>10, <1>5, Sizes
      <4>6. \A b \in Unused(heap') : lfree <= b
          BY <1>1, <2>11, <4>5 DEF IsLowest
      <4> QED BY <4>1, <4>3, <4>6 DEF IsLowest
    <3> QED BY <3>1, <3>2
  <2>16. Plugged(heap') /\ Room(heap', ptr) >= n
      BY <1>5, <1>4, <2>13, <2>14 DEF Plugged
  <2> QED BY <1>11, <2>7, <2>11, <2>12, <2>15, <2>16
<1>14. CASE /\ heap[next].used
            /\ size + SIZEOF_STRUCT_MEM + MIN_SIZE <= Room(heap, ptr)
            /\ heap' = Insert(heap, ptr, ptr2)
            /\ lfree' = IF ptr2 < lfree THEN ptr2 ELSE lfree
  <2>1. /\ ptr + SIZEOF_STRUCT_MEM + MIN_SIZE <= ptr2
        /\ ptr2 + SIZEOF_STRUCT_MEM + MIN_SIZE <= next
      BY <1>1, <1>2, <1>3, <1>5, <1>14, Sizes
  <2> HIDE DEF ptr2
  <2>2. Linked(heap') /\ Inserted(heap', heap, ptr, ptr2) /\ ptr2 \notin DOMAIN heap
      BY <1>1, <1>2, <1>6, <1>14, <2>1, InsertLinked
  <2>3. /\ DOMAIN heap' = DOMAIN heap \cup {ptr2}
        /\ heap'[ptr2].next = next /\ heap'[ptr2].used = FALSE
        /\ heap'[ptr].next = ptr2 /\ heap'[ptr].used = heap[ptr].used
        /\ \A b \in DOMAIN heap \ {ptr} :
              heap'[b].used = heap[b].used /\ heap'[b].next = heap[b].next
      BY <1>2, <2>2 DEF Inserted
  <2>4. ram_end \in DOMAIN heap /\ ptr2 # ram_end
      BY <1>1, <2>2 DEF Linked, Typed
  <2>5. Unused(heap') = Unused(heap) \cup {ptr2} /\ UsedBlocks(heap') = UsedBlocks(heap)
      BY <1>2, <2>2, <2>3, <2>4 DEF Unused, UsedBlocks
  <2>6. \A b \in UsedBlocks(heap) \ {ptr} : heap'[b].next = heap[b].next
      BY <2>3 DEF UsedBlocks
  <2>7. Room(heap', ptr) = size
      BY <1>1, <1>2, <1>5, <1>10, <2>3, Sizes DEF Room
  <2>8. ASSUME NEW b \in DOMAIN heap' \ {ram_end} PROVE heap'[b].used \/ heap'[heap'[b].next].used
    <3>1. CASE b = ptr
        BY <1>2, <2>3, <3>1
    <3>2. CASE b = ptr2
        BY <1>10, <1>14, <2>3, <3>2
    <3>3. CASE b # ptr /\ b # ptr2
      <4>1. /\ b \in DOMAIN heap \ {ram_end} /\ heap[b].next \in DOMAIN heap
            /\ heap[b].used \/ heap[heap[b].next].used
          BY <1>1, <2>3, <3>3 DEF Plugged, Linked, NextOK
      <4> QED BY <2>3, <3>3, <4>1
    <3> QED BY <3>1, <3>2, <3>3
  <2>9. IsLowest(lfree', heap')
    <3>1. lfree \in Nat /\ lfree \in Unused(heap) \cup {ram_end} /\ \A b \in Unused(heap) : lfree <= b
        BY <1>1, <2>4 DEF IsLowest, Unused
    <3>2. \A b \in Unused(heap) : b \in Nat
        BY <1>1 DEF Unused
    <3>3. lfree' \in Unused(heap') \cup {ram_end}
        BY <1>14, <2>5, <3>1
    <3>4. \A b \in Unused(heap') : lfree' <= b
        BY <1>6, <1>14, <2>5, <3>1, <3>2
    <3> QED BY <3>3, <3>4 DEF IsLowest
  <2>10. Plugged(heap') /\ Room(heap', ptr) >= n
      BY <1>5, <1>4, <2>7, <2>8 DEF Plugged
  <2> QED BY <1>11, <2>2, <2>5, <2>6, <2>9, <2>10
<1> QED BY <1>12, <1>13, <1>14 DEF mem_trim, SplitsOff
-----------------------------------------------------------------------------
\* What the invariant says of the heap.
LEMMA InvMeans ==
    ASSUME HeapInv
    PROVE  /\ HeapTypeOK /\ HeapSane /\ LowestFree /\ Reserved
           /\ DeniedOnlyWithoutRoom /\ WholeWhenAllFreed
<1>1. /\ Linked(heap) /\ Plugged(heap) /\ IsLowest(lfree, heap)
      /\ Typed(heap) /\ HeldOK(heap, held)
      /\ denied \in Requests \cup {0} /\ aborted \in BOOLEAN
    BY DEF HeapInv, Linked
<1>2. ram_end \in DOMAIN heap /\ 0 \in DOMAIN heap /\ \A b \in DOMAIN heap : b \in Nat
    BY <1>1, Sizes DEF Typed, Offset
<1>3. HeapTypeOK
  <2>1. lfree \in DOMAIN heap
      BY <1>1, <1>2 DEF IsLowest, Unused
  <2>2. DOMAIN held \subseteq DOMAIN heap
      BY <1>1 DEF HeldOK, UsedBlocks
  <2> QED BY <1>1, <2>1, <2>2 DEF HeapTypeOK, Typed, Offset, HeldOK
<1>4. HeapSane
  <2>1. heap[ram_end] = [next |-> ram_end, prev |-> ram_end, used |-> TRUE]
    <3> DEFINE r == heap[ram_end]
    <3>1. r \in Block /\ r.next = ram_end /\ r.prev = ram_end /\ r.used = TRUE
        BY <1>1, <1>2 DEF Linked, Typed
    <3> HIDE DEF r
    <3>2. r = [next |-> ram_end, prev |-> ram_end, used |-> TRUE]
        BY <3>1 DEF Block
    <3> QED BY <3>2 DEF r
  <2> QED BY <1>1, <2>1 DEF HeapSane, Linked, NextOK, Plugged
<1>5. LowestFree
  <2> DEFINE U == Unused(heap) \cup {ram_end}
  <2>1. U \in SUBSET Nat /\ lfree \in U
      BY <1>1, <1>2 DEF IsLowest, Unused
  <2>2. \A b \in DOMAIN heap : b <= ram_end
      BY <1>1, Sizes DEF Typed, Offset, ram_end
  <2>3. \A b \in U : lfree <= b
      BY <1>1, <1>2, <2>1, <2>2 DEF IsLowest, Unused
  <2> HIDE DEF U
  <2>4. Min(U) = lfree
      BY <2>1, <2>3, MinIs
  <2> QED BY <2>4 DEF LowestFree, U
<1>6. Reserved
    BY <1>1 DEF HeldOK, Reserved, UsedBlocks
<1>7. DeniedOnlyWithoutRoom
    BY DEF HeapInv
<1>8. ASSUME held = << >> PROVE DOMAIN heap = {0, ram_end} /\ lfree = 0
  <2>1. UsedBlocks(heap) = {}
      BY <1>1, <1>8 DEF HeldOK
  <2>2. 0 # ram_end /\ 0 \in DOMAIN heap \ {ram_end}
      BY <1>2, Sizes DEF ram_end
  <2>3. NextOK(heap, 0) /\ ~heap[0].used /\ heap[heap[0].next].used /\ heap[0].next \in DOMAIN heap
      BY <1>1, <2>1, <2>2 DEF Linked, NextOK, Plugged, UsedBlocks
  <2>4. heap[0].next = ram_end
      BY <2>1, <2>3 DEF UsedBlocks
  <2>5. \A c \in DOMAIN heap : c <= 0 \/ c >= ram_end
      BY <2>3, <2>4 DEF NextOK
  <2>6. \A c \in DOMAIN heap : c <= ram_end
      BY <1>1, Sizes DEF Typed, Offset, ram_end
  <2>7. ram_end \in Nat /\ \A c \in DOMAIN heap : c = 0 \/ c = ram_end
      BY <1>2, <2>5, <2>6
  <2>8. DOMAIN heap = {0, ram_end}
      BY <1>2, <2>7
  <2>9. 0 \in Unused(heap)
      BY <2>2, <2>3 DEF Unused
  <2>10. lfree <= 0 /\ lfree \in Nat
      BY <1>1, <1>2, <2>9 DEF IsLowest, Unused
  <2> QED BY <2>8, <2>10
<1> QED BY <1>3, <1>4, <1>5, <1>6, <1>7, <1>8 DEF WholeWhenAllFreed

\* For every size of the heap, of struct mem and of mem_size_t, and after any
\* sequence of mem_malloc, mem_free and mem_trim, up to the end of the process
\* if mem_trim's assertion on the last block of the heap fails: the list of
\* blocks passes mem_sanity, lfree is the lowest free block, callers' blocks
\* are large enough and apart, a request is denied only when no unused block
\* has room for it, and a heap whose blocks were all given back is whole again.
THEOREM HeapIsSound ==
    HeapSpec => [](/\ HeapTypeOK /\ HeapSane /\ LowestFree /\ Reserved
                   /\ DeniedOnlyWithoutRoom /\ WholeWhenAllFreed)
<1>1. ASSUME HeapInv, [HeapNext]_heapVars PROVE HeapInv'
  <2>1. CASE UNCHANGED heapVars
      BY <1>1, <2>1 DEF heapVars, HeapInv, HeldOK, DeniedOnlyWithoutRoom
  <2>2. ASSUME NEW n \in Requests, mem_malloc(n) PROVE HeapInv'
      BY <1>1, <2>2, MallocInv
  <2>3. ASSUME NEW ptr \in DOMAIN held, mem_free(ptr) PROVE HeapInv'
      BY <1>1, <2>3, FreeInv
  <2>4. ASSUME NEW ptr \in DOMAIN held, NEW n \in Requests, n <= held[ptr], mem_trim(ptr, n)
        PROVE  HeapInv'
      BY <1>1, <2>4, TrimInv
  <2>5. ASSUME NEW ptr \in DOMAIN held, NEW n \in Requests, TrimAborts(ptr, n) PROVE HeapInv'
      BY <1>1, <2>5 DEF TrimAborts, HeapInv, HeldOK, DeniedOnlyWithoutRoom
  <2> QED BY <1>1, <2>1, <2>2, <2>3, <2>4, <2>5 DEF HeapNext
<1>2. HeapInv => /\ HeapTypeOK /\ HeapSane /\ LowestFree /\ Reserved
                 /\ DeniedOnlyWithoutRoom /\ WholeWhenAllFreed
    BY InvMeans
<1> QED BY <1>1, <1>2, InitInv, PTL DEF HeapSpec
=============================================================================
