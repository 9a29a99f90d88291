------------------------ MODULE ContactWindowProofs -------------------------
(***************************************************************************)
(* When the comparison of wrapped times is right: for every reading of the *)
(* clock, every base_time and every contact shorter than a turn of the     *)
(* clock.                                                                  *)
(***************************************************************************)
EXTENDS MainLoop, TLAPS

\* The remainder of the sum of two reduced numbers, and of their difference.
LEMMA ModSum ==
    ASSUME NEW M \in Nat, M > 0, NEW a \in 0 .. M - 1, NEW b \in 0 .. M - 1
    PROVE  /\ (a + b) % M = IF a + b < M THEN a + b ELSE a + b - M
           /\ (a - b) % M = IF b <= a THEN a - b ELSE a - b + M
  <1>1. ASSUME NEW x \in 0 .. M - 1 PROVE x % M = x
    BY <1>1
  <1>2. ASSUME NEW x \in M .. 2 * M - 1 PROVE x % M = x - M
    BY <1>2
  <1>3. ASSUME NEW x \in -M .. -1 PROVE x % M = x + M
    BY <1>3
  <1>4. (a + b) % M = IF a + b < M THEN a + b ELSE a + b - M
    <2>1. CASE a + b < M
      BY <2>1, <1>1, a + b \in 0 .. M - 1
    <2>2. CASE ~(a + b < M)
      BY <2>2, <1>2, a + b \in M .. 2 * M - 1
    <2>3. QED
      BY <2>1, <2>2
  <1>5. (a - b) % M = IF b <= a THEN a - b ELSE a - b + M
    <2>1. CASE b <= a
      BY <2>1, <1>1, a - b \in 0 .. M - 1
    <2>2. CASE ~(b <= a)
      BY <2>2, <1>3, a - b \in -M .. -1
    <2>3. QED
      BY <2>1, <2>2
  <1>6. QED
    BY <1>4, <1>5

\* Reducing a number before another is subtracted from it changes nothing.
LEMMA ModOfReduced ==
    ASSUME NEW M \in Nat, M > 0, NEW x \in Int, NEW b \in Int
    PROVE  (x - b) % M = ((x % M) - b) % M
  <1> DEFINE r == x % M
             q == x \div M
             s == (r - b) % M
             p == (r - b) \div M
             t == (x - b) % M
             o == (x - b) \div M
  <1>1. r \in Int /\ q \in Int /\ x = M * q + r
    OBVIOUS
  <1> HIDE DEF r, q
  <1>2. p \in Int /\ s \in 0 .. M - 1 /\ r - b = M * p + s
    BY <1>1
  <1>3. o \in Int /\ t \in 0 .. M - 1 /\ x - b = M * o + t
    OBVIOUS
  <1> HIDE DEF s, p, t, o
  <1>4. M * o + t = M * (q + p) + s
    BY <1>1, <1>2, <1>3
  <1>5. t = s
    <2>1. ASSUME NEW k \in Int, M * o + t = M * k + s PROVE t = s
      BY <2>1, <1>2, <1>3
    <2>2. q + p \in Int
      BY <1>1, <1>2
    <2>3. QED
      BY <2>1, <2>2, <1>4
  <1>6. QED
    BY <1>5 DEF s, t, r

\* A remainder that is smaller than a divisor of the modulus is the remainder
\* for that divisor too.
LEMMA ModOfDivisor ==
    ASSUME NEW M \in Nat, M > 0, NEW H \in Nat, H > 0, H % M = 0, NEW x \in Int, x % H < M
    PROVE  x % M = x % H
  <1> DEFINE r == x % H
             q == x \div H
             k == H \div M
             s == x % M
             o == x \div M
  <1>1. q \in Int /\ r \in 0 .. M - 1 /\ x = H * q + r
    OBVIOUS
  <1>2. k \in Int /\ H = M * k
    OBVIOUS
  <1>3. o \in Int /\ s \in 0 .. M - 1 /\ x = M * o + s
    OBVIOUS
  <1> HIDE DEF r, q, k, s, o
  <1>4. H * q = M * (k * q) /\ k * q \in Int
    BY <1>1, <1>2
  <1>5. ASSUME NEW i \in Int, NEW j \in Int, NEW a \in 0 .. M - 1, NEW b \in 0 .. M - 1,
               M * i + a = M * j + b
        PROVE  a = b
    <2>1. M * (i - j) = b - a
      BY <1>5
    <2>2. i - j = 0
      <3>1. CASE i - j >= 1
        <4>1. M * (i - j) >= M
          BY <3>1
        <4>2. QED
          BY <2>1, <4>1
      <3>2. CASE i - j <= -1
        <4>1. M * (i - j) <= -M
          BY <3>2
        <4>2. QED
          BY <2>1, <4>1
      <3>3. QED
        BY <3>1, <3>2
    <2>3. QED
      BY <2>1, <2>2
  <1>6. s = r
    BY <1>1, <1>3, <1>4, <1>5
  <1>7. QED
    BY <1>6 DEF r, s

\* The contacts of a plan and the readings that the comparison is about.
Readings(now, base, w, M) ==
    /\ now \in 0 .. M - 1 /\ base \in 0 .. M - 1
    /\ w.start \in Nat /\ w.end \in Nat /\ w.start <= w.end /\ w.end < M

\* A contact whose window the clock does not wrap in is active exactly while
\* the plan has it open, wherever in the range of u32_t base_time lies: the
\* comparison in dtn_routing_update_contacts.
THEOREM ExactOutsideWrap ==
    ASSUME NEW M \in Nat, M > 0, NEW now, NEW base, NEW w, Readings(now, base, w, M),
           ~SpansWrap(base, w, M)
    PROVE  IsActive(now, base, w, M) <=> InWindow(now, base, w, M)
  <1> DEFINE s == w.start
             e == w.end
  <1>1. /\ now \in 0 .. M - 1 /\ base \in 0 .. M - 1
        /\ s \in 0 .. M - 1 /\ e \in 0 .. M - 1 /\ s <= e
        /\ base + s < M => base + e < M
    BY DEF Readings, SpansWrap
  <1>2. /\ IsActive(now, base, w, M) <=> (now >= (base + s) % M /\ now <= (base + e) % M)
        /\ InWindow(now, base, w, M) <=> (now - base) % M \in s .. e
    BY DEF IsActive, InWindow
  <1> HIDE DEF s, e
  <1>3. /\ (base + s) % M = IF base + s < M THEN base + s ELSE base + s - M
        /\ (base + e) % M = IF base + e < M THEN base + e ELSE base + e - M
        /\ (now - base) % M = IF base <= now THEN now - base ELSE now - base + M
    BY <1>1, ModSum
  <1>4. CASE base + s < M
    BY <1>1, <1>2, <1>3, <1>4
  <1>5. CASE ~(base + s < M)
    BY <1>1, <1>2, <1>3, <1>5
  <1>6. QED
    BY <1>4, <1>5

\* A contact that the clock wraps in is never active, not for any reading of
\* the clock: packets for it stay in storage.
THEOREM NeverAcrossWrap ==
    ASSUME NEW M \in Nat, M > 0, NEW now, NEW base, NEW w, Readings(now, base, w, M),
           SpansWrap(base, w, M)
    PROVE  ~IsActive(now, base, w, M)
  <1> DEFINE s == w.start
             e == w.end
  <1>1. /\ now \in 0 .. M - 1 /\ base \in 0 .. M - 1
        /\ s \in 0 .. M - 1 /\ e \in 0 .. M - 1 /\ s <= e
        /\ base + s < M /\ ~(base + e < M)
    BY DEF Readings, SpansWrap
  <1>2. IsActive(now, base, w, M) <=> (now >= (base + s) % M /\ now <= (base + e) % M)
    BY DEF IsActive
  <1> HIDE DEF s, e
  <1>3. /\ (base + s) % M = base + s
        /\ (base + e) % M = base + e - M
    BY <1>1, ModSum
  <1>4. QED
    BY <1>1, <1>2, <1>3
-----------------------------------------------------------------------------
\* The clock is a number and start-up's reading of it is a u32_t.
ClockOK == clock \in Int /\ boot \in 0 .. ClockMod - 1

\* What the clock needs of LoopAssumption.
LEMMA ClockConstants ==
    /\ ClockMod \in Nat /\ ClockMod > 0
    /\ Horizon \in Nat /\ Horizon > 0 /\ Horizon % ClockMod = 0
    /\ CheckInterval \in Nat /\ Slow \in Nat /\ BootDelay \in Nat
    /\ BootTimes \subseteq 0 .. ClockMod - 1
  BY LoopAssumption

\* ClockOK holds throughout.
LEMMA ClockInv == Spec => []ClockOK
  <1>1. ASSUME Init PROVE ClockOK
    <2>1. boot \in BootTimes /\ clock = (boot + BootDelay) % Horizon
      BY <1>1 DEF Init
    <2>2. boot \in 0 .. ClockMod - 1
      BY <2>1, ClockConstants
    <2>3. boot + BootDelay \in Int
      BY <2>2, ClockConstants
    <2>4. clock \in Int
      BY <2>1, <2>3, ClockConstants
    <2>5. QED
      BY <2>2, <2>4 DEF ClockOK
  <1>2. ASSUME ClockOK, [Next]_vars PROVE ClockOK'
    <2>1. ASSUME NEW d \in Int, Pass(d) PROVE clock' \in Int
      BY <1>2, <2>1, ClockConstants DEF Pass, ClockOK
    <2>2. boot' = boot
      BY <1>2 DEF Next, vars, Select, Interrupted, Fire, Checked, Input, Poll, ForwardStored
    <2>3. ASSUME \E d \in Int : Pass(d) PROVE ClockOK'
      BY <1>2, <2>1, <2>2, <2>3 DEF ClockOK
    <2>4. 0 .. CheckInterval + Slow \subseteq Int /\ 0 .. CheckInterval \subseteq Int
          /\ Durations \subseteq Int
      BY ClockConstants DEF Durations
    <2>5. CASE Select
      BY <2>3, <2>4, <2>5 DEF Select
    <2>6. CASE Interrupted
      BY <2>3, <2>4, <2>6 DEF Interrupted
    <2>7. CASE Fire
      BY <2>3, <2>4, <2>7 DEF Fire
    <2>8. CASE Input
      <3>1. PICK d \in IF readable THEN Durations ELSE {0} : Pass(d)
        BY <2>8 DEF Input
      <3>2. QED
        BY <2>3, <2>4, <3>1
    <2>9. CASE ForwardStored
      BY <2>3, <2>4, <2>9 DEF ForwardStored
    <2>10. CASE Checked \/ Poll \/ UNCHANGED vars
      BY <1>2, <2>2, <2>10 DEF Checked, Poll, vars, ClockOK
    <2>11. QED
      BY <1>2, <2>5, <2>6, <2>7, <2>8, <2>9, <2>10 DEF Next
  <1>3. QED
    BY <1>1, <1>2, PTL DEF Spec

\* In every state of the first turn of the clock after start-up, a contact
\* whose times a u32_t holds is active only while the plan has it open, for
\* every size of the clock and every plan, longer ones included.
THEOREM NeverActiveWhenClosed == Spec => []ActiveOnlyWhenOpen
  <1>1. ClockOK => ActiveOnlyWhenOpen
    <2> SUFFICES ASSUME ClockOK, Elapsed < ClockMod, NEW c \in Representable, Active(c)
                 PROVE  Open(c)
      BY DEF ActiveOnlyWhenOpen
    <2> DEFINE w == ContactPlan[c]
    <2>1. /\ ClockMod \in Nat /\ ClockMod > 0
          /\ Horizon \in Nat /\ Horizon > 0 /\ Horizon % ClockMod = 0
      BY ClockConstants
    <2>2. Readings(sys_now, boot, w, ClockMod)
      <3>1. sys_now \in 0 .. ClockMod - 1 /\ boot \in 0 .. ClockMod - 1
        BY <2>1 DEF ClockOK, sys_now
      <3>2. c \in DOMAIN ContactPlan /\ w.end < ClockMod
        BY DEF Representable, Contact
      <3>3. w.start \in Nat /\ w.end \in Nat /\ w.start <= w.end
        BY <3>2, LoopAssumption
      <3>4. QED
        BY <3>1, <3>2, <3>3 DEF Readings
    <2>3. IsActive(sys_now, boot, w, ClockMod)
      BY DEF Active, base_time
    <2>4. InWindow(sys_now, boot, w, ClockMod)
      BY <2>1, <2>2, <2>3, ExactOutsideWrap, NeverAcrossWrap
    <2>5. clock \in Int /\ boot \in Int /\ clock - boot \in Int
      BY <2>1 DEF ClockOK
    <2>6. (clock - boot) % ClockMod = (sys_now - boot) % ClockMod
      BY <2>1, <2>5, ModOfReduced, Zenon DEF sys_now
    <2>7. Elapsed = (clock - boot) % ClockMod
      BY <2>1, <2>5, ModOfDivisor DEF Elapsed
    <2>8. QED
      BY <2>4, <2>6, <2>7 DEF InWindow, Open
  <1>2. QED
    BY <1>1, ClockInv, PTL
=============================================================================
