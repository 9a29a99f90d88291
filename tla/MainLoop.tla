------------------------------ MODULE MainLoop ------------------------------
(***************************************************************************)
(* The timing of main.c's loop: select, lwIP's timers (timeouts.c, as      *)
(* NO_SYS programs use them), input, and the check of the contacts.  Every *)
(* part of an iteration may take time.                                     *)
(*                                                                         *)
(* sys_now() is a u32_t; here it is clock % ClockMod, where clock itself   *)
(* counts far enough (modulo Horizon) to tell apart what the wrapped time  *)
(* does not.                                                               *)
(***************************************************************************)
EXTENDS ContactWindow, SequencesExt

CONSTANTS ClockMod,       \* 2^32
          Horizon,        \* bound: a multiple of ClockMod and of the intervals
          Timers,         \* lwip_cyclic_timers: nd6_tmr, then mld6_tmr
          Interval,       \* their interval_ms
          NumTimeouts,    \* MEMP_NUM_SYS_TIMEOUT
          CheckInterval,  \* CONTACT_CHECK_INTERVAL_MS
          Slow,           \* bound: the longest time a part of an iteration takes
          MaxInterrupts,  \* bound: how often select returns EINTR
          BootDelay,      \* the time from lwip_init to the loop, sleep(2) included
          BootTimes,      \* readings of the clock at start-up
          ContactPlan     \* sequence of [start, end], times from base_time

ASSUME LoopAssumption ==
    /\ {ClockMod, Horizon, NumTimeouts, CheckInterval} \subseteq Nat \ {0}
    /\ {Slow, MaxInterrupts, BootDelay} \subseteq Nat
    /\ ClockMod % 2 = 0 /\ Horizon % ClockMod = 0
    /\ Interval \in [Range(Timers) -> Nat \ {0}]
    /\ \A t \in Range(Timers) : Horizon % Interval[t] = 0
    /\ BootTimes \subseteq 0 .. ClockMod - 1
    /\ \A c \in DOMAIN ContactPlan :
          /\ ContactPlan[c].start \in Nat /\ ContactPlan[c].end \in Nat
          /\ ContactPlan[c].start <= ContactPlan[c].end

VARIABLES clock,
          next_timeout,         \* the list of timeouts: [time, timer]
          free_timeouts,        \* free elements of MEMP_SYS_TIMEOUT
          last_active_states,
          pc,                   \* select, check, input, poll, pass
          check_time,           \* "now" in sys_check_timeouts
          readable,             \* the TUN device was readable at the last select
          interrupts,
          boot,                 \* the clock at start-up
          restarted             \* timer -> the clock when it was last started without correction

vars == <<clock, next_timeout, free_timeouts, last_active_states, pc, check_time, readable,
          interrupts, boot, restarted>>

sys_now == clock % ClockMod
Later(a, b) == IF a < b THEN b ELSE a
base_time == boot
Pass(d) == clock' = (clock + d) % Horizon
Durations == 0 .. Slow
-----------------------------------------------------------------------------
(***************************************************************************)
(* timeouts.c.  Times are compared by the sign of their wrapped            *)
(* difference.                                                             *)
(***************************************************************************)
LWIP_MAX_TIMEOUT == ClockMod \div 2 - 1
\* Faulty variant: times are compared as numbers.
PLAIN_LESS_THAN(t, compare_to) == t < compare_to
TIME_LESS_THAN(t, compare_to) == (t - compare_to) % ClockMod > LWIP_MAX_TIMEOUT

\* The list with timeout in front of the first entry that it precedes.
Inserted(list, timeout) ==
    LET later == {i \in DOMAIN list : TIME_LESS_THAN(timeout.time, list[i].time)}
        at == IF later = {} THEN Len(list) + 1 ELSE CHOOSE i \in later : \A j \in later : i <= j
    IN  InsertAt(list, at, timeout)

\* sys_timeout_abs on a list, with so many free elements in the pool.
WithTimeout(list, free, time, timer) ==
    IF free = 0 THEN list ELSE Inserted(list, [time |-> time, timer |-> timer])

Overload(due, timer, now) == TIME_LESS_THAN((due + Interval[timer]) % ClockMod, now)
\* Faulty variants: never corrected; the interval is not added.
next_timeout_time_uncorrected(due, timer, now) == (now + Interval[timer]) % ClockMod
next_timeout_time_same(due, timer, now) == due
next_timeout_time(due, timer, now) ==
    IF Overload(due, timer, now) THEN (now + Interval[timer]) % ClockMod
                                 ELSE (due + Interval[timer]) % ClockMod

sys_timeouts_sleeptime ==
    IF TIME_LESS_THAN(Head(next_timeout).time, sys_now) THEN 0
    ELSE (Head(next_timeout).time - sys_now) % ClockMod
-----------------------------------------------------------------------------
\* Faulty variant: select always waits for the contact check.
app_timeout_fixed == CheckInterval

app_timeout ==
    IF next_timeout # << >> /\ sys_timeouts_sleeptime < CheckInterval
    THEN sys_timeouts_sleeptime ELSE CheckInterval

\* select returns when the device is readable, or late when the time is up.
Select ==
    /\ pc = "select"
    /\ \E d \in 0 .. CheckInterval + Slow :
          /\ d <= app_timeout + Slow
          /\ Pass(d)
          /\ check_time' = clock' % ClockMod
          /\ readable' \in IF d < app_timeout THEN {TRUE} ELSE BOOLEAN
    /\ pc' = "check"
    /\ UNCHANGED <<next_timeout, free_timeouts, last_active_states, interrupts, boot, restarted>>

Interrupted ==
    /\ pc = "select" /\ interrupts < MaxInterrupts
    /\ interrupts' = interrupts + 1
    /\ \E d \in 0 .. CheckInterval : d <= app_timeout /\ Pass(d)
    /\ UNCHANGED <<next_timeout, free_timeouts, last_active_states, pc, check_time, readable,
                   boot, restarted>>

\* sys_check_timeouts takes the first timeout off the list, and its handler,
\* lwip_cyclic_timer, runs for a while and starts it again.
Expired(e) == ~TIME_LESS_THAN(check_time, e.time)

\* Faulty variant: the element is freed after the handler has run.
FireHoldingElement ==
    /\ pc = "check" /\ next_timeout # << >> /\ Expired(Head(next_timeout))
    /\ \E d \in Durations :
          LET e == Head(next_timeout)
              now == (clock + d) % ClockMod
          IN  /\ Pass(d)
              /\ next_timeout' = WithTimeout(Tail(next_timeout), free_timeouts,
                                             next_timeout_time(e.time, e.timer, now), e.timer)
              /\ restarted' = IF Overload(e.time, e.timer, now)
                              THEN [restarted EXCEPT ![e.timer] = clock' % Interval[e.timer]]
                              ELSE restarted
    /\ free_timeouts' = NumTimeouts - Len(next_timeout')
    /\ UNCHANGED <<last_active_states, pc, check_time, readable, interrupts, boot>>

\* Faulty variant: the element is freed before the handler runs and after it.
FireFreesTwice ==
    /\ pc = "check" /\ next_timeout # << >> /\ Expired(Head(next_timeout))
    /\ \E d \in Durations :
          LET e == Head(next_timeout)
              now == (clock + d) % ClockMod
          IN  /\ Pass(d)
              /\ next_timeout' = WithTimeout(Tail(next_timeout), free_timeouts + 1,
                                             next_timeout_time(e.time, e.timer, now), e.timer)
              /\ restarted' = IF Overload(e.time, e.timer, now)
                              THEN [restarted EXCEPT ![e.timer] = clock' % Interval[e.timer]]
                              ELSE restarted
    /\ free_timeouts' = free_timeouts + 1
    /\ UNCHANGED <<last_active_states, pc, check_time, readable, interrupts, boot>>

Fire ==
    /\ pc = "check" /\ next_timeout # << >> /\ Expired(Head(next_timeout))
    /\ \E d \in Durations :
          LET e == Head(next_timeout)
              now == (clock + d) % ClockMod
          IN  /\ Pass(d)
              /\ next_timeout' = WithTimeout(Tail(next_timeout), free_timeouts + 1,
                                             next_timeout_time(e.time, e.timer, now), e.timer)
              /\ restarted' = IF Overload(e.time, e.timer, now)
                              THEN [restarted EXCEPT ![e.timer] = clock' % Interval[e.timer]]
                              ELSE restarted
    /\ UNCHANGED <<free_timeouts, last_active_states, pc, check_time, readable, interrupts, boot>>

Checked ==
    /\ pc = "check" /\ (next_timeout = << >> \/ ~Expired(Head(next_timeout)))
    /\ pc' = "input"
    /\ UNCHANGED <<clock, next_timeout, free_timeouts, last_active_states, check_time, readable,
                   interrupts, boot, restarted>>

\* tunif_input, when there is something to read.
Input ==
    /\ pc = "input"
    /\ \E d \in IF readable THEN Durations ELSE {0} : Pass(d)
    /\ pc' = "poll"
    /\ UNCHANGED <<next_timeout, free_timeouts, last_active_states, check_time, readable,
                   interrupts, boot, restarted>>
-----------------------------------------------------------------------------
(***************************************************************************)
(* dtn_routing_update_contacts, and the pass that follows when a contact   *)
(* has become active.                                                      *)
(***************************************************************************)
Contact == DOMAIN ContactPlan
Active(c) == IsActive(sys_now, base_time, ContactPlan[c], ClockMod)
update_contacts == last_active_states' = [c \in Contact |-> Active(c)]

\* Faulty variant: the contacts are checked after input only.
PollAfterInput ==
    /\ pc = "poll"
    /\ IF readable THEN update_contacts ELSE UNCHANGED last_active_states
    /\ pc' = "select"
    /\ UNCHANGED <<clock, next_timeout, free_timeouts, check_time, readable, interrupts, boot,
                   restarted>>
Poll ==
    /\ pc = "poll"
    /\ update_contacts
    /\ pc' = IF \E c \in Contact : Active(c) /\ ~last_active_states[c] THEN "pass" ELSE "select"
    /\ UNCHANGED <<clock, next_timeout, free_timeouts, check_time, readable, interrupts, boot,
                   restarted>>

ForwardStored ==
    /\ pc = "pass"
    /\ update_contacts
    /\ \E d \in Durations : Pass(d)
    /\ pc' = "select"
    /\ UNCHANGED <<next_timeout, free_timeouts, check_time, readable, interrupts, boot, restarted>>
-----------------------------------------------------------------------------
\* lwip_init starts the timers in the order of the array; the loop begins
\* later.
sys_timeouts_init(now) ==
    FoldLeft(LAMBDA list, timer :
                 WithTimeout(list, NumTimeouts - Len(list), (now + Interval[timer]) % ClockMod, timer),
             << >>, Timers)

Init ==
    /\ boot \in BootTimes
    /\ clock = (boot + BootDelay) % Horizon
    /\ next_timeout = sys_timeouts_init(boot)
    /\ free_timeouts = NumTimeouts - Len(next_timeout)
    /\ last_active_states = [c \in Contact |-> FALSE]
    /\ pc = "select" /\ check_time = boot /\ readable = FALSE
    /\ interrupts = 0
    /\ restarted = [t \in Range(Timers) |-> boot % Interval[t]]

Next == Select \/ Interrupted \/ Fire \/ Checked \/ Input \/ Poll \/ ForwardStored

Spec == Init /\ [][Next]_vars

\* The process is scheduled.
LoopSpec == Spec /\ WF_vars(Next)
-----------------------------------------------------------------------------
Timer == Range(Timers)

\* Type correctness.
LoopTypeOK ==
    /\ clock \in 0 .. Horizon - 1 /\ boot \in 0 .. ClockMod - 1
    /\ next_timeout \in Seq([time : 0 .. ClockMod - 1, timer : Timer])
    /\ free_timeouts \in 0 .. NumTimeouts
    /\ last_active_states \in [Contact -> BOOLEAN]
    /\ pc \in {"select", "check", "input", "poll", "pass"}
    /\ check_time \in 0 .. ClockMod - 1
    /\ readable \in BOOLEAN /\ interrupts \in 0 .. MaxInterrupts
    /\ restarted \in [Timer -> Nat]

\* Every cyclic timer is in the list exactly once, although it leaves the
\* list to run and the pool has no element to spare when it is started again
\* ("sys_timeout: timeout != NULL, pool MEMP_SYS_TIMEOUT is empty").
EachTimerOnce ==
    /\ Len(next_timeout) = Len(Timers)
    /\ \A t \in Timer : \E i \in DOMAIN next_timeout : next_timeout[i].timer = t

\* sys_check_timeouts ends, however slow the handlers are and although every
\* one starts its timer again: "Process only timers expired at the start of
\* the function".
CheckEnds == pc = "check" ~> pc = "input"

\* The time from now to a due time, negative when it has passed.
Until(e) ==
    LET d == (e.time - sys_now) % ClockMod IN IF d > LWIP_MAX_TIMEOUT THEN d - ClockMod ELSE d

\* The list is in the order of the due times, across the wrap of sys_now(),
\* which is what lets sys_check_timeouts stop at the first timeout that is
\* still to come.
TimeoutsInOrder ==
    \A i, j \in DOMAIN next_timeout :
        i < j => Until(next_timeout[i]) <= Until(next_timeout[j])

\* The longest that the parts of an iteration take besides waiting.
Lateness == (Len(Timers) + 3) * Slow

\* No timer waits longer than its interval, and none is overdue by more than
\* the parts of one iteration take (or the start-up took): select never
\* sleeps past a due time, not even when it is interrupted.
TimersOnTime ==
    \A i \in DOMAIN next_timeout :
        /\ Until(next_timeout[i]) <= Interval[next_timeout[i].timer]
        /\ -Until(next_timeout[i]) <= Later(Lateness, BootDelay)

\* Timers do not drift: "correct cyclic interval with handler execution delay
\* and sys_check_timeouts jitter".  A timer is due a whole number of intervals
\* after the last time that it was so late that it was started from the
\* present, whatever its delays since then add up to.
NoDrift ==
    \A i \in DOMAIN next_timeout :
        LET e == next_timeout[i]
        IN  (clock + Until(e) - restarted[e.timer]) % Interval[e.timer] = 0

\* The time since start-up, as the unwrapped clock gives it.
Elapsed == (clock - boot) % Horizon

\* The contact is open, as the plan and the unwrapped clock say.
Open(c) == Elapsed \in ContactPlan[c].start .. ContactPlan[c].end

\* The contacts whose times a u32_t holds: dtn_routing_load_contacts wraps the
\* others, which are then active a turn of the clock (or several) too early.
Representable == {c \in Contact : ContactPlan[c].end < ClockMod}

\* During the first turn of the clock after start-up (2^32 ms, 49 days), a
\* representable contact counts as active only while the plan has it open,
\* wherever in the range of u32_t base_time lies.  From the second turn on
\* every contact of the past is active again at the same place in the turn.
ActiveOnlyWhenOpen ==
    Elapsed < ClockMod => \A c \in Representable : Active(c) => Open(c)

\* No representable contact is missed that lasts as long as an iteration of
\* the loop may take: when it ends, update_contacts has seen it.  (Unless the
\* clock wraps inside it: then it is never active.)
LongEnough(c) ==
    ContactPlan[c].end - ContactPlan[c].start >= (MaxInterrupts + 1) * CheckInterval + Lateness
ContactsNoticed ==
    [][\A c \in Representable :
          Open(c) /\ ~Open(c)' /\ LongEnough(c) /\ ~SpansWrap(boot, ContactPlan[c], ClockMod)
             => last_active_states[c]]_vars
=============================================================================
