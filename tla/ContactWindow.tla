---------------------------- MODULE ContactWindow ----------------------------
(***************************************************************************)
(* The comparison of u32_t times that decides whether a contact is active, *)
(* the same in dtn_routing_update_contacts and is_next_hop_active_contact. *)
(* A contact w of the plan has its ends in time from base_time;            *)
(* dtn_routing_load_contacts adds base_time to them.  M is 2^32.           *)
(***************************************************************************)
EXTENDS Integers

\* Faulty variant: base_time is not added to the start.
IsActiveFromBareStart(now, base, w, M) ==
    now >= w.start % M /\ now <= (base + w.end) % M

IsActive(now, base, w, M) ==
    now >= (base + w.start) % M /\ now <= (base + w.end) % M

\* What the plan says: the time since base_time, which the clock gives up to
\* a multiple of M, is in the window.
InWindow(now, base, w, M) == (now - base) % M \in w.start .. w.end

\* The clock starts again from 0 inside the window.
SpansWrap(base, w, M) == base + w.start < M /\ M <= base + w.end
=============================================================================
