------------------------------- MODULE MCLoop -------------------------------
(***************************************************************************)
(* Values for model checking MainLoop: nd6_tmr as often as the contact     *)
(* check, mld6_tmr more often.                                             *)
(***************************************************************************)
EXTENDS MainLoop

MCTimers == <<"nd6_tmr", "mld6_tmr">>
MCInterval == [nd6_tmr |-> 4, mld6_tmr |-> 2]

\* A contact that is long enough, a short one, one that the wrap of the clock
\* cuts when the program starts late, and one that is beyond the range of u32_t.
MCPlan ==
    <<[start |-> 2, end |-> 26], [start |-> 4, end |-> 8], [start |-> 8, end |-> 40],
      [start |-> 60, end |-> 70]>>
=============================================================================
