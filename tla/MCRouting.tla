------------------------------ MODULE MCRouting ------------------------------
(***************************************************************************)
(* Contact plans over this node (10), three neighbours (1, 21, 23) and a   *)
(* destination (32).                                                       *)
(***************************************************************************)
EXTENDS DtnRouting

L(f, t, s, e, o) ==
    [kind |-> "contact", frm |-> f, to |-> t, start |-> s, end |-> e, rate |-> 1, owlt |-> o]

\* Contacts that are open from the start or later, short and long, with
\* detours, a way back and two contacts between the same nodes.
Pool == <<L(10, 21, 5, 7, 0), L(10, 21, 0, 9, 4), L(10, 23, 3, 6, 1), L(10, 1, 0, 9, 1),
          L(21, 23, 0, 8, 0), L(23, 21, 2, 9, 1), L(21, 32, 4, 9, 1), L(23, 32, 4, 8, 2),
          L(1, 32, 1, 9, 3), L(23, 32, 2, 4, 0)>>

\* The files made of some of these lines, in this order.
SomeLines == {SelectSeq(Pool, LAMBDA l : l \in S) : S \in SUBSET Range(Pool)}

Comment == [kind |-> "comment"]
Partial == [L(1, 32, 1, 9, 3) EXCEPT !.kind = "partial"]
Unknown == L(10, 40, 0, 9, 1)

\* One content for both files; a list without the first line of the plan; a
\* plan that is missing, that cp_load refuses or does not read to its end;
\* nodes without an address.
MCDeployments ==
    {[list |-> f, plan |-> f] : f \in SomeLines}
    \cup {[list |-> Tail(Pool), plan |-> Pool], [list |-> Pool, plan |-> NoFile],
          [list |-> NoFile, plan |-> Pool],
          [list |-> Append(Pool, Partial), plan |-> Append(Pool, Partial)],
          [list |-> Append(Pool, Pool[1]), plan |-> Append(Pool, Pool[1])],
          [list |-> <<Comment, Unknown>> \o Tail(Pool), plan |-> <<Comment, Unknown>> \o Tail(Pool)]}
=============================================================================
