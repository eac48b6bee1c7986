----------------------------- MODULE MC_OSSpec -----------------------------
(***************************************************************************)
(* Model-checking instance of OSSpec: two or three cores, one user thread *)
(* on each, the three candidate entries of MC_HLSpec.                     *)
(***************************************************************************)
EXTENDS OSSpec

CONSTANTS c1, c2, c3

Flags(w, s, x) == [is_writable |-> w, is_supervisor |-> s, disable_execute |-> x]

\* word 0, writable user page
E1 == [frame |-> [base |-> 0, size |-> 1], flags |-> Flags(TRUE, FALSE, FALSE)]
\* words 0..1, read-only user page: shares word 0 with E1
E2 == [frame |-> [base |-> 0, size |-> 2], flags |-> Flags(FALSE, FALSE, TRUE)]
\* words 2..3, writable; word 3 lies beyond physical memory
E3 == [frame |-> [base |-> 2, size |-> 2], flags |-> Flags(TRUE, FALSE, FALSE)]

MC_Entries == {E1, E2, E3}

\* word 1, writable user page: disjoint from E1 and E3
E4 == [frame |-> [base |-> 1, size |-> 1], flags |-> Flags(TRUE, FALSE, FALSE)]

MC_Entries4 == {E1, E2, E3, E4}

MC_Cores == {c1, c2}

MC_Cores3 == {c1, c2, c3}

\* thread 0 runs on c1, thread 1 on c2
MC_ULT2core == (0 :> c1) @@ (1 :> c2)

\* thread i runs on core i + 1
MC_ULT2core3 == (0 :> c1) @@ (1 :> c2) @@ (2 :> c3)
=============================================================================
