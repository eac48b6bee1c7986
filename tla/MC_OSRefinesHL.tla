----------------------------- MODULE MC_OSRefinesHL -----------------------------
(***************************************************************************)
(* Model-checking instance of OSRefinesHL: two cores, two or three user  *)
(* threads, the three candidate entries of MC_HLSpec and a fourth one.    *)
(***************************************************************************)
EXTENDS OSRefinesHL

CONSTANTS c1, c2

Flags(w, s, x) == [is_writable |-> w, is_supervisor |-> s, disable_execute |-> x]

\* word 0, writable user page
E1 == [frame |-> [base |-> 0, size |-> 1], flags |-> Flags(TRUE, FALSE, FALSE)]
\* words 0..1, read-only user page: shares word 0 with E1
E2 == [frame |-> [base |-> 0, size |-> 2], flags |-> Flags(FALSE, FALSE, TRUE)]
\* words 2..3, writable; word 3 lies beyond physical memory
E3 == [frame |-> [base |-> 2, size |-> 2], flags |-> Flags(TRUE, FALSE, FALSE)]

MC_Entries == {E1, E2, E3}

\* word 1, writable user page: beside E1, so three Maps can be in flight
E4 == [frame |-> [base |-> 1, size |-> 1], flags |-> Flags(TRUE, FALSE, FALSE)]

MC_Entries4 == {E1, E2, E3, E4}

MC_Cores == {c1, c2}

\* thread 0 runs on c1, thread 1 on c2
MC_ULT2core == (0 :> c1) @@ (1 :> c2)

\* threads 0 and 2 share c1, thread 1 runs on c2: some thread is idle
\* whatever the cores run
MC_ULT2core3 == (0 :> c1) @@ (1 :> c2) @@ (2 :> c1)

\* interp_constants with every thread 0..ULT_no visible to hlspec
MC_interp_thread_no == ULT_no + 1

\* a single core running both threads
MC_OneCore == {c1}
MC_ULT2core1 == (0 :> c1) @@ (1 :> c1)

\* no Unmap is issued
MC_NoUnmapVAddrs == {}
=============================================================================
