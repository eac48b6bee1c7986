----------------------------- MODULE MC_HLSpec -----------------------------
(***************************************************************************)
(* Model-checking instance of HLSpec: three threads, four candidate       *)
(* entries of which two share physical memory and one reaches past        *)
(* physical memory, three virtual addresses.                              *)
(***************************************************************************)
EXTENDS HLSpec

Flags(w, s, x) == [is_writable |-> w, is_supervisor |-> s, disable_execute |-> x]

\* word 0, writable user page
E1 == [frame |-> [base |-> 0, size |-> 1], flags |-> Flags(TRUE, FALSE, FALSE)]
\* words 0..1, read-only user page: shares word 0 with E1
E2 == [frame |-> [base |-> 0, size |-> 2], flags |-> Flags(FALSE, FALSE, TRUE)]
\* words 2..3, writable; word 3 lies beyond physical memory
E3 == [frame |-> [base |-> 2, size |-> 2], flags |-> Flags(TRUE, FALSE, FALSE)]

\* word 1, writable user page: beside E1, so three Maps can be in flight
E4 == [frame |-> [base |-> 1, size |-> 1], flags |-> Flags(TRUE, FALSE, FALSE)]

MC_Entries == {E1, E2, E3, E4}

\* TLC cannot enumerate "any state with ~sound"; the explored unsound
\* successor keeps the other fields.  Every property here is conditioned on
\* `sound' and `sound' never returns, so the states left out are equivalent.
MC_unsound_state == sound' = FALSE /\ UNCHANGED <<mem, thread_state, mappings>>
=============================================================================
