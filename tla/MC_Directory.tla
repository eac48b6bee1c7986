---------------------------- MODULE MC_Directory ----------------------------
(***************************************************************************)
(* Three layers of two entries each (entry sizes 4, 2, 1), the scaled     *)
(* shape of x86's layers: every three-level tree whose pages have frames  *)
(* of base 0 or 1 (so some are misaligned), and malformed two-level trees *)
(* rooted at layer 1 with sub-directories of any layer at bases 0 and 2.  *)
(***************************************************************************)
EXTENDS Directory

MC_layers ==
    << [entry_size |-> 4, num_entries |-> 2],
       [entry_size |-> 2, num_entries |-> 2],
       [entry_size |-> 1, num_entries |-> 2] >>

MC_Frames == {MemRegion(b, s) : b \in 0 .. 1, s \in {1, 2, 4}}
=============================================================================
