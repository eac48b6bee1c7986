------------------------ MODULE MC_PageTableContents ------------------------
(***************************************************************************)
(* Three layers of two entries each (entry sizes 4, 2, 1): the scaled     *)
(* shape of x86's 512G/1G/2M/4K layers.  Frames cover every base and size *)
(* in physical addresses 0..3, aligned or not.                             *)
(***************************************************************************)
EXTENDS PageTableContents

MC_layers ==
    << [entry_size |-> 4, num_entries |-> 2],
       [entry_size |-> 2, num_entries |-> 2],
       [entry_size |-> 1, num_entries |-> 2] >>

MC_Frames == {MemRegion(b, s) : b \in 0 .. 3, s \in {1, 2, 4}}
=============================================================================
