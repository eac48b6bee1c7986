------------------------------- MODULE SpecPT -------------------------------
(***************************************************************************)
(* The page-table interface: page-table/impl_u/spec_pt.rs.  The state is   *)
(* the map vaddr -> entry; Map, Unmap and Resolve carry the result the     *)
(* implementation returns, and Resolve leaves the map as it is.            *)
(***************************************************************************)
EXTENDS Definitions

CONSTANTS
    VAddrs,         \* virtual addresses passed to Map/Unmap/Resolve
    Entries         \* PageTableEntry values passed to Map

VARIABLE map        \* PageTableVariables.map

MapResults   == {"Ok", "ErrOverlap"}
UnmapResults == {"Ok", "ErrNoSuchMapping"}
ResolveResults ==
    {[tag |-> "ErrUnmapped"]}
        \cup {[tag |-> "Ok", base |-> b, pte |-> e] : b \in VAddrs, e \in Entries}

step_Map_enabled(m, vaddr, pte) ==
    /\ aligned(vaddr, pte.frame.size)
    /\ aligned(pte.frame.base, pte.frame.size)
    /\ pte.frame.base <= MAX_PHYADDR
    /\ candidate_mapping_in_bounds(vaddr, pte)
    /\ pte.frame.size \in PageSizes
    /\ ~candidate_mapping_overlaps_existing_pmem(m, pte)

\* Fault variant: the entry is inserted even over an overlapping mapping.
step_Map_effect_always_insert(vaddr, pte) ==
    map' = MapInsert(map, vaddr, pte)

\* The change step_Map makes to the map: ErrOverlap leaves it, Ok inserts.
step_Map_effect(vaddr, pte) ==
    IF candidate_mapping_overlaps_existing_vmem(map, vaddr, pte)
    THEN UNCHANGED map
    ELSE map' = MapInsert(map, vaddr, pte)

step_Map(vaddr, pte, result) ==
    /\ step_Map_enabled(map, vaddr, pte)
    /\ result = IF candidate_mapping_overlaps_existing_vmem(map, vaddr, pte)
                THEN "ErrOverlap" ELSE "Ok"
    /\ step_Map_effect(vaddr, pte)

\* PT_BOUND_LOW is 0 and PT_BOUND_HIGH is UPPER_VADDR.
step_Unmap_enabled(vaddr) ==
    /\ between(vaddr, 0, UPPER_VADDR)
    /\ \E size \in PageSizes : aligned(vaddr, size)

step_Unmap(vaddr, result) ==
    /\ step_Unmap_enabled(vaddr)
    /\ IF vaddr \in DOMAIN map
       THEN result = "Ok" /\ map' = MapRemove(map, vaddr)
       ELSE result = "ErrNoSuchMapping" /\ UNCHANGED map

\* aligned(vaddr, 8): 8 bytes is one word; MAX_BASE is UPPER_VADDR.
step_Resolve_enabled(vaddr) ==
    /\ aligned(vaddr, WORD_SIZE)
    /\ vaddr < UPPER_VADDR

\* Ok(base, pte) names an entry of the map containing vaddr; ErrUnmapped
\* says no entry does.
step_Resolve(vaddr, result) ==
    /\ step_Resolve_enabled(vaddr)
    /\ UNCHANGED map
    /\ IF result.tag = "Ok"
       THEN /\ result.base \in DOMAIN map /\ map[result.base] = result.pte
            /\ between(vaddr, result.base, result.base + result.pte.frame.size)
       ELSE ~\E b \in DOMAIN map : between(vaddr, b, b + map[b].frame.size)

step_Stutter == UNCHANGED map

init == map = <<>>

next ==
    \/ \E v \in VAddrs, e \in Entries, r \in MapResults : step_Map(v, e, r)
    \/ \E v \in VAddrs, r \in UnmapResults : step_Unmap(v, r)
    \/ \E v \in VAddrs, r \in ResolveResults : step_Resolve(v, r)
    \/ step_Stutter

Spec == init /\ [][next]_map

=============================================================================
