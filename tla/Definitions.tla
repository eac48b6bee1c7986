---------------------------- MODULE Definitions ----------------------------
(***************************************************************************)
(* The architecture constants of the page-table specifications and the    *)
(* candidate-mapping checks (definitions_t), scaled to small constants.    *)
(***************************************************************************)
EXTENDS MemRegions

CONSTANTS
    WORD_SIZE,          \* bytes per word (8 in the code)
    L1_ENTRY_SIZE,      \* frame sizes of the layers that map pages
    L2_ENTRY_SIZE,
    L3_ENTRY_SIZE,
    MAX_PHYADDR,        \* largest frame base
    UPPER_VADDR         \* x86_arch_spec.upper_vaddr(0, 0) = PT_BOUND_HIGH

ASSUME WORD_SIZE \in Nat \ {0}
ASSUME {L1_ENTRY_SIZE, L2_ENTRY_SIZE, L3_ENTRY_SIZE} \subseteq Nat \ {0}

PageSizes == {L3_ENTRY_SIZE, L2_ENTRY_SIZE, L1_ENTRY_SIZE}

candidate_mapping_in_bounds(base, pte) == base + pte.frame.size < UPPER_VADDR

candidate_mapping_overlaps_existing_vmem(m, base, pte) ==
    \E b \in DOMAIN m :
        overlap(MemRegion(base, pte.frame.size), MemRegion(b, m[b].frame.size))

candidate_mapping_overlaps_existing_pmem(m, pte) ==
    \E b \in DOMAIN m : overlap(pte.frame, m[b].frame)

word_index_spec(addr) == addr \div WORD_SIZE

\* Word indices below the top of the virtual address space.
WordIdx == 0 .. (UPPER_VADDR \div WORD_SIZE)

=============================================================================
