------------------------------- MODULE HLSpec -------------------------------
(***************************************************************************)
(* The process-level specification of the kernel's virtual memory:        *)
(* page-table/spec_t/hlspec.rs.  One slot of in-flight arguments per user  *)
(* thread, a flat map of committed mappings, word-indexed virtual memory   *)
(* and the sticky `sound' flag.  Map and Unmap are two-phase (Start/End);  *)
(* ReadWrite is atomic.                                                    *)
(*                                                                         *)
(* Addresses are scaled down: WORD_SIZE, the entry sizes and the address   *)
(* bounds are constants, so a "page" is a handful of words.                *)
(***************************************************************************)
EXTENDS Definitions

CONSTANTS
    thread_no,          \* AbstractConstants.thread_no
    phys_mem_size,      \* AbstractConstants.phys_mem_size, in words
    VAddrs,             \* virtual addresses threads pass to Map/Unmap/ReadWrite
    Entries,            \* PageTableEntry values threads pass to Map
    Values              \* word values a Store may write

VARIABLES
    mem,            \* Map<nat, nat>: word index -> value
    thread_state,   \* Map<nat, AbstractArguments>
    mappings,       \* Map<nat, PageTableEntry>: vaddr -> entry
    sound           \* bool

vars == <<mem, thread_state, mappings, sound>>

Threads == 0 .. thread_no - 1

(***************************************************************************)
(* AbstractArguments                                                       *)
(***************************************************************************)
Empty == [tag |-> "Empty"]
MapArgs(vaddr, pte) == [tag |-> "Map", vaddr |-> vaddr, pte |-> pte]
UnmapArgs(vaddr, pte) == [tag |-> "Unmap", vaddr |-> vaddr, pte |-> pte]

AbstractArguments ==
    {Empty} \cup {MapArgs(v, e) : v \in VAddrs, e \in Entries}
            \cup {UnmapArgs(v, o) : v \in VAddrs, o \in {None} \cup {Some(e) : e \in Entries}}

mem_domain_from_entry_contains(vaddr, base, pte) ==
    /\ between(vaddr, base, base + pte.frame.size)
    /\ word_index_spec(pte.frame.base + (vaddr - base)) < phys_mem_size

mem_domain_from_mappings(m) ==
    {word_idx \in WordIdx :
        \E base \in DOMAIN m : mem_domain_from_entry_contains(word_idx * WORD_SIZE, base, m[base])}

\* The memories a step that recomputes the domain to `dom' may leave: words
\* present before and after keep their value, new words hold any value.
PreservedMem(dom) ==
    {f \in [dom -> Values] : \A idx \in dom \cap DOMAIN mem : f[idx] = mem[idx]}

(***************************************************************************)
(* Overlap with in-flight operations                                       *)
(***************************************************************************)
\* The size an in-flight argument occupies in virtual memory; an Unmap of a
\* vaddr that was not mapped occupies 0.
InflightSize(b) ==
    IF b.tag = "Map" THEN b.pte.frame.size
    ELSE IF b.pte # None THEN Unwrap(b.pte).frame.size ELSE 0

candidate_mapping_overlaps_inflight_vmem(inflightargs, base, candidate_size) ==
    \E b \in inflightargs :
        /\ b.tag \in {"Map", "Unmap"}
        /\ overlap(MemRegion(b.vaddr, InflightSize(b)), MemRegion(base, candidate_size))

candidate_mapping_overlaps_inflight_pmem(inflightargs, candidate) ==
    \E b \in inflightargs :
        \/ b.tag = "Map" /\ overlap(candidate.frame, b.pte.frame)
        \/ b.tag = "Unmap" /\ b.pte # None /\ overlap(candidate.frame, Unwrap(b.pte).frame)

\* After an unsound step the code only demands ~sound'; every other field is
\* unconstrained.
unsound_state == sound' = FALSE

(***************************************************************************)
(* ReadWrite: an atomic load or store through the MMU.  `op' is a Store of *)
(* a value or a Load; `pte' is None or Some(<<base, entry>>).  The result  *)
(* is part of the step label, not of the state.                            *)
(***************************************************************************)
\* Fault variant: a Store writes even when its physical word lies beyond
\* physical memory.
step_ReadWrite_unbounded(thread_id, vaddr, op, pte) ==
    LET vmem_idx == word_index_spec(vaddr) IN
    /\ aligned(vaddr, WORD_SIZE)
    /\ thread_state[thread_id] = Empty
    /\ IF pte # None
       THEN LET base == Unwrap(pte)[1]
                e    == Unwrap(pte)[2]
            IN /\ base \in DOMAIN mappings /\ mappings[base] = e
               /\ between(vaddr, base, base + e.frame.size)
               /\ IF op.kind = "Store" /\ ~e.flags.is_supervisor /\ e.flags.is_writable
                  THEN mem' = MapInsert(mem, vmem_idx, op.new_value)
                  ELSE UNCHANGED mem
       ELSE /\ vmem_idx \notin mem_domain_from_mappings(mappings)
            /\ UNCHANGED mem
    /\ UNCHANGED <<thread_state, mappings, sound>>

step_ReadWrite(thread_id, vaddr, op, pte) ==
    LET vmem_idx == word_index_spec(vaddr) IN
    /\ aligned(vaddr, WORD_SIZE)
    /\ thread_state[thread_id] = Empty
    /\ IF pte # None
       THEN LET base == Unwrap(pte)[1]
                e    == Unwrap(pte)[2]
                pmem_idx == word_index_spec(e.frame.base + (vaddr - base))
            IN /\ base \in DOMAIN mappings /\ mappings[base] = e
               /\ between(vaddr, base, base + e.frame.size)
               /\ IF /\ op.kind = "Store"
                     /\ pmem_idx < phys_mem_size
                     /\ ~e.flags.is_supervisor /\ e.flags.is_writable
                  THEN mem' = MapInsert(mem, vmem_idx, op.new_value)
                  ELSE UNCHANGED mem
       ELSE /\ vmem_idx \notin mem_domain_from_mappings(mappings)
            /\ UNCHANGED mem
    /\ UNCHANGED <<thread_state, mappings, sound>>

(***************************************************************************)
(* Map                                                                     *)
(***************************************************************************)
\* Fault variant: in-flight Maps and Unmaps are not checked for shared
\* physical memory.
step_Map_sound_no_inflight_pmem(m, inflights, vaddr, pte) ==
    /\ ~candidate_mapping_overlaps_inflight_vmem(inflights, vaddr, pte.frame.size)
    /\ ~candidate_mapping_overlaps_existing_pmem(m, pte)

step_Map_sound(m, inflights, vaddr, pte) ==
    /\ ~candidate_mapping_overlaps_inflight_vmem(inflights, vaddr, pte.frame.size)
    /\ ~candidate_mapping_overlaps_existing_pmem(m, pte)
    /\ ~candidate_mapping_overlaps_inflight_pmem(inflights, pte)

step_Map_enabled(vaddr, pte) ==
    /\ aligned(vaddr, pte.frame.size)
    /\ aligned(pte.frame.base, pte.frame.size)
    /\ pte.frame.base <= MAX_PHYADDR
    /\ candidate_mapping_in_bounds(vaddr, pte)
    /\ pte.frame.size \in PageSizes

step_Map_start(thread_id, vaddr, pte) ==
    /\ step_Map_enabled(vaddr, pte)
    /\ thread_state[thread_id] = Empty
    /\ IF step_Map_sound(mappings, Range(thread_state), vaddr, pte)
       THEN /\ thread_state' = [thread_state EXCEPT ![thread_id] = MapArgs(vaddr, pte)]
            /\ UNCHANGED <<mem, mappings, sound>>
       ELSE unsound_state

step_Map_end(thread_id) ==
    LET a == thread_state[thread_id] IN
    /\ a.tag = "Map"
    /\ thread_state' = [thread_state EXCEPT ![thread_id] = Empty]
    /\ UNCHANGED sound
    /\ IF candidate_mapping_overlaps_existing_vmem(mappings, a.vaddr, a.pte)
       THEN UNCHANGED <<mappings, mem>>                            \* result Err
       ELSE /\ mappings' = MapInsert(mappings, a.vaddr, a.pte)         \* result Ok
            /\ mem' \in PreservedMem(mem_domain_from_mappings(mappings'))

(***************************************************************************)
(* Unmap                                                                   *)
(***************************************************************************)
step_Unmap_sound(inflights, vaddr, pte_size) ==
    ~candidate_mapping_overlaps_inflight_vmem(inflights, vaddr, pte_size)

step_Unmap_enabled(vaddr) ==
    /\ vaddr < UPPER_VADDR
    /\ \E size \in PageSizes : aligned(vaddr, size)

\* Fault variant: the captured entry is stored without its Option wrapper.
step_Unmap_start_unwrapped(thread_id, vaddr) ==
    LET pte == IF vaddr \in DOMAIN mappings THEN mappings[vaddr] ELSE None
        pte_size == IF vaddr \in DOMAIN mappings THEN mappings[vaddr].frame.size ELSE 0
        removed == MapRemove(mappings, vaddr)
    IN
    /\ step_Unmap_enabled(vaddr)
    /\ thread_state[thread_id] = Empty
    /\ IF step_Unmap_sound(Range(thread_state), vaddr, pte_size)
       THEN /\ thread_state' = [thread_state EXCEPT ![thread_id] = UnmapArgs(vaddr, pte)]
            /\ IF pte = None
               THEN UNCHANGED <<mappings, mem>>
               ELSE /\ mappings' = removed
                    /\ mem' \in PreservedMem(mem_domain_from_mappings(removed))
            /\ DOMAIN mem' = mem_domain_from_mappings(removed)
            /\ UNCHANGED sound
       ELSE unsound_state

step_Unmap_start(thread_id, vaddr) ==
    LET pte == IF vaddr \in DOMAIN mappings THEN Some(mappings[vaddr]) ELSE None
        pte_size == IF pte # None THEN mappings[vaddr].frame.size ELSE 0
        removed == MapRemove(mappings, vaddr)
    IN
    /\ step_Unmap_enabled(vaddr)
    /\ thread_state[thread_id] = Empty
    /\ IF step_Unmap_sound(Range(thread_state), vaddr, pte_size)
       THEN /\ thread_state' = [thread_state EXCEPT ![thread_id] = UnmapArgs(vaddr, pte)]
            /\ IF pte = None
               THEN UNCHANGED <<mappings, mem>>
               ELSE /\ mappings' = removed
                    /\ mem' \in PreservedMem(mem_domain_from_mappings(removed))
            /\ DOMAIN mem' = mem_domain_from_mappings(removed)
            /\ UNCHANGED sound
       ELSE unsound_state

step_Unmap_end(thread_id) ==
    /\ thread_state[thread_id].tag = "Unmap"
    /\ thread_state' = [thread_state EXCEPT ![thread_id] = Empty]
    /\ UNCHANGED <<sound, mappings, mem>>

step_Stutter == UNCHANGED vars

(***************************************************************************)
(* init and next                                                           *)
(***************************************************************************)
init ==
    /\ mem = <<>>
    /\ mappings = <<>>
    /\ thread_state = [id \in Threads |-> Empty]
    /\ sound = TRUE

RWOps == [kind : {"Store"}, new_value : Values] \cup [kind : {"Load"}, is_exec : BOOLEAN]

RWEntries == {None} \cup {Some(<<b, mappings[b]>>) : b \in DOMAIN mappings}

\* next_step: while sound, one of the steps; once unsound, only ~sound'.
next ==
    IF sound
    THEN \/ \E t \in Threads, v \in VAddrs, op \in RWOps, pte \in RWEntries :
                step_ReadWrite(t, v, op, pte)
         \/ \E t \in Threads, v \in VAddrs, e \in Entries : step_Map_start(t, v, e)
         \/ \E t \in Threads : step_Map_end(t)
         \/ \E t \in Threads, v \in VAddrs : step_Unmap_start(t, v)
         \/ \E t \in Threads : step_Unmap_end(t)
         \/ step_Stutter
    ELSE unsound_state

Spec == init /\ [][next]_vars

(***************************************************************************)
(* Properties                                                              *)
(***************************************************************************)
TypeOK ==
    /\ thread_state \in [Threads -> AbstractArguments]
    /\ IsMap(mappings, VAddrs, Entries)
    /\ IsMap(mem, WordIdx, Values)
    /\ sound \in BOOLEAN

\* Every thread has a slot and only threads have one (domains are finite
\* by construction).
wf == DOMAIN thread_state = Threads

pmem_no_overlap(m) ==
    \A bs1, bs2 \in DOMAIN m : overlap(m[bs1].frame, m[bs2].frame) => bs1 = bs2

inflight_map_no_overlap_pmem(inflightargs, m) ==
    \A b \in inflightargs : b.tag = "Map" => ~candidate_mapping_overlaps_existing_pmem(m, b.pte)

inflight_map_no_overlap_inflight_pmem(inflightargs) ==
    \A b \in inflightargs :
        b.tag = "Map" => ~candidate_mapping_overlaps_inflight_pmem(inflightargs \ {b}, b.pte)

mappings_frame_sizes_over_zero(m) ==
    \A base \in DOMAIN m : m[base].frame.size > 0

inflight_mem_size_over_zero(inflightargs) ==
    \A b \in inflightargs : b.tag = "Map" => b.pte.frame.size > 0

inflight_maps_unique(ts) ==
    \A a \in DOMAIN ts :
        ts[a].tag = "Map" => \A o \in DOMAIN ts \ {a} : ts[o] # ts[a]

\* hlspec.rs inv, which next_step_preserves_inv claims for every sound state:
\* no two committed mappings share physical memory, no in-flight Map shares
\* physical memory with a committed mapping or another in-flight operation,
\* no two threads hold the same in-flight Map, and every committed or
\* in-flight frame has a positive size.
Inv ==
    sound =>
        /\ wf
        /\ pmem_no_overlap(mappings)
        /\ inflight_map_no_overlap_pmem(Range(thread_state), mappings)
        /\ inflight_map_no_overlap_inflight_pmem(Range(thread_state))
        /\ mappings_frame_sizes_over_zero(mappings)
        /\ inflight_mem_size_over_zero(Range(thread_state))
        /\ inflight_maps_unique(thread_state)

\* While sound, the words of virtual memory are exactly those the committed
\* mappings cover within physical memory: Map_end, Unmap_start and Store keep
\* mem's domain in step with `mappings' (Unmap_start of an unmapped vaddr is
\* only enabled when this holds, hlspec.rs:401).
MemDomainMatchesMappings ==
    sound => DOMAIN mem = mem_domain_from_mappings(mappings)

=============================================================================
