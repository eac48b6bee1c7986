------------------------------- MODULE OSSpec -------------------------------
(***************************************************************************)
(* The system-level specification: page-table/spec_t/os.rs.  Each core     *)
(* runs at most one privileged operation (core_state); Unmap raises a row  *)
(* of the TLB-shootdown matrix that must be clear before it ends; the      *)
(* hardware (per-core TLBs, physical memory, the global page table) moves  *)
(* by its own steps.                                                       *)
(*                                                                         *)
(* The hardware module is not part of the repository's sources; its state *)
(* and steps follow the interface of the specification: global_pt is      *)
(* kept as its interpretation interp_pt_mem (vaddr -> entry), a TLB is a   *)
(* map vaddr -> entry, physical memory is a sequence of words.  Cores are  *)
(* model values (the code's Core is a NUMA id / core id pair).             *)
(***************************************************************************)
EXTENDS Definitions

CONSTANTS
    Cores,          \* valid_core_id(c.hw, core)
    ULT_no,         \* OSConstants.ULT_no ("highest thread_id")
    ULT2core,       \* OSConstants.ULT2core: user thread -> core
    phys_mem_size,  \* hw.mem.len(), in words
    VAddrs,         \* virtual addresses threads pass to Map/Unmap/ReadWrite
    Entries,        \* PageTableEntry values threads pass to Map
    Values          \* word values of physical memory

\* os.rs:459-460: ULT2core is defined exactly on 0..ULT_no and maps to valid cores.
ULTs == 0 .. ULT_no
ASSUME ULT2core \in [ULTs -> Cores]

VARIABLES
    global_pt,      \* interp_pt_mem(hw.global_pt)
    tlb,            \* per-core TLB
    pmem,           \* hw.mem
    core_state,     \* Map<Core, OSArguments>
    TLB_Shootdown,  \* Map<(Core, Core), bool>: (dispatcher, handler) -> pending
    sound,
    lock            \* Option<Core>

hw == <<global_pt, tlb, pmem>>
vars == <<global_pt, tlb, pmem, core_state, TLB_Shootdown, sound, lock>>

(***************************************************************************)
(* OSArguments                                                             *)
(***************************************************************************)
Empty == [tag |-> "Empty"]
MapArgs(ult, vaddr, pte) == [tag |-> "Map", ULT_id |-> ult, vaddr |-> vaddr, pte |-> pte]
UnmapArgs(ult, vaddr) == [tag |-> "Unmap", ULT_id |-> ult, vaddr |-> vaddr]

OSArguments ==
    {Empty} \cup {MapArgs(u, v, e) : u \in ULTs, v \in VAddrs, e \in Entries}
            \cup {UnmapArgs(u, v) : u \in ULTs, v \in VAddrs}

PAddrs == 0 .. phys_mem_size - 1

(***************************************************************************)
(* Overlap with in-flight operations, over the page table and the         *)
(* arguments held by the cores.  An in-flight Unmap counts with the entry  *)
(* the page table currently holds at its vaddr, if any.                    *)
(***************************************************************************)
candidate_mapping_overlaps_inflight_pmem(pt, inflightargs, candidate) ==
    \E b \in inflightargs :
        \/ b.tag = "Map" /\ overlap(candidate.frame, b.pte.frame)
        \/ b.tag = "Unmap" /\ b.vaddr \in DOMAIN pt /\ overlap(candidate.frame, pt[b.vaddr].frame)

candidate_mapping_overlaps_inflight_vmem(pt, inflightargs, base, candidate) ==
    \E b \in inflightargs :
        \/ /\ b.tag = "Map"
           /\ overlap(MemRegion(b.vaddr, b.pte.frame.size), MemRegion(base, candidate.frame.size))
        \/ /\ b.tag = "Unmap" /\ b.vaddr \in DOMAIN pt
           /\ overlap(MemRegion(b.vaddr, pt[b.vaddr].frame.size), MemRegion(base, candidate.frame.size))

(***************************************************************************)
(* Page-table interface (impl_u/spec_pt.rs) over interp_pt_mem             *)
(***************************************************************************)
PT == INSTANCE SpecPT WITH map <- global_pt

(***************************************************************************)
(* Hardware steps (interface of the hardware module)                       *)
(***************************************************************************)
\* A load or store by `core' at `vaddr'.  With pte = Some(<<base, entry>>)
\* the translation comes from the core's TLB; with None no TLB entry and no
\* page-table entry covers vaddr and the access faults.
hw_step_ReadWrite(core, vaddr, op, pte) ==
    /\ aligned(vaddr, WORD_SIZE)
    /\ IF pte # None
       THEN LET base == Unwrap(pte)[1]
                e    == Unwrap(pte)[2]
                pmem_idx == word_index_spec(e.frame.base + (vaddr - base))
            IN /\ base \in DOMAIN tlb[core] /\ tlb[core][base] = e
               /\ between(vaddr, base, base + e.frame.size)
               /\ IF /\ op.kind = "Store"
                     /\ pmem_idx < phys_mem_size
                     /\ ~e.flags.is_supervisor /\ e.flags.is_writable
                  THEN pmem' = [pmem EXCEPT ![pmem_idx] = op.new_value]
                  ELSE UNCHANGED pmem
       ELSE /\ \A base \in DOMAIN global_pt :
                   ~between(vaddr, base, base + global_pt[base].frame.size)
            /\ \A base \in DOMAIN tlb[core] :
                   ~between(vaddr, base, base + tlb[core][base].frame.size)
            /\ UNCHANGED pmem
    /\ UNCHANGED <<global_pt, tlb>>

\* The MMU caches an entry of the page table.
hw_step_TLBFill(core, vaddr) ==
    /\ vaddr \in DOMAIN global_pt
    /\ tlb' = [tlb EXCEPT ![core] = MapInsert(@, vaddr, global_pt[vaddr])]
    /\ UNCHANGED <<global_pt, pmem>>

\* The MMU drops a cached entry.
hw_step_TLBEvict(core, vaddr) ==
    /\ vaddr \in DOMAIN tlb[core]
    /\ tlb' = [tlb EXCEPT ![core] = MapRemove(@, vaddr)]
    /\ UNCHANGED <<global_pt, pmem>>

\* A write to page-table memory: the TLBs and physical memory are untouched.
hw_step_PTMemOp == UNCHANGED <<tlb, pmem>>

RWOps == [kind : {"Store"}, new_value : Values] \cup [kind : {"Load"}, is_exec : BOOLEAN]

RWEntries(core) == {None} \cup {Some(<<b, tlb[core][b]>>) : b \in DOMAIN tlb[core]}

\* step_HW: any hardware step except PTMemOp; the OS state stays.
step_HW(core) ==
    /\ \/ \E vaddr \in VAddrs, op \in RWOps, pte \in RWEntries(core) :
              hw_step_ReadWrite(core, vaddr, op, pte)
       \/ \E vaddr \in VAddrs : hw_step_TLBFill(core, vaddr)
       \/ \E vaddr \in VAddrs : hw_step_TLBEvict(core, vaddr)
    /\ UNCHANGED <<core_state, TLB_Shootdown, sound, lock>>

(***************************************************************************)
(* Map                                                                     *)
(***************************************************************************)
\* Fault variants: one of the in-flight checks is left out.
step_Map_sound_no_inflight_pmem(pt, inflightargs, vaddr, pte) ==
    /\ ~candidate_mapping_overlaps_existing_pmem(pt, pte)
    /\ ~candidate_mapping_overlaps_inflight_vmem(pt, inflightargs, vaddr, pte)

step_Map_sound_no_inflight_vmem(pt, inflightargs, vaddr, pte) ==
    /\ ~candidate_mapping_overlaps_existing_pmem(pt, pte)
    /\ ~candidate_mapping_overlaps_inflight_pmem(pt, inflightargs, pte)

\* Fault variant: a Map that overlaps an existing mapping in virtual memory
\* is refused at Map_Start, although Map_End reports that case as ErrOverlap.
step_Map_sound_existing_vmem(pt, inflightargs, vaddr, pte) ==
    /\ ~candidate_mapping_overlaps_existing_vmem(pt, vaddr, pte)
    /\ ~candidate_mapping_overlaps_existing_pmem(pt, pte)
    /\ ~candidate_mapping_overlaps_inflight_pmem(pt, inflightargs, pte)
    /\ ~candidate_mapping_overlaps_inflight_vmem(pt, inflightargs, vaddr, pte)

step_Map_sound(pt, inflightargs, vaddr, pte) ==
    /\ ~candidate_mapping_overlaps_existing_pmem(pt, pte)
    /\ ~candidate_mapping_overlaps_inflight_pmem(pt, inflightargs, pte)
    /\ ~candidate_mapping_overlaps_inflight_vmem(pt, inflightargs, vaddr, pte)

\* "s2.sound == s1.sound && step_Map_sound(..)" parses as
\* (s2.sound == s1.sound) && step_Map_sound(..): sound is kept and the
\* soundness check is a guard, so an overlapping Map does not start.
step_Map_Start(ULT_id, vaddr, pte) ==
    LET core == ULT2core[ULT_id] IN
    /\ core_state[core] = Empty
    /\ core_state' = [core_state EXCEPT ![core] = MapArgs(ULT_id, vaddr, pte)]
    /\ UNCHANGED sound
    /\ step_Map_sound(global_pt, Range(core_state), vaddr, pte)
    /\ PT!step_Map_enabled(global_pt, vaddr, pte)
    /\ UNCHANGED <<global_pt, tlb, pmem, TLB_Shootdown, lock>>

\* Fault variant: any thread of the core may end the core's Map.
step_Map_End_any_thread(ULT_id) ==
    LET core == ULT2core[ULT_id]
        a    == core_state[core]
    IN
    /\ a.tag = "Map"
    /\ core_state' = [core_state EXCEPT ![core] = Empty]
    /\ PT!step_Map_effect(a.vaddr, a.pte)
    /\ hw_step_PTMemOp
    /\ UNCHANGED <<TLB_Shootdown, sound, lock>>

step_Map_End(ULT_id) ==
    LET core == ULT2core[ULT_id]
        a    == core_state[core]
    IN
    /\ a.tag = "Map"
    /\ a.ULT_id = ULT_id
    /\ core_state' = [core_state EXCEPT ![core] = Empty]
    /\ PT!step_Map_effect(a.vaddr, a.pte)
    /\ hw_step_PTMemOp
    /\ UNCHANGED <<TLB_Shootdown, sound, lock>>

(***************************************************************************)
(* Unmap                                                                   *)
(***************************************************************************)
step_Unmap_sound(pt, inflightargs, vaddr, pte) ==
    ~candidate_mapping_overlaps_inflight_vmem(pt, inflightargs, vaddr, pte)

\* Fault variant: the shootdown row is written as a function of the handler
\* alone instead of the (dispatcher, handler) matrix.
step_Unmap_Start_row_by_core(ULT_id, vaddr) ==
    LET pt   == global_pt
        core == ULT2core[ULT_id]
    IN
    /\ core_state[core] = Empty
    /\ core_state' = [core_state EXCEPT ![core] = UnmapArgs(ULT_id, vaddr)]
    /\ TLB_Shootdown' = [h \in Cores |-> TRUE]
    /\ UNCHANGED sound
    /\ vaddr \in DOMAIN pt => step_Unmap_sound(pt, Range(core_state), vaddr, pt[vaddr])
    /\ PT!step_Unmap_enabled(vaddr)
    /\ UNCHANGED <<global_pt, tlb, pmem, lock>>

\* The dispatching core raises its whole shootdown row; the hardware, and so
\* the page table, is left as it is.  As in Map_Start, the soundness check
\* of a mapped vaddr is a guard and sound is kept.
step_Unmap_Start(ULT_id, vaddr) ==
    LET pt   == global_pt
        core == ULT2core[ULT_id]
    IN
    /\ core_state[core] = Empty
    /\ core_state' = [core_state EXCEPT ![core] = UnmapArgs(ULT_id, vaddr)]
    /\ TLB_Shootdown' = [p \in Cores \X Cores |->
                            IF p[1] = core THEN TRUE ELSE TLB_Shootdown[p]]
    /\ UNCHANGED sound
    /\ vaddr \in DOMAIN pt => step_Unmap_sound(pt, Range(core_state), vaddr, pt[vaddr])
    /\ PT!step_Unmap_enabled(vaddr)
    /\ UNCHANGED <<global_pt, tlb, pmem, lock>>

\* A handler core acknowledges the shootdown of `dispatcher' once its TLB no
\* longer holds the vaddr being unmapped.  Defined in os.rs but not one of
\* the steps of next_step.
step_shootdown(core, dispatcher) ==
    LET a == core_state[dispatcher] IN
    /\ a.tag = "Unmap"
    /\ a.vaddr \notin DOMAIN tlb[core]
    /\ core_state[core].tag \in {"Unmap", "Empty"}
    /\ TLB_Shootdown[<<dispatcher, core>>]
    /\ TLB_Shootdown' = [TLB_Shootdown EXCEPT ![<<dispatcher, core>>] = FALSE]
    /\ UNCHANGED <<global_pt, tlb, pmem, core_state, sound, lock>>

\* Fault variant: the Unmap ends without waiting for the acknowledgements.
step_Unmap_End_unguarded(ULT_id) ==
    LET core == ULT2core[ULT_id]
        a    == core_state[core]
    IN
    /\ a.tag = "Unmap"
    /\ a.ULT_id = ULT_id
    /\ core_state' = [core_state EXCEPT ![core] = Empty]
    /\ UNCHANGED <<global_pt, tlb, pmem, TLB_Shootdown, sound, lock>>

step_Unmap_End(ULT_id) ==
    LET core == ULT2core[ULT_id]
        a    == core_state[core]
    IN
    /\ a.tag = "Unmap"
    /\ a.ULT_id = ULT_id
    /\ \A id \in Cores : ~TLB_Shootdown[<<core, id>>]
    /\ core_state' = [core_state EXCEPT ![core] = Empty]
    /\ UNCHANGED <<global_pt, tlb, pmem, TLB_Shootdown, sound, lock>>

\* Resolve_Start and Resolve_End leave the state as it is.
step_Resolve == UNCHANGED vars

(***************************************************************************)
(* init and next                                                           *)
(***************************************************************************)
\* os.rs init: empty page table, hardware init (empty TLBs, physical memory
\* of phys_mem_size words), shootdown matrix all false.  core_state, sound
\* and lock are left unconstrained.
init ==
    /\ global_pt = <<>>
    /\ tlb = [c \in Cores |-> <<>>]
    /\ pmem \in [PAddrs -> Values]
    /\ TLB_Shootdown = [p \in Cores \X Cores |-> FALSE]
    /\ core_state \in [Cores -> OSArguments]
    /\ sound \in BOOLEAN
    /\ lock \in {None} \cup {Some(c) : c \in Cores}

\* The initial states the refinement proof starts from (os_refinement.rs
\* os_init_refines_hl_init: every core idle, and hlspec::init needs sound).
init_idle ==
    /\ init
    /\ core_state = [c \in Cores |-> Empty]
    /\ sound = TRUE
    /\ lock = None

\* The addresses threads pass to Unmap; a configuration may narrow them.
UnmapVAddrs == VAddrs

next ==
    \/ \E core \in Cores : step_HW(core)
    \/ \E u \in ULTs, v \in VAddrs, e \in Entries : step_Map_Start(u, v, e)
    \/ \E u \in ULTs : step_Map_End(u)
    \/ \E u \in ULTs, v \in UnmapVAddrs : step_Unmap_Start(u, v)
    \/ \E u \in ULTs : step_Unmap_End(u)
    \/ step_Resolve

Spec == init_idle /\ [][next]_vars

\* next_step with step_shootdown added: handler cores acknowledge an Unmap's
\* shootdown, as the TLB_Shootdown matrix is meant to be used.
next_shootdown ==
    \/ next
    \/ \E core, dispatcher \in Cores : step_shootdown(core, dispatcher)

\* A handler with a pending cell of an Unmap drops the vaddr from its TLB
\* (the invalidation the shootdown requests).
ShootdownEvict(core, dispatcher) ==
    /\ TLB_Shootdown[<<dispatcher, core>>]
    /\ core_state[dispatcher].tag = "Unmap"
    /\ hw_step_TLBEvict(core, core_state[dispatcher].vaddr)
    /\ UNCHANGED <<core_state, TLB_Shootdown, sound, lock>>

(***************************************************************************)
(* The page-table side of an Unmap: step_unmap_op_end (os.rs 338-340) is  *)
(* spec_pt's Unmap of vaddr and constrains nothing else; it is defined    *)
(* but not a step of next_step.  The model keeps the other fields, and    *)
(* takes it for the vaddr of an Unmap a core is executing, the removal    *)
(* stage between Unmap start and end.                                     *)
(***************************************************************************)
step_unmap_op_end(vaddr, result) ==
    /\ PT!step_Unmap(vaddr, result)
    /\ hw_step_PTMemOp
    /\ UNCHANGED <<core_state, TLB_Shootdown, sound, lock>>

UnmapOpEnd(core) ==
    /\ core_state[core].tag = "Unmap"
    /\ core_state[core].vaddr \in DOMAIN global_pt
    /\ step_unmap_op_end(core_state[core].vaddr, "Ok")

\* next_shootdown with the page-table removal of an in-flight Unmap.
next_unmap_op ==
    \/ next_shootdown
    \/ \E core \in Cores : UnmapOpEnd(core)

SpecUnmapOp == init_idle /\ [][next_unmap_op]_vars

\* next_unmap_op with the OS's own steps fair: a started Map or Unmap ends
\* once it can, a core executing an Unmap removes its entry, a handler
\* acknowledges a shootdown it can acknowledge infinitely often (strong: a
\* TLB refill disables it), and a handler with a pending cell invalidates
\* the vaddr.  User threads and the other hardware steps are not fair.
FairSpecUnmapOp ==
    /\ init_idle /\ [][next_unmap_op]_vars
    /\ \A u \in ULTs : WF_vars(step_Map_End(u)) /\ WF_vars(step_Unmap_End(u))
    /\ \A c, d \in Cores : SF_vars(step_shootdown(c, d)) /\ WF_vars(ShootdownEvict(c, d))
    /\ \A c \in Cores : WF_vars(UnmapOpEnd(c))

(***************************************************************************)
(* Properties                                                              *)
(***************************************************************************)
TypeOK ==
    /\ IsMap(global_pt, VAddrs, Entries)
    /\ \A c \in Cores : IsMap(tlb[c], VAddrs, Entries)
    /\ pmem \in [PAddrs -> Values]
    /\ core_state \in [Cores -> OSArguments]
    /\ TLB_Shootdown \in [Cores \X Cores -> BOOLEAN]
    /\ sound \in BOOLEAN
    /\ lock \in {None} \cup {Some(c) : c \in Cores}


\* Every entry a TLB caches is the entry the page table holds at that vaddr
\* (the commented-out tlb_is_submap_of_pt, os.rs:71-73): TLBFill copies from
\* the page table and Map_End never overwrites a vaddr that is mapped.
TlbSubmapOfPt ==
    \A c \in Cores : \A v \in DOMAIN tlb[c] : v \in DOMAIN global_pt /\ tlb[c][v] = global_pt[v]

\* No two page-table entries share physical memory, and no in-flight Map
\* shares physical memory with an entry or with another in-flight Map
\* (hlspec's inv at the OS level): the checks at Map_Start, made against the
\* page table and the other cores' arguments, must still hold when the Maps
\* commit in either order.
PtNoPmemOverlap ==
    LET maps == {a \in Range(core_state) : a.tag = "Map"} IN
    /\ \A b1, b2 \in DOMAIN global_pt :
           overlap(global_pt[b1].frame, global_pt[b2].frame) => b1 = b2
    /\ \A a \in maps : ~candidate_mapping_overlaps_existing_pmem(global_pt, a.pte)
    /\ \A a1, a2 \in maps : a1 # a2 => ~overlap(a1.pte.frame, a2.pte.frame)

\* A pending shootdown cell (dispatcher, handler) belongs to an Unmap the
\* dispatcher is still executing: Unmap_End waits for its whole row to be
\* acknowledged, and only Unmap_Start raises a row.
ShootdownOnlyForInflightUnmap ==
    \A p \in Cores \X Cores : TLB_Shootdown[p] => core_state[p[1]].tag = "Unmap"

\* A TLB caches a translation the page table no longer holds only for the
\* vaddr of an Unmap still in flight: once Unmap_End has returned to the
\* thread, no core translates through the removed entry (the spec: a page
\* is unmapped once every TLB is invalidated).  The shootdown acknowledgement
\* (os.rs 348-350) and the removal (os.rs 338-340) are unordered steps.
StaleTlbOnlyForInflightUnmap ==
    \A c \in Cores : \A v \in DOMAIN tlb[c] :
        (v \notin DOMAIN global_pt \/ global_pt[v] # tlb[c][v])
            => \E d \in Cores : core_state[d].tag = "Unmap" /\ core_state[d].vaddr = v

\* The page table moves only by steps of the page-table interface: every
\* change Map_End makes is a spec_pt step_Map, although os.rs checks
\* step_Map_enabled at Map_Start against the page table of that moment and
\* applies the Map at Map_End, after other cores' Maps may have committed.
PtStepsOfSpecPT == PT!Spec

\* Every Unmap a core starts eventually ends and the core is free again.
UnmapCompletes ==
    \A c \in Cores : (core_state[c].tag = "Unmap") ~> (core_state[c].tag = "Empty")

=============================================================================
