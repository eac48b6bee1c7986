---------------------------- MODULE OSRefinesHL ----------------------------
(***************************************************************************)
(* The refinement of hlspec by os (page-table/spec_t/os.rs interp and      *)
(* interp_constants; the proof obligations of impl_u/os_refinement.rs):    *)
(* every OS step is an HL step or an HL stutter of the interpreted state.  *)
(***************************************************************************)
EXTENDS OSSpec

(***************************************************************************)
(* The interpretation                                                      *)
(***************************************************************************)
\* interp_constants: thread_no is ULT_no, so the HL threads are 0..ULT_no-1.
interp_thread_no == ULT_no

\* The union of all TLBs; a vaddr cached with different entries by two
\* cores yields one of them.
joint_tlbs ==
    LET keys == UNION {DOMAIN tlb[c] : c \in Cores} IN
    [v \in keys |-> CHOOSE e \in Entries : \E c \in Cores : v \in DOMAIN tlb[c] /\ tlb[c][v] = e]

\* interp_pt_mem().union_prefer_right(joint_tlbs()): (@@ prefers its left).
effective_mappings == joint_tlbs @@ global_pt

\* A word of virtual memory reads the physical word its mapping translates to.
interp_vmem ==
    LET m == effective_mappings
        mem_domain == {idx \in WordIdx :
                          \E base \in DOMAIN m :
                              /\ between(idx * WORD_SIZE, base, base + m[base].frame.size)
                              /\ word_index_spec(m[base].frame.base + (idx * WORD_SIZE - base)) < phys_mem_size}
    IN
    [idx \in mem_domain |->
        LET vaddr == idx * WORD_SIZE
            base  == CHOOSE b \in DOMAIN m : between(vaddr, b, b + m[b].frame.size)
        IN pmem[word_index_spec(m[base].frame.base + (vaddr - base))]]

\* A thread's in-flight operation is the one its core holds, when that
\* operation was issued by the thread; an Unmap carries the entry the page
\* table holds at its vaddr now.
interp_args(ult_id) ==
    LET a == core_state[ULT2core[ult_id]] IN
    IF a.tag = "Map" /\ a.ULT_id = ult_id
    THEN [tag |-> "Map", vaddr |-> a.vaddr, pte |-> a.pte]
    ELSE IF a.tag = "Unmap" /\ a.ULT_id = ult_id
    THEN [tag |-> "Unmap", vaddr |-> a.vaddr,
          pte |-> IF a.vaddr \in DOMAIN global_pt THEN Some(global_pt[a.vaddr]) ELSE None]
    ELSE Empty

interp_thread_state == [ult_id \in 0 .. interp_thread_no - 1 |-> interp_args(ult_id)]

HL == INSTANCE HLSpec WITH
        thread_no     <- interp_thread_no,
        mem           <- interp_vmem,
        thread_state  <- interp_thread_state,
        mappings      <- effective_mappings,
        sound         <- sound

(***************************************************************************)
(* OSStep::interp: the hlspec step each labelled OS step projects to.     *)
(* A ReadWrite's ULT_id is part of its label only: step_HW ignores it,   *)
(* and for a busy thread no hlspec ReadWrite exists (see                  *)
(* refinement_busy_store), so ReadWrite is left to HLSpecRefined.         *)
(* Resolve_Start/End change nothing and are stuttering steps; PTMemOp is  *)
(* not a step of step_HW.                                                  *)
(***************************************************************************)
\* hlspec::next_step with a given step: the step while sound, else ~sound'.
hl_next_step(A) == IF sound THEN A ELSE ~sound'

os_unchanged == UNCHANGED <<core_state, TLB_Shootdown, sound, lock>>

\* For every label of the step just taken, the hlspec step it projects to
\* holds.
step_interp ==
    /\ \A core \in Cores, v \in VAddrs :
          (hw_step_TLBFill(core, v) \/ hw_step_TLBEvict(core, v)) /\ os_unchanged =>
              hl_next_step(HL!step_Stutter)
    /\ \A u \in ULTs, v \in VAddrs, e \in Entries :
          step_Map_Start(u, v, e) => hl_next_step(HL!step_Map_start(u, v, e))
    /\ \A u \in ULTs : step_Map_End(u) => hl_next_step(HL!step_Map_end(u))
    /\ \A u \in ULTs, v \in UnmapVAddrs :
          step_Unmap_Start(u, v) => hl_next_step(HL!step_Unmap_start(u, v))
    /\ \A u \in ULTs : step_Unmap_End(u) => hl_next_step(HL!step_Unmap_end(u))

(***************************************************************************)
(* Properties                                                              *)
(***************************************************************************)
\* The OS specification, started in an idle sound state (the states
\* os_init_refines_hl_init assumes), implements hlspec under interp: every
\* OS step (a hardware step, Map/Unmap start or end) is an HL step of the
\* interpreted state or leaves it unchanged.
HLSpecRefined == HL!Spec

\* The obligation of next_step_refines_hl_next_step (os_refinement.rs
\* 284-296, spec section 8 property 1): every OS step is the hlspec step
\* that OSStep::interp names for it, with the same thread and arguments,
\* and a TLB fill or eviction is an hlspec Stutter.  Stronger than
\* HLSpecRefined, which accepts any hlspec step.
StepRefinement == [][step_interp]_vars

\* lemma_map_soundness_equality and lemma_unmap_soundness_equality
\* (os_refinement.rs 167-251): for every candidate vaddr and entry, the OS
\* soundness test of a Map (resp. Unmap), made over the page table and the
\* cores' arguments, agrees with hlspec's test over the interpreted mappings
\* and thread states.  Since os.rs turns the test into a guard, a test that
\* is too strict only blocks steps and HLSpecRefined cannot see it; this
\* equality does.
SoundnessEquality ==
    \A v \in VAddrs, e \in Entries :
        /\ HL!step_Map_sound(effective_mappings, Range(interp_thread_state), v, e)
               <=> step_Map_sound(global_pt, Range(core_state), v, e)
        /\ HL!step_Unmap_sound(Range(interp_thread_state), v, e.frame.size)
               <=> step_Unmap_sound(global_pt, Range(core_state), v, e)

=============================================================================
