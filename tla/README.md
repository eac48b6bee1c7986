# TLA+ models of the verified NR kernel page-table specifications

This directory holds TLA+ models of the state machines and algorithms in
`src/page-table/`, together with the TLC configurations that check them.
The Rust/Verus sources are specifications in their own right, written as
`closed spec fn` step relations. The models translate those relations into
TLA+ actions so that TLC can explore every interleaving within small bounds.
The models check the invariants that the Verus proofs state but only partly
prove, because several of those proofs end in `assume(false)` or
`assume(...)`.

## The system

| Part | Source | What it is |
|------|--------|------------|
| hlspec | `spec_t/hlspec.rs` | The abstract, thread-level specification of memory and the page table. Its state is `mem` (word → value), `thread_state` (thread → Empty / Map / Unmap arguments), `mappings` (vaddr → PTE) and `sound`. Its steps are ReadWrite, Map_start/Map_end, Unmap_start/Unmap_end and Stutter. A step that starts an operation overlapping an in-flight one may only move to an unsound state. |
| os | `spec_t/os.rs` | The core-level specification. Hardware state (`global_pt`, per-core `tlb`, `pmem`) is combined with `core_state` (one OSArguments per core), the TLB shootdown matrix, `sound` and `lock`. User threads (ULTs) run on cores given by `ULT2core`. Map and Unmap are split into Start and End. Unmap_Start raises the dispatcher's shootdown row, and Unmap_End waits until that row is clear. |
| interp | `spec_t/os.rs` 106–203 | Maps an os state to an hlspec state. Mappings are the joint TLB entries overlaid on the page table, memory is `pmem` read through those mappings, and each thread's state comes from its core's arguments. |
| spec_pt | `impl_u/spec_pt.rs` | The page-table interface: a map vaddr → PTE with Map, Unmap, Resolve and Stutter steps that carry the result the implementation returns. os.rs uses its Map guard and effect and its Unmap guard. |
| hardware | not under `src/` | The TLB and memory steps named by os.rs (`hardware::step_ReadWrite`, TLBFill, TLBEvict, PTMemOp). They are modelled from the description in `spec.md`. |
| PageTableContents | `spec.rs` 40–303 | A flat abstract page table: the architecture invariant, the map invariant, `map_frame`, `unmap` and `resolve`. |
| Directory | `spec.rs` 306–470 | The page-table tree: well-formedness, the layered invariant, and the recursive `interp_aux` that flattens a directory into a map. |
| pt.rs, system/os.rs, NR types | | Earlier sketches and type declarations. They have no checkable transitions (see "Not modelled"). |

How the parts interact: os.rs calls spec_pt for the page-table side of Map
and Unmap and the hardware steps for loads, stores and TLB traffic. interp
then relates each os step to one hlspec step. Directory's `interp` produces a
PageTableContents map, which is how the tree implements the flat table.

## Modules

- **MemRegions**: `aligned`, `between`, `MemRegion`, `overlap` (spec.rs),
  the `Option` encoding (`None`, `Some`), and map insert/remove helpers.
- **Definitions**: constants `WORD_SIZE`, entry sizes, `MAX_PHYADDR`,
  `UPPER_VADDR`; `PageSizes` (spec_pt.rs) and the bounds and overlap
  predicates over existing mappings.
- **HLSpec** (hlspec.rs): one action per `step_*` with the same name. Every
  guard (`step_X_enabled`) and every soundness test (`step_X_sound`) is a
  separate definition. `next` is the disjunction of hlspec's `next_step`,
  including the branch that moves to an unsound state.
- **SpecPT** (spec_pt.rs): variable `map`, one action per `step_*`
  (`step_Map`, `step_Unmap`, `step_Resolve`, `step_Stutter`), `init`,
  `next` and `Spec`. `step_Map_effect` is the map change of `step_Map`,
  so that os.rs's Map_End can use it without the guard.
- **OSSpec** (os.rs + hardware): `step_HW`, `step_Map_Start`,
  `step_Map_End`, `step_Unmap_Start`, `step_Unmap_End`, `step_Resolve` and
  `step_shootdown`. The page table is composed in as
  `PT == INSTANCE SpecPT WITH map <- global_pt` (os.rs's `pt_variables`).
  Map_Start checks `PT!step_Map_enabled`, Map_End applies
  `PT!step_Map_effect`, and Unmap_Start checks `PT!step_Unmap_enabled`.
  `next` is os.rs's `next_step`, which does *not* contain
  `step_shootdown`. `next_shootdown` adds it as the spec describes.
  `step_unmap_op_end` (os.rs 338-340) is the page-table removal of an
  Unmap: spec_pt's Unmap of the vaddr, and nothing else. os.rs defines it
  but leaves it out of `next_step`, and its predicate leaves every other
  field unconstrained. The model keeps those fields. `UnmapOpEnd(core)`
  takes it for the vaddr of the Unmap that `core` is executing, which is
  the spec's removal stage between Unmap start and end. `next_unmap_op`
  is `next_shootdown` plus this step. Nothing orders the step against the
  acknowledgements or Unmap_End, and the code has no such order either.
  `ShootdownEvict` is the hardware TLBEvict of the vaddr that a pending
  shootdown names. It is already a step of `step_HW` and is named only so
  that fairness can be put on it. `init` is os.rs's `init`.
  `init_idle` adds the idle, sound, unlocked start that
  `os_init_refines_hl_init` assumes.
- **OSRefinesHL**: `interp` in TLA+ and `HL == INSTANCE HLSpec WITH ...` as
  the refinement mapping. `HLSpecRefined == HL!Spec` is checked as a
  temporal property, which is the content of os_refinement.rs's
  `next_step_refines_hl_next_step`. `step_interp` is `OSStep::interp`
  (os.rs 397-431) stated for every label of the step just taken:
  a TLB fill or evict must be an hlspec Stutter, and a Map/Unmap Start or
  End by thread u must be hlspec's step of thread u with the same
  arguments. ReadWrite is left to `HLSpecRefined`, because step_HW ignores
  the ULT_id of its label. A TLA+ step carries no label, so the property
  quantifies over all labels (∀), as the Verus obligation does.
  `SoundnessEquality` states os_refinement.rs's
  `lemma_map_soundness_equality` and `lemma_unmap_soundness_equality`.
  It is checked in the run without Unmap. With an Unmap of an unmapped
  vaddr in flight, hlspec counts a 0-sized region and the OS counts none,
  so the lemmas fail there. That is the divergence `refinement_unmap_unmapped`
  already reports.
- **PageTableContents** (spec.rs): the map as a TLA+ function; `map_frame`
  and `unmap` as actions from every input; `resolve` as an operator.
- **Directory** (spec.rs): a directory as a nested record. `dir_inv` and
  `interp_aux` are RECURSIVE operators. Init ranges over `Roots`, and
  `Next` is the identity, so the run is a bounded exhaustive check of the
  operators, not of behaviours. `Roots` has two parts. `Shaped` builds
  every directory whose layers, bases and page sizes follow the
  architecture; it is built slot by slot (`ShapedSlots`), so TLC never
  filters a large set. `Malformed` adds layer-1 roots whose entries are any
  page or any sub-directory, so that `dir_inv` has something to reject.
  `walk` is a top-down MMU walk of the tree, used only as a reference, and
  `PTCOf(m)` instantiates PageTableContents on `interp(dir)` to use its
  `resolve`.
- **MC_*** modules instantiate the above with model values and small
  definitions.

Rust `Option` is a record `[is_some, val]`. Rust maps are TLA+ functions,
and sets are sets.

### A note on os.rs's soundness updates

In os.rs, `step_Map_Start` (line 287) and `step_Unmap_Start` (line 330)
both write `s2.sound == s1.sound && step_X_sound(...)`. Rust's `==` binds
tighter than `&&`, so this means `(s2.sound == s1.sound) && step_X_sound(...)`.
The soundness test is therefore a *guard*, and the os `sound` flag never
changes. The comment on `OSVariables::sound` says the flag is "set when
operations with overlapping operations are used". The model follows the
code: `UNCHANGED sound` plus the guard. As a result, the OS blocks an
overlapping request instead of flagging it. This is stricter than hlspec,
so it is not a refinement violation. It does mean that a request
overlapping an Unmap that never ends (see `os_unmap_liveness`) is blocked
forever.

## Runs

| Run | Config | Expect | What it checks |
|-----|--------|--------|----------------|
| hl_safety | MC_HLSpec.cfg | pass | With 3 threads, the whole hlspec invariant `inv` (`Inv`) holds in every sound state. The memory domain always equals the words reachable through the mappings (`MemDomainMatchesMappings`). |
| os_safety | MC_OSSpec.cfg | pass | With 3 cores: every TLB entry is in the page table (`TlbSubmapOfPt`); no two committed or in-flight mappings share a physical word (`PtNoPmemOverlap`). |
| os_shootdown | MC_OSShootdown.cfg | pass | The same shootdown property once handlers acknowledge, page-table entries are removed, and Unmap_End can fire (`next_unmap_op`). `PtStepsOfSpecPT == PT!Spec`: every change of `global_pt` is a spec_pt step, including the removal, even though a Map is checked at Start and applied at End while other cores commit in between. |
| os_refines_hl | MC_OSRefinesHL.cfg | pass | Map and hardware steps on 2 cores with 3 threads refine hlspec, once the thread-count off-by-one is repaired and no Unmap is issued (`HLSpecRefined`). Every Start/End step is hlspec's step of the same thread, and every TLB step is an hlspec Stutter (`StepRefinement`). For every candidate vaddr and entry, the OS soundness tests of Map and Unmap agree with hlspec's over the interpreted state (`SoundnessEquality`). The last two catch bugs `HLSpecRefined` misses. Because os.rs's soundness test is a guard, an OS test that is too strict only blocks steps. A thread ending another thread's Map on the same core looks, state by state, like the right thread's step. |
| ptc_ops | MC_PageTableContents.cfg | pass | `inv` is preserved by map_frame/unmap. |
| directory_interp | MC_Directory.cfg | pass | For every well-formed three-layer directory, each `interp_aux` suffix satisfies PageTableContents' invariant within the directory's range (`InterpAuxInv`). PageTableContents' `resolve` of `interp` agrees with a top-down walk of the tree at every address of the range (`WalkMatchesResolve`). |
| refinement_code_thread_no | MC_OSRefinesHL_code.cfg | violation | With the code's `interp_constants` (thread_no = ULT_no), thread ULT_no is invisible to hlspec. Its Map_Start is an hlspec stutter, but its Map_End then adds the mapping to the page table, a change hlspec sees with no thread of its own in Map. `sound` stays TRUE throughout. |
| refinement_unmap_unmapped | MC_OSRefinesHL_unmapsize.cfg | violation | An Unmap of an unmapped vaddr inside an in-flight Map keeps the os sound, while hlspec requires unsound. |
| refinement_unmap_removal | MC_OSRefinesHL_unmapremove.cfg | violation | Unmap_Start leaves the page table unchanged, while hlspec's Unmap_start removes the mapping. |
| refinement_busy_store | MC_OSRefinesHL_busystore.cfg | violation | A store on a core while every thread is busy has no matching hlspec step. |
| os_unmap_liveness | MC_OSUnmapLiveness.cfg | violation | `next_step` has neither the shootdown step nor the removal, so no Unmap completes. The run goes further: with both added (`next_unmap_op`) and the fairness below, an Unmap can still wait forever. Once the removal takes the vaddr out of the page table, `candidate_mapping_overlaps_inflight_vmem` no longer counts the in-flight Unmap (os.rs:232 requires the vaddr to be in the page table). So another thread maps the same vaddr again, the handler's TLB refills it, and the handler never acknowledges (os.rs:348-350). hlspec keeps an in-flight Unmap's region blocked. |
| os_stale_tlb | MC_OSShootdownAck.cfg | violation | A handler acknowledges with a clean TLB and then refills it from the page table before the removal. After Unmap_End has returned, it still translates the vaddr through the removed entry (`StaleTlbOnlyForInflightUnmap`, 9 steps). |

Each violation is listed with its source lines under `findings` in
PROJECT.json. Together they show that os.rs, as it stands in this
repository, does not refine hlspec. os_refinement.rs is written against a
later os.rs (CoreState sub-states, `holds_lock`, `inflight_unmap_vaddr`)
that is not in the tree.

Every property of a passing run also has a mutant in PROJECT.json: a
plausible bug in one mapped definition that TLC reports as a violation of
that property.

## Bounds

- **Addresses and memory**: word size 1, entry sizes 1/2/4, 3 physical
  words, vaddrs {0,1,2}, values {0,1}. Three PTEs (`MC_Entries`) cover
  the interesting cases. Two of them share physical word 0 (a pmem overlap). One reaches
  past physical memory (word 3), which exercises the bounds check in
  ReadWrite. A fourth PTE (word 1) lets three Maps be in flight soundly, so
  that "every thread busy" is reachable. The liveness run uses all four
  (`MC_Entries4`). With only three, every Map a handler can repeat is
  blocked by soundness, and the starvation is hidden by the bound.
- **hl_safety**: 3 threads and the four PTEs, so that three Maps can be
  in flight at once and two of them can race on word 0.
- **os_safety**: 3 cores with one thread each, so that a shootdown by one
  core concerns two others. **os_shootdown** uses 2 cores and vaddrs
  {0, 1}, because acknowledgements and removals multiply the state space.
  Two vaddrs still allow an Unmap of one with a Map of the other in
  flight. The two violation runs over `next_unmap_op` keep vaddrs
  {0, 1, 2}.
- **os_refines_hl**: 2 cores and 3 threads, two of them on c1, so that one
  thread can be idle while both cores are busy.
- **PageTableContents**: three layers (4/2/1, two entries each), frames at
  bases 0..3 of every size, vaddrs 0..5. Unaligned and out-of-range
  requests are among the inputs.
- **Directory**: three layers (4/2/1, two entries each), frames at bases
  0..1 of sizes 1/2/4, and sub-directory bases {0,2} for the malformed
  roots. This covers every nesting depth the architecture allows: pages at
  each layer, empty slots, and directories with a wrong layer or base.

Every bound is named in its cfg or MC module. The violations appear within
the first few steps, so the bounds are not what hides them.

## Fairness

Only `MC_OSUnmapLiveness.cfg` uses fairness (`FairSpecUnmapOp`):
- weak fairness of each thread's `step_Map_End` and `step_Unmap_End`. These
  are the steps the OS itself takes to finish an operation it started.
- strong fairness of each `step_shootdown(handler, dispatcher)`. A
  handler's TLB refill disables the acknowledgement again, so only strong
  fairness says that a handler that keeps getting the chance eventually
  acknowledges.
- weak fairness of `UnmapOpEnd`: a core that executes an Unmap
  eventually removes the entry, as the spec's removal stage does.
- weak fairness of `ShootdownEvict`: a handler's TLB eventually evicts the
  vaddr that a pending shootdown names, as the spec's shootdown handler
  does.

User threads are not assumed to make requests. Other hardware steps are
not assumed fair. Even under these assumptions `UnmapCompletes` fails, and
that failure is the finding.

## Not modelled

- `pt.rs`: `step_Op` is `arbitrary()` and `step_Noop` is the identity.
- `system/os.rs`: superseded, and it refers to functions pt.rs lacks.
- The NR types and `main.rs`: declarations only. os.rs's NR step is
  commented out.
- `os_refinement.rs`'s proofs: they concern an os.rs that is not present.
  Only the idle assumption of `os_init_refines_hl_init` is used
  (`init_idle`).
- The refinement to hlspec with `step_unmap_op_end`. hlspec removes the
  mapping at Unmap_start, and the OS removes it in a later step, so a
  mapping of the two would need the in-flight Unmap to hide the entry in
  `interp`. The refinement runs keep os.rs's `next_step`, which has no
  removal (`refinement_unmap_removal`).
- SpecPT's `step_Resolve` runs only as a disjunct of `PT!Spec` inside
  `PtStepsOfSpecPT`, because os.rs's Resolve is a stutter.
- Hardware internals beyond what os.rs names (page-walk memory layout,
  flags beyond writable).

## Plan for later sittings

0. Done: the soundness-equality lemmas of os_refinement.rs, the
   label-level refinement obligation, and the full hlspec `inv` with three
   threads.
1. Done: the three-layer Directory run with `WalkMatchesResolve`, and
   spec_pt as its own module composed into OSSpec.
2. A repaired os variant (OSv2) with the shootdown step in `next`, eager
   page-table removal in Unmap_Start, and the lock taken around
   page-table writes, following the spec's description. Check it refines
   hlspec with Unmap enabled and prove UnmapCompletes under fairness.
3. Directory's `interp` as a refinement mapping: spec.rs defines map and
   unmap only on PageTableContents. A directory-level map/unmap would have to
   be written from the spec, marked spec-modelled, and shown to refine it.
4. ReadWrite results (the value a load returns) related across interp.
