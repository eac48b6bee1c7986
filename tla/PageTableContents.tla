-------------------------- MODULE PageTableContents --------------------------
(***************************************************************************)
(* The first refinement layer of page-table/spec.rs: PageTableContents, a *)
(* flat map from virtual base address to the physical frame mapped there, *)
(* for an architecture given as a sequence of layers, with map_frame and   *)
(* unmap as the operations a caller takes one after the other.             *)
(***************************************************************************)
EXTENDS MemRegions, Sequences

CONSTANTS
    layers,     \* Arch.layers: Seq of [entry_size, num_entries], top layer first
    VAddrs,     \* base addresses callers pass to map_frame / unmap
    Frames      \* MemRegions callers pass to map_frame

VARIABLE map    \* PageTableContents.map: Map<nat, MemRegion>

\* Arch::inv: every layer has positive sizes, and a layer's entry covers the
\* whole of the next layer.
arch_inv ==
    \A i \in 1 .. Len(layers) :
        /\ layers[i].entry_size > 0
        /\ layers[i].num_entries > 0
        /\ i + 1 <= Len(layers) =>
               layers[i].entry_size = layers[i + 1].entry_size * layers[i + 1].num_entries

contains_entry_size(entry_size) == \E i \in 1 .. Len(layers) : layers[i].entry_size = entry_size

(***************************************************************************)
(* PageTableContents                                                       *)
(***************************************************************************)
\* Every mapping is aligned in virtual and physical memory to its size, and
\* no two mappings overlap in virtual memory.
inv(m) ==
    /\ arch_inv
    /\ \A va \in DOMAIN m : aligned(va, m[va].size) /\ aligned(m[va].base, m[va].size)
    /\ \A b1, b2 \in DOMAIN m :
           b1 = b2 \/ ~overlap(MemRegion(b1, m[b1].size), MemRegion(b2, m[b2].size))

accepted_mapping(base, frame) ==
    /\ aligned(base, frame.size)
    /\ aligned(frame.base, frame.size)
    /\ contains_entry_size(frame.size)

\* Fault variant: only an existing mapping at the same base is rejected.
valid_mapping_same_base_only(base, frame) == base \notin DOMAIN map

valid_mapping(base, frame) ==
    \A b \in DOMAIN map : ~overlap(MemRegion(base, frame.size), MemRegion(b, map[b].size))

\* Fault variant: the virtual region is stored in place of the frame.
map_frame_stores_vregion(base, frame) ==
    /\ accepted_mapping(base, frame)
    /\ IF valid_mapping(base, frame)
       THEN map' = MapInsert(map, base, MemRegion(base, frame.size))
       ELSE UNCHANGED map

\* map_frame: defined (Ok or Err) only for an accepted mapping; Err leaves
\* the map unchanged.
map_frame(base, frame) ==
    /\ accepted_mapping(base, frame)
    /\ IF valid_mapping(base, frame)
       THEN map' = MapInsert(map, base, frame)
       ELSE UNCHANGED map

\* unmap: defined only for a base that is mapped.
unmap(base) ==
    /\ base \in DOMAIN map
    /\ map' = MapRemove(map, base)

\* resolve: the physical address vaddr translates to, when some mapping
\* contains it.
resolve(vaddr) ==
    LET n == CHOOSE n \in DOMAIN map : n <= vaddr /\ vaddr < n + map[n].size IN
    map[n].base + (vaddr - n)

Init == map = <<>>

Next ==
    \/ \E base \in VAddrs, frame \in Frames : map_frame(base, frame)
    \/ \E base \in VAddrs : unmap(base)

Spec == Init /\ [][Next]_map

(***************************************************************************)
(* Properties                                                              *)
(***************************************************************************)
TypeOK == IsMap(map, VAddrs, Frames)

\* map_frame_preserves_inv and unmap_preserves_inv: from the empty table,
\* every sequence of accepted map_frame and of unmap calls keeps inv.
InvHolds == inv(map)

=============================================================================
