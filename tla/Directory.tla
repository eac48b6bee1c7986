------------------------------ MODULE Directory ------------------------------
(***************************************************************************)
(* The second refinement layer of page-table/spec.rs: a Directory is one  *)
(* node of the page-table tree, its entries Empty, a Page (a frame) or a  *)
(* Directory of the next layer; interp flattens the tree into the          *)
(* PageTableContents map.  Directories are values, so the model takes one  *)
(* directory per initial state and checks what the proofs in spec.rs       *)
(* claim of it.                                                            *)
(***************************************************************************)
EXTENDS MemRegions, Sequences

CONSTANTS
    layers,     \* Arch.layers, top layer first (Directory.layer 0 is layers[1])
    Frames,     \* MemRegions a Page entry may hold
    Bases       \* base_vaddr values a sub-directory may carry

VARIABLE dir

PTC == INSTANCE PageTableContents WITH map <- <<>>, VAddrs <- {}

\* NodeEntry
EmptyEntry == [tag |-> "Empty"]
PageEntry(p) == [tag |-> "Page", page |-> p]
DirEntry(d) == [tag |-> "Directory", dir |-> d]

entry_size(d) == layers[d.layer + 1].entry_size
num_entries(d) == layers[d.layer + 1].num_entries

\* The entry with code index i (0-based).
entry(d, i) == d.entries[i + 1]
Idx(d) == 0 .. Len(d.entries) - 1

well_formed(d) ==
    /\ PTC!arch_inv
    /\ d.layer < Len(layers)
    /\ aligned(d.base_vaddr, entry_size(d) * num_entries(d))
    /\ Len(d.entries) = num_entries(d)

pages_match_entry_size(d) ==
    \A i \in Idx(d) : entry(d, i).tag = "Page" => entry(d, i).page.size = entry_size(d)

directories_are_in_next_layer(d) ==
    \A i \in Idx(d) :
        entry(d, i).tag = "Directory" =>
            /\ entry(d, i).dir.layer = d.layer + 1
            /\ entry(d, i).dir.base_vaddr = d.base_vaddr + i * entry_size(d)

frames_aligned(d) ==
    \A i \in Idx(d) : entry(d, i).tag = "Page" => aligned(entry(d, i).page.base, entry_size(d))

\* Directory::inv; directories_obey_invariant is the recursive conjunct.
RECURSIVE dir_inv(_)
dir_inv(d) ==
    /\ well_formed(d)
    /\ pages_match_entry_size(d)
    /\ directories_are_in_next_layer(d)
    /\ \A i \in Idx(d) : entry(d, i).tag = "Directory" => dir_inv(entry(d, i).dir)
    /\ frames_aligned(d)

\* Fault variants: a page's slot address not scaled by the entry size; the
\* virtual slot stored in place of the page's frame.
RECURSIVE interp_aux_slot_unscaled(_, _)
interp_aux_slot_unscaled(d, i) ==
    IF i >= Len(d.entries) THEN <<>>
    ELSE LET rem == interp_aux_slot_unscaled(d, i + 1)
             e   == entry(d, i)
         IN CASE e.tag = "Page"      -> MapInsert(rem, d.base_vaddr + i, e.page)
              [] e.tag = "Directory" -> interp_aux_slot_unscaled(e.dir, 0) @@ rem
              [] OTHER               -> rem

RECURSIVE interp_aux_stores_vregion(_, _)
interp_aux_stores_vregion(d, i) ==
    IF i >= Len(d.entries) THEN <<>>
    ELSE LET rem == interp_aux_stores_vregion(d, i + 1)
             e   == entry(d, i)
             va  == d.base_vaddr + i * entry_size(d)
         IN CASE e.tag = "Page"      -> MapInsert(rem, va, MemRegion(va, e.page.size))
              [] e.tag = "Directory" -> interp_aux_stores_vregion(e.dir, 0) @@ rem
              [] OTHER               -> rem

\* interp_aux(i): the mappings of entries i.. of d; a Page maps at its slot,
\* a Directory contributes its own interpretation (union_prefer_right).
RECURSIVE interp_aux(_, _)
interp_aux(d, i) ==
    IF i >= Len(d.entries) THEN <<>>
    ELSE LET rem == interp_aux(d, i + 1)
             e   == entry(d, i)
         IN CASE e.tag = "Page"      -> MapInsert(rem, d.base_vaddr + i * entry_size(d), e.page)
              [] e.tag = "Directory" -> interp_aux(e.dir, 0) @@ rem
              [] OTHER               -> rem

\* Fault variant: the interpretation starts after the first entry.
interp_from_one(d) == interp_aux(d, 1)

interp(d) == interp_aux(d, 0)

(***************************************************************************)
(* The directories checked.  Shaped(l, b): every directory of layer l at  *)
(* base b whose sub-directories sit at their slots in the next layer and   *)
(* whose pages have the layer's entry size, aligned or not: every tree of  *)
(* the architecture, which dir_inv accepts when its frames are aligned.    *)
(* Malformed: a root of layer 1 whose entries are any Page of Frames or a  *)
(* directory of any layer and any base of Bases holding Empty and Page     *)
(* entries; most of them dir_inv has to reject.                            *)
(***************************************************************************)
RECURSIVE Shaped(_, _), ShapedSlots(_, _, _)

\* The entry sequences of slots i .. num_entries - 1 of a layer-l directory
\* at base b.
ShapedSlots(l, b, i) ==
    LET es   == layers[l + 1].entry_size
        Slot == {EmptyEntry} \cup {PageEntry(f) : f \in {g \in Frames : g.size = es}}
                  \cup IF l + 1 < Len(layers)
                       THEN {DirEntry(s) : s \in Shaped(l + 1, b + i * es)}
                       ELSE {}
    IN IF i >= layers[l + 1].num_entries THEN {<<>>}
       ELSE LET Rest == ShapedSlots(l, b, i + 1) IN
            {<<x>> \o r : x \in Slot, r \in Rest}

Shaped(l, b) ==
    {[layer |-> l, base_vaddr |-> b, entries |-> es] : es \in ShapedSlots(l, b, 0)}

LeafEntries == {EmptyEntry} \cup {PageEntry(f) : f \in Frames}

SubDirs ==
    UNION {{[layer |-> l, base_vaddr |-> b, entries |-> es] :
               b \in Bases, es \in [1 .. layers[l + 1].num_entries -> LeafEntries]} :
           l \in 0 .. Len(layers) - 1}

Malformed ==
    {[layer |-> 1, base_vaddr |-> 0, entries |-> es] :
        es \in [1 .. layers[2].num_entries -> LeafEntries \cup {DirEntry(s) : s \in SubDirs}]}

Roots == Shaped(0, 0) \cup Malformed

Init == dir \in Roots

\* A directory is a value: nothing changes it.
Next == UNCHANGED dir

Spec == Init /\ [][Next]_dir

(***************************************************************************)
(* Properties                                                              *)
(***************************************************************************)
TypeOK == IsMap(interp(dir), Nat, Frames)

\* inv_implies_interp_aux_inv (its proof in spec.rs rests on several
\* assume()s): for a directory satisfying inv, every suffix interpretation
\* interp_aux(i) satisfies PageTableContents::inv, and its addresses lie
\* between the i-th slot and the end of the directory.
InterpAuxInv ==
    dir_inv(dir) =>
        \A i \in 0 .. Len(dir.entries) :
            LET m == interp_aux(dir, i) IN
            /\ PTC!inv(m)
            /\ \A va \in DOMAIN m :
                   /\ va >= dir.base_vaddr + i * entry_size(dir)
                   /\ va < dir.base_vaddr + num_entries(dir) * entry_size(dir)

\* The translation the MMU performs, top down: the entry covering vaddr
\* in d, then the directory it points to, down to a page, which translates
\* vaddr at its offset from the slot.  None when the walk meets Empty.
RECURSIVE walk(_, _)
walk(d, va) ==
    LET i == (va - d.base_vaddr) \div entry_size(d)
        e == entry(d, i)
    IN CASE e.tag = "Page"      -> Some(e.page.base + (va - (d.base_vaddr + i * entry_size(d))))
         [] e.tag = "Directory" -> walk(e.dir, va)
         [] OTHER               -> None

PTCOf(m) == INSTANCE PageTableContents WITH map <- m, VAddrs <- {}

\* For a directory satisfying inv, PageTableContents::resolve of its
\* interpretation translates every address of the directory's range as
\* the walk down the tree does, and an address is mapped in interp(d)
\* exactly when the walk reaches a page: interp_aux's slot arithmetic and
\* union order agree with the hardware's descent at every depth.
WalkMatchesResolve ==
    dir_inv(dir) =>
        \A va \in dir.base_vaddr .. dir.base_vaddr + num_entries(dir) * entry_size(dir) - 1 :
            LET m      == interp(dir)
                mapped == \E n \in DOMAIN m : between(va, n, n + m[n].size)
            IN walk(dir, va) = IF mapped THEN Some(PTCOf(m)!resolve(va)) ELSE None

=============================================================================
