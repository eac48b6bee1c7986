----------------------------- MODULE MemRegions -----------------------------
(***************************************************************************)
(* Memory regions, alignment and overlap (page-table/spec.rs), with the   *)
(* Option and Map helpers every page-table module uses.                    *)
(***************************************************************************)
EXTENDS Naturals, FiniteSets, Functions, TLC

aligned(addr, size) == addr % size = 0

between(x, a, b) == a <= x /\ x < b

MemRegion(b, s) == [base |-> b, size |-> s]

\* Two regions overlap when the later one starts inside the earlier one; a
\* region of size 0 still overlaps one that strictly contains its base.
overlap(region1, region2) ==
    IF region1.base <= region2.base
    THEN region2.base < region1.base + region1.size
    ELSE region1.base < region2.base + region2.size

\* Option<T>
None == [is_some |-> FALSE]
Some(x) == [is_some |-> TRUE, val |-> x]
Unwrap(o) == o.val

\* Map::insert and Map::remove
MapInsert(m, k, v) == (k :> v) @@ m
MapRemove(m, k) == Restrict(m, DOMAIN m \ {k})

\* Map<K, V> with keys in K and values in V, as a predicate.
IsMap(m, K, V) == DOMAIN m \subseteq K /\ \A k \in DOMAIN m : m[k] \in V

=============================================================================
