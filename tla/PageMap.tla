------------------------------ MODULE PageMap ------------------------------
(***************************************************************************)
(* What a page table promises the memory set above it                     *)
(* (src/os/src/mm/page_table.rs): a partial map from virtual page numbers  *)
(* to a physical page number and its permissions.  map adds a page that   *)
(* is absent, unmap removes one that is present; nothing else changes     *)
(* what any page translates to.                                           *)
(***************************************************************************)
CONSTANTS VPNs,       \* virtual page numbers
          PPNs,       \* physical page numbers callers map
          Perms,      \* permission sets callers pass
          Unmapped    \* the translation of an absent page

VARIABLE pmap          \* pmap[v]: <<ppn, perm>> or Unmapped

Init == pmap = [v \in VPNs |-> Unmapped]

MapPage(v, p, f) == /\ pmap[v] = Unmapped
                    /\ pmap' = [pmap EXCEPT ![v] = <<p, f>>]

UnmapPage(v) == /\ pmap[v] # Unmapped
                /\ pmap' = [pmap EXCEPT ![v] = Unmapped]

Next == \E v \in VPNs : UnmapPage(v) \/ \E p \in PPNs, f \in Perms : MapPage(v, p, f)

Spec == Init /\ [][Next]_pmap
=============================================================================
