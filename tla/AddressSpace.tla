---------------------------- MODULE AddressSpace ----------------------------
(***************************************************************************)
(* What building page tables is for: a map from virtual pages to what they *)
(* should translate to, which grows page by page.  A page that has been    *)
(* mapped stays as it is, and mapping a page affects no other.             *)
(***************************************************************************)
CONSTANTS
    VirtualPage,  \* the virtual pages
    Home(_),      \* what a page translates to when it is mapped
    Unmapped      \* the translation of a page that faults

VARIABLE mapping  \* the translation of each page

Init == mapping = [v \in VirtualPage |-> Unmapped]

Map ==
    \E v \in VirtualPage :
        /\ mapping[v] = Unmapped
        /\ mapping'[v] = Home(v)
        /\ \A w \in VirtualPage \ {v} : mapping'[w] = mapping[w]

Spec == Init /\ [][Map]_mapping
=============================================================================
