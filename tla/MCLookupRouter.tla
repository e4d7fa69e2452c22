--------------------------- MODULE MCLookupRouter ---------------------------
(* Two lookups of one tab for one segment, and a store of it. *)
EXTENDS LookupRouter, TLC

CONSTANTS l1, l2, s1, tabA, tabB, seg

MCKeyOf == [l \in Lookups |-> seg]
MCTabOf == [l \in Lookups |-> tabA]
MCStoreKey == [s \in Stores |-> seg]
=============================================================================
