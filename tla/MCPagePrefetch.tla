--------------------------- MODULE MCPagePrefetch ---------------------------
(* A small instance of PagePrefetch: three URLs of one segment, as renewed   *)
(* tokens make them, two player requests, a queue of two.                    *)
EXTENDS PagePrefetch

CONSTANTS a1, a2, a3, seg

MCKeyOf == [u \in Urls |-> seg]
MCBatches == {<<a2>>, <<a1, a2>>, <<a3, a1>>}
MCKeeps == {{}, {a1}}
=============================================================================
