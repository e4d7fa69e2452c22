---------------------------- MODULE MCChunkStore ----------------------------
(* Instances of ChunkStore: the URL a has the invariant key p and itself as an
   alias; b is a URL without further variants. When a behaviour is calm, two
   stores, the second one of a, race one unforced pass over rows that may lie there from
   an earlier worker; when it is not, IndexedDB may do all it can, to one store
   and two passes. *)
EXTENDS CalmStore, TLC

CONSTANTS a, b, p, b1, b2, w1, w2, e1, e2

KeyedVariants == (a :> <<p, a>>) @@ (b :> <<b>>) @@ (p :> <<p>>)
KeyedRegKey == (a :> p) @@ (b :> b) @@ (p :> p)
OneBytes == [k \in {a, b, p} |-> {b1}]
MCSize == [x \in Bytes |-> 1]
MCTarget == [hard |-> 1, soft |-> 1, reconcile |-> 0]

(* Rows left by an earlier worker are past the duplicate window. *)
LeftOver == {[bytes |-> b1, age |-> "kept", scope |-> Nil], Nil}

MCInit == CalmInit /\ \A k \in Keys : chunks[k] \in IF calm THEN LeftOver ELSE {Nil}
MCNext ==
    \/ /\ calm /\ CalmNext
       /\ pass'[e1].lane # "hard" /\ pass'[e2].pc = "idle" /\ writer'[w2].url # b
    \/ ~calm /\ CacheNext /\ UNCHANGED <<calm, unlisted>> /\ writer'[w2].pc = "idle"
MCSpec == MCInit /\ [][MCNext]_calmVars /\ Fairness
=============================================================================
