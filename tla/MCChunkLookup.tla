--------------------------- MODULE MCChunkLookup ----------------------------
(* Instances of ChunkLookup, two kinds of behaviour that differ in their URLs.
   When cleared: the signed URL a and its query-free alias p, stored for the
   page q1 and looked up for another page or for none (which finds what the
   page q1 would), while ClearCache may come. Otherwise:
   p and d, one segment before and after a rotation that bridges them, and e
   of another segment, with no variant in common. *)
EXTENDS ChunkLookup, TLC

CONSTANTS a, p, d, e, q1, q2, b1, b2, w1, r1

VARIABLE cleared

MCVariants == (a :> <<a, p>>) @@ [k \in Keys \ {a} |-> <<k>>]
SelfRegKey == [k \in Keys |-> k]
TwoSegments == [k \in Keys |-> IF k = e THEN {b2} ELSE {b1}]
MCSize == [x \in Bytes |-> 1]
MCTarget == [hard |-> 0, soft |-> 0, reconcile |-> 0]
RotatedPair == {<<p, d>>}

(* The URLs and scopes that the calls of such a behaviour have. No pass sweeps
   here, so a row past its TTL would be like any other. Steps that change the
   registry only, a rebuild first of all, are left out: no lookup, store or
   bridge reads it, so for them such a step is none. *)
OfThisKind ==
    LET urls == (IF cleared THEN {a, p} ELSE {p, d, e}) \cup {Nil}
        stored == IF cleared THEN {q1} ELSE {Nil}
        asked == IF cleared THEN {q2, Nil} ELSE {Nil}
    IN  /\ \A w \in Writers : /\ writer'[w].url \in urls
                              /\ writer'[w].pc # "idle" => writer'[w].scope \in stored
        /\ \A r \in Readers : {reader'[r].url, reader'[r].for} \subseteq urls
                              /\ reader'[r].scope \in asked
        /\ ~cleared => clear' = "idle"
        /\ \A k \in Keys : chunks'[k] # Nil => chunks'[k].age # "expired"
        /\ UNCHANGED <<chunks, aliases, index, dedup, writer, clear, reader>>
              => UNCHANGED registry

MCInit == LookupInit /\ cleared \in BOOLEAN
MCNext == LookupNext /\ OfThisKind /\ UNCHANGED cleared
MCSpec == MCInit /\ [][MCNext]_<<lookupVars, cleared>>
=============================================================================
