------------------------- MODULE PagePrefetchProofs -------------------------
(***************************************************************************)
(* What TLAPS proves of PagePrefetch for every set of URLs, keys, players   *)
(* and batches: the wires of the network coalescer name the fetches they    *)
(* stand for, and outlive them only for players that wait.                  *)
(***************************************************************************)
EXTENDS PagePrefetch, FiniteSetTheorems, TLAPS

WireType ==
    /\ queued \subseteq Urls
    /\ awaits \in [Urls -> Urls \cup {None}]
    /\ run \in [Urls -> {"idle", "fetch", "answered"}]
    /\ waits \in [Players -> Keys \cup {None}]
    /\ wire \in [Keys -> Wires \cup {None}]

(* A fetch belongs to an active URL, so no URL runs two. *)
RunnersAwait == \A u \in Urls : run[u] # "idle" => awaits[u] = u

(* What a wire says of its fetch and of its consumers. *)
WireIsSound(k) ==
    wire[k] # None =>
        /\ KeyOf[wire[k].leader] = k
        /\ wire[k].consumers <= Cardinality(WaitersOf(k))
        /\ wire[k].settled => wire[k].consumers >= 1
        /\ ~wire[k].settled => run[wire[k].leader] # "idle"

WireInv ==
    /\ WireType
    /\ RunnersAwait
    /\ \A k \in Keys : WireIsSound(k)
    /\ WireNamesFetch

(* What WireInv speaks of. *)
wireVars == <<awaits, run, wire, lapsed, waits>>

-----------------------------------------------------------------------------
LEMMA WaitersFinite ==
    ASSUME NEW k PROVE IsFiniteSet(WaitersOf(k)) /\ Cardinality(WaitersOf(k)) \in Nat
<1>1. WaitersOf(k) \subseteq Players
  BY DEF WaitersOf
<1> QED BY <1>1, PrefetchAssumption, FS_Subset, FS_CardinalityType

LEMMA InitWires == Init => WireInv
<1> SUFFICES ASSUME Init PROVE WireInv
  OBVIOUS
<1>1. WireType
  BY PrefetchAssumption DEF Init, WireType
<1>2. RunnersAwait /\ WireNamesFetch
  BY DEF Init, RunnersAwait, WireNamesFetch, Running
<1>3. \A k \in Keys : WireIsSound(k)
  BY DEF Init, WireIsSound
<1> QED BY <1>1, <1>2, <1>3 DEF WireInv

(* A step that leaves the wires, the fetches and the players alone. *)
LEMMA QueueStep ==
    ASSUME WireInv, queued' \subseteq Urls, UNCHANGED wireVars PROVE WireInv'
<1>1. WireType'
  BY DEF WireInv, WireType, wireVars
<1>2. RunnersAwait' /\ WireNamesFetch'
  BY DEF WireInv, RunnersAwait, WireNamesFetch, Running, wireVars
<1>3. (\A k \in Keys : WireIsSound(k))'
  <2> SUFFICES ASSUME NEW k \in Keys PROVE WireIsSound(k)'
    OBVIOUS
  <2>1. WaitersOf(k)' = WaitersOf(k)
    BY DEF WaitersOf, wireVars
  <2> QED BY <2>1 DEF WireInv, WireIsSound, wireVars
<1> QED BY <1>1, <1>2, <1>3 DEF WireInv

-----------------------------------------------------------------------------
LEMMA BeginStep ==
    ASSUME WireInv, NEW u \in Urls, u \notin Active, NEW known, NEW byWorker,
           Begin(u, known, byWorker), queued' \subseteq Urls, waits' = waits
    PROVE  WireInv'
<1> DEFINE k == KeyOf[u]
<1> DEFINE opened == [leader |-> u, consumers |-> 0, settled |-> FALSE]
<1>0. k \in Keys /\ awaits[u] = None /\ run[u] = "idle" /\ lapsed' = lapsed
  BY PrefetchAssumption DEF WireInv, WireType, RunnersAwait, Active, Begin
<1>1. \A j \in Keys : WaitersOf(j)' = WaitersOf(j)
  BY DEF WaitersOf
<1>2. \/ /\ wire[k] = None
         /\ awaits' = [awaits EXCEPT ![u] = u]
         /\ run' = [run EXCEPT ![u] = "fetch"]
         /\ wire' = [wire EXCEPT ![k] = opened]
      \/ /\ awaits' = awaits \/ (wire[k] # None /\ awaits' = [awaits EXCEPT ![u] = wire[k].leader])
         /\ run' = run /\ wire' = wire
  BY DEF Begin
<1>3. CASE /\ wire[k] = None
           /\ awaits' = [awaits EXCEPT ![u] = u]
           /\ run' = [run EXCEPT ![u] = "fetch"]
           /\ wire' = [wire EXCEPT ![k] = opened]
  <2>1. opened \in Wires /\ opened # None
    <3>1. opened \in Wires
      BY DEF Wires
    <3> QED BY <3>1, PrefetchAssumption
  <2>2. WireType'
    BY <1>0, <1>3, <2>1 DEF WireInv, WireType
  <2>3. RunnersAwait'
    BY <1>3 DEF WireInv, WireType, RunnersAwait
  <2>4. (\A j \in Keys : WireIsSound(j))'
    <3> SUFFICES ASSUME NEW j \in Keys PROVE WireIsSound(j)'
      OBVIOUS
    <3>1. CASE j = k
      <4>1. wire'[j] = opened /\ run'[u] = "fetch"
        BY <1>0, <1>3, <3>1 DEF WireInv, WireType
      <4>2. Cardinality(WaitersOf(j)) \in Nat
        BY WaitersFinite
      <4> QED BY <1>1, <3>1, <4>1, <4>2 DEF WireIsSound
    <3>2. CASE j # k
      <4>1. wire'[j] = wire[j]
        BY <1>3, <3>2 DEF WireInv, WireType
      <4>2. wire[j] # None => wire[j].leader \in Urls /\ KeyOf[wire[j].leader] = j
        BY DEF WireInv, WireType, Wires, WireIsSound
      <4>3. wire[j] # None => run'[wire[j].leader] = run[wire[j].leader]
        BY <1>3, <3>2, <4>2 DEF WireInv, WireType
      <4> QED BY <1>1, <4>1, <4>3 DEF WireInv, WireIsSound
    <3> QED BY <3>1, <3>2
  <2>5. WireNamesFetch'
    <3> SUFFICES ASSUME NEW v \in Urls, run'[v] # "idle", v \notin lapsed
                 PROVE  /\ wire'[KeyOf[v]] # None
                        /\ wire'[KeyOf[v]].leader = v /\ ~wire'[KeyOf[v]].settled
      BY <1>0 DEF WireNamesFetch, Running
    <3>0. KeyOf[v] \in Keys
      BY PrefetchAssumption
    <3>1. CASE v = u
      <4>1. wire'[k] = opened
        BY <1>0, <1>3 DEF WireInv, WireType
      <4> QED BY <2>1, <3>1, <4>1
    <3>2. CASE v # u
      <4>1. run[v] # "idle"
        BY <1>3, <3>2 DEF WireInv, WireType
      <4>2. /\ wire[KeyOf[v]] # None
            /\ wire[KeyOf[v]].leader = v /\ ~wire[KeyOf[v]].settled
        BY <4>1 DEF WireInv, WireNamesFetch, Running
      <4>3. wire'[KeyOf[v]] = wire[KeyOf[v]]
        BY <1>3, <3>0, <4>2 DEF WireInv, WireType
      <4> QED BY <4>2, <4>3
    <3> QED BY <3>1, <3>2
  <2> QED BY <2>2, <2>3, <2>4, <2>5 DEF WireInv
<1>4. CASE /\ awaits' = awaits \/ (wire[k] # None /\ awaits' = [awaits EXCEPT ![u] = wire[k].leader])
           /\ run' = run /\ wire' = wire
  <2>1. wire[k] # None => wire[k].leader \in Urls
    BY <1>0 DEF WireInv, WireType, Wires
  <2>2. WireType'
    BY <1>4, <2>1 DEF WireInv, WireType
  <2>3. RunnersAwait'
    BY <1>0, <1>4 DEF WireInv, WireType, RunnersAwait
  <2>4. WireNamesFetch'
    BY <1>0, <1>4 DEF WireInv, WireNamesFetch, Running
  <2>5. (\A j \in Keys : WireIsSound(j))'
    BY <1>1, <1>4 DEF WireInv, WireIsSound
  <2> QED BY <2>2, <2>3, <2>4, <2>5 DEF WireInv
<1> QED BY <1>2, <1>3, <1>4

-----------------------------------------------------------------------------
LEMMA FinishStep ==
    ASSUME WireInv, NEW u \in Urls, Finish(u) PROVE WireInv'
<1> DEFINE k == KeyOf[u]
<1>0. /\ k \in Keys
      /\ run' = [run EXCEPT ![u] = "idle"]
      /\ lapsed' = lapsed \ {u}
      /\ wire' = [wire EXCEPT ![k] = WireAfter(u)]
      /\ awaits' = [v \in Urls |-> IF awaits[v] = u THEN None ELSE awaits[v]]
      /\ queued' = queued /\ waits' = waits
  BY PrefetchAssumption DEF Finish, queueVars
<1>1. /\ wire[k] \in Wires \cup {None}
      /\ wire[k] # None => wire[k] \in Wires /\ wire[k].leader \in Urls
                           /\ wire[k].consumers \in Nat /\ KeyOf[wire[k].leader] = k
  BY <1>0 DEF WireInv, WireType, Wires, WireIsSound
<1>2. /\ WireAfter(u) \in Wires \cup {None}
      /\ \/ WireAfter(u) = None
         \/ WireAfter(u) = wire[k] /\ wire[k] # None /\ wire[k].leader # u
         \/ /\ wire[k] # None /\ wire[k].leader = u /\ wire[k].consumers >= 1
            /\ WireAfter(u) = [wire[k] EXCEPT !.settled = TRUE]
            /\ WireAfter(u) # None
  <2>1. CASE wire[k] = None \/ wire[k].leader # u
    BY <1>1, <2>1 DEF WireAfter
  <2>2. CASE wire[k] # None /\ wire[k].leader = u /\ wire[k].consumers > 0
    <3>1. WireAfter(u) = [wire[k] EXCEPT !.settled = TRUE]
      BY <2>2 DEF WireAfter
    <3>2. [wire[k] EXCEPT !.settled = TRUE] \in Wires
      BY <1>1, <2>2 DEF Wires
    <3> QED BY <1>1, <2>2, <3>1, <3>2, PrefetchAssumption
  <2>3. CASE wire[k] # None /\ wire[k].leader = u /\ ~(wire[k].consumers > 0)
    BY <2>3 DEF WireAfter
  <2> QED BY <2>1, <2>2, <2>3
<1>3. WireType'
  BY <1>0, <1>2 DEF WireInv, WireType
<1>4. RunnersAwait'
  BY <1>0 DEF WireInv, WireType, RunnersAwait
<1>5. wire'[k] = WireAfter(u) /\ \A j \in Keys \ {k} : wire'[j] = wire[j]
  BY <1>0 DEF WireInv, WireType
<1>6. (\A j \in Keys : WireIsSound(j))'
  <2> SUFFICES ASSUME NEW j \in Keys PROVE WireIsSound(j)'
    OBVIOUS
  <2>0. WaitersOf(j)' = WaitersOf(j) /\ WireIsSound(j)
    BY <1>0 DEF WaitersOf, WireInv
  <2>1. \A v \in Urls \ {u} : run'[v] = run[v]
    BY <1>0 DEF WireInv, WireType
  <2>2. CASE j # k
    <3>1. wire'[j] = wire[j]
      BY <1>5, <2>2
    <3>2. wire[j] # None => wire[j].leader \in Urls /\ wire[j].leader # u
      BY <2>0, <2>2 DEF WireInv, WireType, Wires, WireIsSound
    <3> QED BY <2>0, <2>1, <3>1, <3>2 DEF WireIsSound
  <2>3. CASE j = k /\ WireAfter(u) = wire[k] /\ wire[k] # None /\ wire[k].leader # u
    <3>1. wire'[j] = wire[j] /\ run'[wire[j].leader] = run[wire[j].leader]
      BY <1>1, <1>5, <2>1, <2>3
    <3> QED BY <2>0, <3>1 DEF WireIsSound
  <2>4. CASE /\ j = k /\ wire[k] # None /\ wire[k].leader = u /\ wire[k].consumers >= 1
             /\ WireAfter(u) = [wire[k] EXCEPT !.settled = TRUE]
    <3>1. /\ wire'[j].leader = u /\ wire'[j].consumers = wire[j].consumers
          /\ wire'[j].settled
      BY <1>1, <1>5, <2>4 DEF Wires
    <3> QED BY <2>0, <2>4, <3>1 DEF WireIsSound
  <2>5. CASE j = k /\ WireAfter(u) = None
    BY <1>5, <2>5 DEF WireIsSound
  <2> QED BY <1>2, <2>2, <2>3, <2>4, <2>5
<1>7. WireNamesFetch'
  <2> SUFFICES ASSUME NEW v \in Urls, run'[v] # "idle", v \notin lapsed \ {u}
               PROVE  /\ wire'[KeyOf[v]] # None
                      /\ wire'[KeyOf[v]].leader = v /\ ~wire'[KeyOf[v]].settled
    BY <1>0 DEF WireNamesFetch, Running
  <2>1. v # u /\ run[v] # "idle" /\ v \notin lapsed /\ KeyOf[v] \in Keys
    BY <1>0, PrefetchAssumption DEF WireInv, WireType
  <2>2. /\ wire[KeyOf[v]] # None
        /\ wire[KeyOf[v]].leader = v /\ ~wire[KeyOf[v]].settled
    BY <2>1 DEF WireInv, WireNamesFetch, Running
  <2>3. wire'[KeyOf[v]] = wire[KeyOf[v]]
    <3>1. CASE KeyOf[v] = k
      <4>1. wire[k] # None /\ wire[k].leader # u
        BY <2>1, <2>2, <3>1
      <4>2. WireAfter(u) = wire[k]
        BY <4>1 DEF WireAfter
      <4> QED BY <1>5, <3>1, <4>2
    <3>2. CASE KeyOf[v] # k
      BY <1>5, <2>1, <3>2
    <3> QED BY <3>1, <3>2
  <2> QED BY <2>2, <2>3
<1> QED BY <1>3, <1>4, <1>6, <1>7 DEF WireInv

-----------------------------------------------------------------------------
LEMMA PurgeStep ==
    ASSUME WireInv, NEW k \in Keys, Purge(k) PROVE WireInv'
<1>0. /\ wire[k] # None
      /\ wire' = [wire EXCEPT ![k] = None]
      /\ lapsed' = IF wire[k].settled THEN lapsed ELSE lapsed \cup {wire[k].leader}
      /\ UNCHANGED <<queued, awaits, run, waits>>
  BY DEF Purge, queueVars
<1>1. wire'[k] = None /\ \A j \in Keys \ {k} : wire'[j] = wire[j]
  BY <1>0 DEF WireInv, WireType
<1>2. WireType'
  BY <1>0 DEF WireInv, WireType
<1>3. RunnersAwait'
  BY <1>0 DEF WireInv, RunnersAwait
<1>4. (\A j \in Keys : WireIsSound(j))'
  <2> SUFFICES ASSUME NEW j \in Keys PROVE WireIsSound(j)'
    OBVIOUS
  <2>1. WaitersOf(j)' = WaitersOf(j)
    BY <1>0 DEF WaitersOf
  <2> QED BY <1>0, <1>1, <2>1 DEF WireInv, WireIsSound
<1>5. WireNamesFetch'
  <2> SUFFICES ASSUME NEW v \in Urls, run[v] # "idle", v \notin lapsed'
               PROVE  /\ wire'[KeyOf[v]] # None
                      /\ wire'[KeyOf[v]].leader = v /\ ~wire'[KeyOf[v]].settled
    BY <1>0 DEF WireNamesFetch, Running
  <2>1. v \notin lapsed /\ KeyOf[v] \in Keys
    BY <1>0, PrefetchAssumption
  <2>2. /\ wire[KeyOf[v]] # None
        /\ wire[KeyOf[v]].leader = v /\ ~wire[KeyOf[v]].settled
    BY <2>1 DEF WireInv, WireNamesFetch, Running
  <2>3. KeyOf[v] # k
    BY <1>0, <2>2
  <2> QED BY <1>1, <2>1, <2>2, <2>3
<1> QED BY <1>2, <1>3, <1>4, <1>5 DEF WireInv

LEMMA WaitStep ==
    ASSUME WireInv, NEW p \in Players, NEW k \in Keys, Wait(p, k) PROVE WireInv'
<1> DEFINE more == [wire[k] EXCEPT !.consumers = @ + 1]
<1>0. /\ waits[p] = None /\ k # None
      /\ waits' = [waits EXCEPT ![p] = k]
      /\ wire' = IF wire[k] = None THEN wire ELSE [wire EXCEPT ![k] = more]
      /\ UNCHANGED <<queued, awaits, run, lapsed>>
  BY PrefetchAssumption DEF Wait, queueVars
<1>1. wire[k] # None => /\ wire[k] \in Wires
                        /\ wire[k].leader \in Urls /\ wire[k].consumers \in Nat
  BY DEF WireInv, WireType, Wires
<1>2. wire[k] # None => /\ more \in Wires /\ more # None
                        /\ more.leader = wire[k].leader
                        /\ more.settled = wire[k].settled
                        /\ more.consumers = wire[k].consumers + 1
  <2> SUFFICES ASSUME wire[k] # None
               PROVE  more \in Wires /\ more # None /\ more.leader = wire[k].leader
                      /\ more.settled = wire[k].settled
                      /\ more.consumers = wire[k].consumers + 1
    OBVIOUS
  <2>1. more \in Wires
    BY <1>1 DEF Wires
  <2>2. /\ more.leader = wire[k].leader /\ more.settled = wire[k].settled
        /\ more.consumers = wire[k].consumers + 1
    BY <1>1 DEF Wires
  <2> QED BY <2>1, <2>2, PrefetchAssumption
<1>3. /\ \A j \in Keys \ {k} : wire'[j] = wire[j]
      /\ wire'[k] = IF wire[k] = None THEN None ELSE more
  BY <1>0 DEF WireInv, WireType
<1>4. WireType'
  BY <1>0, <1>2 DEF WireInv, WireType
<1>5. RunnersAwait'
  BY <1>0 DEF WireInv, RunnersAwait
<1>6. (\A j \in Keys : WireIsSound(j))'
  <2> SUFFICES ASSUME NEW j \in Keys PROVE WireIsSound(j)'
    OBVIOUS
  <2>0. WireIsSound(j)
    BY DEF WireInv
  <2>1. CASE j # k
    <3>1. WaitersOf(j)' = WaitersOf(j)
      BY <1>0, <2>1, PrefetchAssumption DEF WaitersOf, WireInv, WireType
    <3> QED BY <1>0, <1>3, <2>0, <2>1, <3>1 DEF WireIsSound
  <2>2. CASE j = k
    <3>1. WaitersOf(j)' = WaitersOf(j) \cup {p} /\ p \notin WaitersOf(j)
      BY <1>0, <2>2 DEF WaitersOf, WireInv, WireType
    <3>2. Cardinality(WaitersOf(j)') = Cardinality(WaitersOf(j)) + 1
      BY <3>1, WaitersFinite, FS_AddElement
    <3>3. Cardinality(WaitersOf(j)) \in Nat
      BY WaitersFinite
    <3> QED BY <1>0, <1>1, <1>2, <1>3, <2>0, <2>2, <3>2, <3>3 DEF WireIsSound
  <2> QED BY <2>1, <2>2
<1>7. WireNamesFetch'
  <2> SUFFICES ASSUME NEW v \in Urls, run[v] # "idle", v \notin lapsed
               PROVE  /\ wire'[KeyOf[v]] # None
                      /\ wire'[KeyOf[v]].leader = v /\ ~wire'[KeyOf[v]].settled
    BY <1>0 DEF WireNamesFetch, Running
  <2>1. /\ wire[KeyOf[v]] # None /\ KeyOf[v] \in Keys
        /\ wire[KeyOf[v]].leader = v /\ ~wire[KeyOf[v]].settled
    BY PrefetchAssumption DEF WireInv, WireNamesFetch, Running
  <2> QED BY <1>2, <1>3, <2>1
<1> QED BY <1>4, <1>5, <1>6, <1>7 DEF WireInv

LEMMA LeaveStep ==
    ASSUME WireInv, NEW p \in Players, Leave(p) PROVE WireInv'
<1> DEFINE k == waits[p]
<1> DEFINE left == IF wire[k].consumers > 0 THEN wire[k].consumers - 1 ELSE 0
<1>0. /\ k \in Keys
      /\ waits' = [waits EXCEPT ![p] = None]
      /\ wire' = IF wire[k] = None THEN wire ELSE [wire EXCEPT ![k] = Released(wire[k])]
      /\ UNCHANGED <<queued, awaits, run, lapsed>>
  BY DEF Leave, queueVars, WireInv, WireType
<1>1. wire[k] # None => /\ wire[k] \in Wires /\ left \in Nat
                        /\ wire[k].consumers \in Nat
  BY <1>0 DEF WireInv, WireType, Wires
<1>2. wire[k] # None =>
        /\ Released(wire[k]) \in Wires \cup {None}
        /\ Released(wire[k]) # None =>
              /\ Released(wire[k]).leader = wire[k].leader
              /\ Released(wire[k]).settled = wire[k].settled
              /\ Released(wire[k]).consumers = left
              /\ wire[k].settled => left # 0
        /\ ~wire[k].settled => Released(wire[k]) # None
  <2> SUFFICES ASSUME wire[k] # None
               PROVE  /\ Released(wire[k]) \in Wires \cup {None}
                      /\ Released(wire[k]) # None =>
                            /\ Released(wire[k]).leader = wire[k].leader
                            /\ Released(wire[k]).settled = wire[k].settled
                            /\ Released(wire[k]).consumers = left
                            /\ wire[k].settled => left # 0
                      /\ ~wire[k].settled => Released(wire[k]) # None
    OBVIOUS
  <2> DEFINE less == [wire[k] EXCEPT !.consumers = left]
  <2>1. less \in Wires
    BY <1>1 DEF Wires
  <2>2. /\ less.leader = wire[k].leader /\ less.settled = wire[k].settled
        /\ less.consumers = left
    BY <1>1 DEF Wires
  <2>3. less # None
    BY <2>1, PrefetchAssumption
  <2>4. Released(wire[k]) = IF left = 0 /\ wire[k].settled THEN None ELSE less
    BY DEF Released
  <2> QED BY <2>1, <2>2, <2>3, <2>4
<1>3. /\ \A j \in Keys \ {k} : wire'[j] = wire[j]
      /\ wire'[k] = IF wire[k] = None THEN None ELSE Released(wire[k])
  BY <1>0 DEF WireInv, WireType
<1>4. WireType'
  BY <1>0, <1>2 DEF WireInv, WireType
<1>5. RunnersAwait'
  BY <1>0 DEF WireInv, RunnersAwait
<1>6. (\A j \in Keys : WireIsSound(j))'
  <2> SUFFICES ASSUME NEW j \in Keys PROVE WireIsSound(j)'
    OBVIOUS
  <2>0. WireIsSound(j)
    BY DEF WireInv
  <2>1. CASE j # k
    <3>1. WaitersOf(j)' = WaitersOf(j)
      BY <1>0, <2>1, PrefetchAssumption DEF WaitersOf, WireInv, WireType
    <3> QED BY <1>0, <1>3, <2>0, <2>1, <3>1 DEF WireIsSound
  <2>2. CASE j = k
    <3>1. WaitersOf(j)' = WaitersOf(j) \ {p} /\ p \in WaitersOf(j)
      BY <1>0, <2>2, PrefetchAssumption DEF WaitersOf, WireInv, WireType
    <3>2. Cardinality(WaitersOf(j)') = Cardinality(WaitersOf(j)) - 1
      BY <3>1, WaitersFinite, FS_RemoveElement
    <3>3. Cardinality(WaitersOf(j)) \in Nat /\ Cardinality(WaitersOf(j)) # 0
      BY <3>1, WaitersFinite, FS_EmptySet
    <3> QED BY <1>0, <1>1, <1>2, <1>3, <2>0, <2>2, <3>2, <3>3 DEF WireIsSound
  <2> QED BY <2>1, <2>2
<1>7. WireNamesFetch'
  <2> SUFFICES ASSUME NEW v \in Urls, run[v] # "idle", v \notin lapsed
               PROVE  /\ wire'[KeyOf[v]] # None
                      /\ wire'[KeyOf[v]].leader = v /\ ~wire'[KeyOf[v]].settled
    BY <1>0 DEF WireNamesFetch, Running
  <2>1. /\ wire[KeyOf[v]] # None /\ KeyOf[v] \in Keys
        /\ wire[KeyOf[v]].leader = v /\ ~wire[KeyOf[v]].settled
    BY PrefetchAssumption DEF WireInv, WireNamesFetch, Running
  <2> QED BY <1>2, <1>3, <2>1
<1> QED BY <1>4, <1>5, <1>6, <1>7 DEF WireInv

-----------------------------------------------------------------------------
LEMMA DelegateStep ==
    ASSUME WireInv, NEW batch \in Batches, NEW g, NEW replaces \in BOOLEAN,
           Delegate(batch, g, replaces)
    PROVE  WireInv'
<1>1. Range(batch) \subseteq Urls
  BY PrefetchAssumption DEF Range
<1>2. queued' \subseteq queued \cup Range(batch)
  BY DEF Delegate
<1>3. queued \subseteq Urls
  BY DEF WireInv, WireType
<1>4. UNCHANGED wireVars
  BY DEF Delegate, wireVars
<1> QED BY <1>1, <1>2, <1>3, <1>4, QueueStep

LEMMA WorkerStep ==
    ASSUME WireInv, WorkerTurn PROVE WireInv'
<1>1. queued \subseteq Urls
  BY DEF WireInv, WireType
<1>2. CASE WorkerParks
  <2>1. queued' \subseteq Urls
    BY <1>1, <1>2 DEF WorkerParks, Unqueue
  <2>2. UNCHANGED wireVars
    BY <1>2 DEF WorkerTurn, WorkerParks, fetchVars, wireVars
  <2> QED BY <2>1, <2>2, QueueStep
<1>3. ASSUME NEW i \in DOMAIN queue, WorkerTakes(i) PROVE WireInv'
  <2> DEFINE gone == late \cup {queue[j] : j \in 1..i}
  <2>1. queue[i] \in Urls /\ queue[i] \notin Active
    BY <1>1, <1>3 DEF WorkerTakes, Passed
  <2>2. queued' \subseteq Urls
    BY <1>1, <1>3 DEF WorkerTakes, Unqueue
  <2>3. Begin(queue[i], Forgetting(gone), TRUE) /\ waits' = waits
    BY <1>3 DEF WorkerTakes, WorkerTurn
  <2> QED BY <2>1, <2>2, <2>3, BeginStep
<1> QED BY <1>2, <1>3 DEF WorkerTurn

LEMMA DemandStep ==
    ASSUME WireInv, NEW u \in Urls, Demand(u) PROVE WireInv'
<1>1. queued' \subseteq Urls /\ waits' = waits
  BY DEF Demand, Unqueue, WireInv, WireType
<1>2. CASE u \in Active
  <2>1. UNCHANGED wireVars
    BY <1>2 DEF Demand, fetchVars, wireVars
  <2> QED BY <1>1, <2>1, QueueStep
<1>3. CASE u \notin Active
  <2>1. Begin(u, [urlGen EXCEPT ![u] = gen], FALSE)
    BY <1>3 DEF Demand
  <2> QED BY <1>1, <1>3, <2>1, BeginStep
<1> QED BY <1>2, <1>3

LEMMA AdvanceStep ==
    ASSUME WireInv, NEW u \in Urls, Advance(u) PROVE WireInv'
<1>0. /\ run[u] = "fetch" /\ run' = [run EXCEPT ![u] = "answered"]
      /\ UNCHANGED <<queued, awaits, wire, lapsed, waits>>
  BY DEF Advance, queueVars
<1>1. \A v \in Urls : (run'[v] # "idle") = (run[v] # "idle")
  BY <1>0 DEF WireInv, WireType
<1>2. WireType'
  BY <1>0 DEF WireInv, WireType
<1>3. RunnersAwait' /\ WireNamesFetch'
  BY <1>0, <1>1 DEF WireInv, RunnersAwait, WireNamesFetch, Running
<1>4. (\A j \in Keys : WireIsSound(j))'
  <2> SUFFICES ASSUME NEW j \in Keys PROVE WireIsSound(j)'
    OBVIOUS
  <2>1. WaitersOf(j)' = WaitersOf(j) /\ WireIsSound(j)
    BY <1>0 DEF WaitersOf, WireInv
  <2>2. wire[j] # None => wire[j].leader \in Urls
    BY DEF WireInv, WireType, Wires
  <2> QED BY <1>0, <1>1, <2>1, <2>2 DEF WireIsSound
<1> QED BY <1>2, <1>3, <1>4 DEF WireInv

LEMMA WireStep == WireInv /\ [Next]_vars => WireInv'
<1> SUFFICES ASSUME WireInv, [Next]_vars PROVE WireInv'
  OBVIOUS
<1>0. queued \subseteq Urls
  BY DEF WireInv, WireType
<1>1. ASSUME NEW keep \in Keeps, NEW g \in gen..MaxGen, Cancel(keep, g) PROVE WireInv'
  BY <1>0, <1>1, QueueStep DEF Cancel, wireVars
<1>2. ASSUME NEW batch \in Batches, NEW g \in gen..MaxGen, NEW replaces \in BOOLEAN,
             Delegate(batch, g, replaces)
      PROVE  WireInv'
  BY <1>2, DelegateStep
<1>3. CASE PushBufferLoad
  BY <1>0, <1>3, QueueStep DEF PushBufferLoad, queueVars, fetchVars, wireVars
<1>4. CASE WorkerTurn
  BY <1>4, WorkerStep
<1>5. ASSUME NEW u \in Urls, GrowLate(u) PROVE WireInv'
  BY <1>0, <1>5, QueueStep DEF GrowLate, fetchVars, wireVars
<1>6. ASSUME NEW u \in Urls, Demand(u) \/ Advance(u) \/ Finish(u) PROVE WireInv'
  BY <1>6, DemandStep, AdvanceStep, FinishStep
<1>7. ASSUME NEW k \in Keys, Purge(k) PROVE WireInv'
  BY <1>7, PurgeStep
<1>8. ASSUME NEW k \in Keys, NEW p \in Players, Wait(p, k) PROVE WireInv'
  BY <1>8, WaitStep
<1>9. ASSUME NEW p \in Players, Leave(p) PROVE WireInv'
  BY <1>9, LeaveStep
<1>10. CASE UNCHANGED vars
  BY <1>0, <1>10, QueueStep DEF vars, queueVars, fetchVars, wireVars
<1> QED BY <1>1, <1>2, <1>3, <1>4, <1>5, <1>6, <1>7, <1>8, <1>9, <1>10 DEF Next

\* Every behaviour keeps the invariant of the wires.
THEOREM WireInvariant == Spec => []WireInv
<1> QED BY InitWires, WireStep, PTL DEF Spec

-----------------------------------------------------------------------------
\* A fetch whose wire was not purged is what its key's wire names, so no key
\* has two of them, whatever the workers, players and cancellations do.
THEOREM OneFetchPerKey == Spec => []WireNamesFetch
<1>1. WireInv => WireNamesFetch
  BY DEF WireInv
<1> QED BY <1>1, WireInvariant, PTL

\* releaseCoalesceConsumer balances: a wire whose fetch has ended is there only
\* while a player waits for its key, and never counts more than wait.
THEOREM WiresAreReleased == Spec => []SettledWireIsAwaited
<1>1. WireInv => SettledWireIsAwaited
  <2> SUFFICES ASSUME WireInv, NEW k \in Keys, wire[k] # None
               PROVE  /\ wire[k].consumers <= Cardinality(WaitersOf(k))
                      /\ wire[k].settled => WaitersOf(k) # {}
                      /\ ~wire[k].settled => run[wire[k].leader] # "idle"
    BY DEF SettledWireIsAwaited
  <2>1. /\ wire[k].consumers <= Cardinality(WaitersOf(k))
        /\ wire[k].settled => wire[k].consumers >= 1
        /\ ~wire[k].settled => run[wire[k].leader] # "idle"
    BY DEF WireInv, WireIsSound
  <2>2. WaitersOf(k) = {} => Cardinality(WaitersOf(k)) = 0
    BY FS_EmptySet
  <2>3. wire[k].consumers \in Nat
    BY DEF WireInv, WireType, Wires
  <2> QED BY <2>1, <2>2, <2>3
<1> QED BY <1>1, WireInvariant, PTL

-----------------------------------------------------------------------------
(* The queue and its workers *)

(* What makes NoWorkerSleepsOnWork inductive: workers are only ever added. *)
WakeInv == workers \in Nat /\ NoWorkerSleepsOnWork

(* A step that fills no empty queue and neither parks nor ends a worker. *)
LEMMA AwakeFrame ==
    ASSUME WakeInv, queue = <<>> => queue' = <<>>, UNCHANGED <<workers, parked>>
    PROVE  WakeInv'
BY DEF WakeInv, NoWorkerSleepsOnWork

(* Starting workers, up to at least the basic number, and waking all of them. *)
LEMMA ScaledAndWoken ==
    ASSUME WakeInv, NEW n \in BaseWorkers..MaxWorkers,
           workers' = IF workers < n THEN n ELSE workers, parked' = 0
    PROVE  WakeInv'
<1>1. n \in Nat /\ n >= 1
  BY PrefetchAssumption
<1>2. workers' \in Nat /\ workers' > 0
  BY <1>1 DEF WakeInv
<1> QED BY <1>2 DEF WakeInv, NoWorkerSleepsOnWork

LEMMA OnlyOfNothing == \A S : Only(<<>>, S) = <<>>
<1> TAKE S
<1> DEFINE F(f) == [i \in 0..Len(<<>>) |->
               IF i = 0 THEN <<>>
               ELSE IF <<>>[i] \in S THEN Append(f[i - 1], <<>>[i]) ELSE f[i - 1]]
           f == CHOOSE g : g = F(g)
<1>1. Only(<<>>, S) = f[Len(<<>>)]
  BY Zenon DEF Only
<1>2. \E g : g = F(g)
  <2> DEFINE g == [i \in 0..0 |-> <<>>]
  <2>1. g = F(g)
    OBVIOUS
  <2> QED BY <2>1
<1>3. f = F(f)
  BY <1>2
<1> HIDE DEF f
<1>4. f[0] = <<>>
  BY <1>3
<1> QED BY <1>1, <1>4

LEMMA EmptyStaysEmpty ==
    ASSUME queue = <<>>
    PROVE  /\ \A keep : CancelledQueue(keep) = <<>>
           /\ \A gone : Unqueue(gone) => queue' = <<>>
BY OnlyOfNothing DEF CancelledQueue, Unqueue

LEMMA WakeStep == WakeInv /\ [Next]_vars => WakeInv'
<1> SUFFICES ASSUME WakeInv, [Next]_vars PROVE WakeInv'
  OBVIOUS
<1>1. ASSUME NEW keep \in Keeps, NEW g \in gen..MaxGen, Cancel(keep, g) PROVE WakeInv'
  BY <1>1, AwakeFrame, EmptyStaysEmpty DEF Cancel
<1>2. ASSUME NEW batch \in Batches, NEW g \in gen..MaxGen, NEW replaces \in BOOLEAN,
             Delegate(batch, g, replaces)
      PROVE  WakeInv'
  <2> DEFINE kept == IF replaces THEN CancelledQueue({}) ELSE queue
  <2>1. \/ \E n \in BaseWorkers..MaxWorkers :
              parked' = 0 /\ workers' = IF workers < n THEN n ELSE workers
        \/ queue' = kept /\ UNCHANGED <<workers, parked>>
    BY <1>2 DEF Delegate
  <2>2. queue = <<>> => kept = <<>>
    BY EmptyStaysEmpty
  <2> HIDE DEF kept
  <2> QED BY <2>1, <2>2, AwakeFrame, ScaledAndWoken
<1>3. CASE PushBufferLoad
  BY <1>3, ScaledAndWoken DEF PushBufferLoad
<1>4. CASE WorkerTurn
  <2>1. ASSUME NEW i \in DOMAIN queue, WorkerTakes(i) PROVE WakeInv'
    <3>1. \E gone : Unqueue(gone)
      BY <2>1 DEF WorkerTakes
    <3> QED BY <1>4, <2>1, <3>1, AwakeFrame, EmptyStaysEmpty DEF WorkerTakes, WorkerTurn
  <2>2. CASE WorkerParks
    BY <1>4, <2>2 DEF WorkerTurn, WorkerParks, WakeInv, NoWorkerSleepsOnWork
  <2> QED BY <1>4, <2>1, <2>2 DEF WorkerTurn
<1>5. ASSUME NEW u \in Urls, Demand(u) PROVE WakeInv'
  <2>1. Unqueue({u}) /\ UNCHANGED <<workers, parked>>
    BY <1>5 DEF Demand
  <2> QED BY <2>1, AwakeFrame, EmptyStaysEmpty
<1>6. ASSUME NEW u \in Urls, GrowLate(u) \/ Advance(u) \/ Finish(u) PROVE WakeInv'
  BY <1>6, AwakeFrame DEF GrowLate, Advance, Finish, queueVars
<1>7. ASSUME NEW k \in Keys, Purge(k) \/ (\E p \in Players : Wait(p, k)) PROVE WakeInv'
  BY <1>7, AwakeFrame DEF Purge, Wait, queueVars
<1>8. ASSUME NEW p \in Players, Leave(p) PROVE WakeInv'
  BY <1>8, AwakeFrame DEF Leave, queueVars
<1>9. CASE UNCHANGED vars
  BY <1>9, AwakeFrame DEF vars, queueVars
<1> QED BY <1>1, <1>2, <1>3, <1>4, <1>5, <1>6, <1>7, <1>8, <1>9 DEF Next

\* No wake-up is lost: no step, in whatever order batches, cancellations, demand
\* starts and the workers' own turns come, leaves a worker asleep in
\* prefetchQueueWaiters beside a URL that waits in the queue.
THEOREM NoWakeUpIsLost == Spec => []NoWorkerSleepsOnWork
<1>1. Init => WakeInv
  BY DEF Init, WakeInv, NoWorkerSleepsOnWork
<1>2. WakeInv => NoWorkerSleepsOnWork
  BY DEF WakeInv
<1> QED BY <1>1, <1>2, WakeStep, PTL DEF Spec
=============================================================================
