------------------------- MODULE LookupRouterProofs -------------------------
(* Theorems about the lookup router, for any lookups, stores, tabs and keys. *)
EXTENDS LookupRouter, TLAPS

Waiting == {"prefetchWait", "writeWait"}

(* What a handler may do with lookups under way: they go anywhere but back to
   the start, and "skipped" is only for lookups that were never opened. *)
Goals == (Steps \cup Ends) \ {"idle", "skipped"}

LEMMA MoveIs ==
    ASSUME RouterTypeOK, HitsAreServed, NEW next,
           DOMAIN next \subseteq {l \in Lookups : Open(l)},
           \A l \in DOMAIN next : next[l] \in Goals,
           Move(next)
    PROVE  /\ pc' \in [Lookups -> Steps \cup Ends]
           /\ outcome' \in [Lookups -> {"hit", "miss", Nil}]
           /\ answer' \in [Lookups -> {"hit", "miss", Nil}]
           /\ counted' \subseteq Lookups
           /\ recentMiss' \subseteq Tabs \X Keys
           /\ \A l \in DOMAIN next : pc'[l] = next[l]
           /\ \A l \in Lookups \ DOMAIN next : pc'[l] = pc[l]
           /\ HitsAreServed'
<1> DEFINE ended == {l \in DOMAIN next : next[l] \in Ends}
<1>1. /\ pc' = [l \in Lookups |-> IF l \in DOMAIN next THEN next[l] ELSE pc[l]]
      /\ outcome' = [l \in Lookups |-> IF l \in ended /\ outcome[l] = Nil
                                       THEN Verdict(next[l]) ELSE outcome[l]]
      /\ answer' = [l \in Lookups |-> IF l \in ended /\ answer[l] = Nil
                                      THEN Verdict(next[l]) ELSE answer[l]]
      /\ recentMiss' = recentMiss \cup
           {<<TabOf[l], KeyOf[l]>> : l \in {e \in ended : next[e] = "miss"}}
      /\ counted' = counted
  BY DEF Move
<1>2. \A l \in Lookups : Verdict(next[l]) \in {"hit", "miss"} /\ Nil \notin {"hit", "miss"}
  BY RouterAssumption DEF Verdict
<1>3. DOMAIN next \subseteq Lookups
  OBVIOUS
<1>4. /\ pc' \in [Lookups -> Steps \cup Ends]
      /\ outcome' \in [Lookups -> {"hit", "miss", Nil}]
      /\ answer' \in [Lookups -> {"hit", "miss", Nil}]
      /\ counted' \subseteq Lookups
  <2> HIDE DEF ended
  <2> QED BY <1>1, <1>2, <1>3 DEF RouterTypeOK, Goals
<1>5. recentMiss' \subseteq Tabs \X Keys
  BY <1>1, <1>3, RouterAssumption DEF RouterTypeOK
<1>6. /\ \A l \in DOMAIN next : pc'[l] = next[l]
      /\ \A l \in Lookups \ DOMAIN next : pc'[l] = pc[l]
  BY <1>1, <1>3
<1>7. ASSUME NEW l \in Lookups
      PROVE  (pc'[l] \in Ends => answer'[l] # Nil)
             /\ (pc'[l] # "skipped" => outcome'[l] = answer'[l])
  <2>1. CASE l \in DOMAIN next
    <3>1. pc[l] # "skipped" /\ outcome[l] = answer[l]
      BY <2>1 DEF Open, Ends, HitsAreServed
    <3>2. pc'[l] = next[l]
      BY <2>1, <1>6
    <3>3. l \in ended <=> next[l] \in Ends
      BY <2>1
    <3> HIDE DEF ended
    <3> QED BY <1>1, <1>2, <3>1, <3>2, <3>3
  <2>2. CASE l \notin DOMAIN next
    <3>1. pc'[l] = pc[l] /\ outcome'[l] = outcome[l] /\ answer'[l] = answer[l]
      BY <1>1, <2>2
    <3> QED BY <3>1 DEF HitsAreServed
  <2> QED BY <2>1, <2>2
<1> QED BY <1>4, <1>5, <1>6, <1>7 DEF HitsAreServed

(* The same for a single lookup. *)
LEMMA MovesIs ==
    ASSUME RouterTypeOK, HitsAreServed, NEW l \in Lookups, NEW to \in Goals,
           Open(l), Moves(l, to)
    PROVE  /\ pc' \in [Lookups -> Steps \cup Ends]
           /\ outcome' \in [Lookups -> {"hit", "miss", Nil}]
           /\ answer' \in [Lookups -> {"hit", "miss", Nil}]
           /\ counted' \subseteq Lookups
           /\ recentMiss' \subseteq Tabs \X Keys
           /\ pc'[l] = to
           /\ \A m \in Lookups \ {l} : pc'[m] = pc[m]
           /\ HitsAreServed'
<1> DEFINE next == [x \in {l} |-> to]
<1>1. Move(next)
  BY DEF Moves
<1>2. DOMAIN next = {l} /\ next[l] = to
  OBVIOUS
<1> HIDE DEF next
<1> QED BY <1>1, <1>2, MoveIs

LEMMA GoalsOf ==
    ASSUME NEW l \in Lookups, NEW st
    PROVE  /\ Served(l) \in Goals \ Waiting
           /\ AfterPrefetch(l, st) \in Goals \ Waiting
           /\ AfterFirst(l) \in Goals \ Waiting
BY DEF Served, AfterPrefetch, AfterFirst, Goals, Steps, Ends, Waiting

(* Waking the waiters of a key empties its table and moves them on. *)
LEMMA WakeIs ==
    ASSUME RouterTypeOK, HitsAreServed, WaitersWait,
           NEW k \in Keys, NEW item \in BOOLEAN, NEW st, Wake(k, item, st)
    PROVE  /\ pc' \in [Lookups -> Steps \cup Ends]
           /\ outcome' \in [Lookups -> {"hit", "miss", Nil}]
           /\ answer' \in [Lookups -> {"hit", "miss", Nil}]
           /\ counted' \subseteq Lookups
           /\ recentMiss' \subseteq Tabs \X Keys
           /\ waiters' \in [Keys -> SUBSET Lookups]
           /\ \A l \in waiters[k] : pc'[l] \notin Waiting
           /\ \A l \in Lookups \ waiters[k] : pc'[l] = pc[l]
           /\ HitsAreServed'
           /\ WaitersWait'
<1> DEFINE next == [l \in waiters[k] |->
                      IF item THEN Served(l)
                      ELSE IF pc[l] = "writeWait" THEN "recheck" ELSE AfterPrefetch(l, st)]
<1>1. Move(next) /\ waiters' = [waiters EXCEPT ![k] = {}]
  BY DEF Wake
<1>2. DOMAIN next = waiters[k]
  OBVIOUS
<1>3. waiters[k] = {l \in Lookups : KeyOf[l] = k /\ pc[l] \in Waiting}
  BY DEF WaitersWait, Waiting
<1>4. \A l \in DOMAIN next : next[l] \in Goals \ Waiting
  <2>1. "recheck" \in Goals \ Waiting
    BY DEF Goals, Steps, Ends, Waiting
  <2> QED BY <1>3, <2>1, GoalsOf
<1>5. DOMAIN next \subseteq {l \in Lookups : Open(l)}
  BY <1>2, <1>3 DEF Open, Ends, Waiting
<1> HIDE DEF next
<1>6. /\ pc' \in [Lookups -> Steps \cup Ends]
      /\ outcome' \in [Lookups -> {"hit", "miss", Nil}]
      /\ answer' \in [Lookups -> {"hit", "miss", Nil}]
      /\ counted' \subseteq Lookups
      /\ recentMiss' \subseteq Tabs \X Keys
      /\ \A l \in waiters[k] : pc'[l] = next[l]
      /\ \A l \in Lookups \ waiters[k] : pc'[l] = pc[l]
      /\ HitsAreServed'
  BY <1>1, <1>2, <1>4, <1>5, MoveIs
<1>7. waiters' \in [Keys -> SUBSET Lookups]
  BY <1>1 DEF RouterTypeOK
<1>8. \A l \in waiters[k] : pc'[l] \notin Waiting
  BY <1>2, <1>4, <1>6
<1>9. WaitersWait'
  <2>1. ASSUME NEW j \in Keys
        PROVE  waiters'[j] = {l \in Lookups : KeyOf[l] = j /\ pc'[l] \in Waiting}
    <3>1. CASE j = k
      <4>1. waiters'[j] = {}
        BY <1>1, <3>1 DEF RouterTypeOK
      <4>2. \A l \in Lookups : KeyOf[l] = k => pc'[l] \notin Waiting
        BY <1>3, <1>6, <1>8
      <4> QED BY <4>1, <4>2, <3>1
    <3>2. CASE j # k
      <4>1. waiters'[j] = waiters[j]
        BY <1>1, <3>2 DEF RouterTypeOK
      <4>2. \A l \in Lookups : KeyOf[l] = j => pc'[l] = pc[l]
        BY <1>3, <1>6, <3>2
      <4>3. waiters[j] = {l \in Lookups : KeyOf[l] = j /\ pc[l] \in Waiting}
        BY DEF WaitersWait, Waiting
      <4> QED BY <4>1, <4>2, <4>3
    <3> QED BY <3>1, <3>2
  <2> QED BY <2>1 DEF WaitersWait, Waiting
<1> QED BY <1>6, <1>7, <1>8, <1>9

-----------------------------------------------------------------------------
(* In-flight entries. *)
LEMMA EntryIs ==
    ASSUME NEW e \in Entry
    PROVE  /\ e # Nil /\ e.tab \in Tabs
           /\ e.held \in BOOLEAN /\ e.pendingRelease \in BOOLEAN /\ e.orphaned \in BOOLEAN
BY RouterAssumption DEF Entry

LEMMA AttachedIs ==
    ASSUME NEW e \in Entry \cup {Nil}, NEW tab \in Tabs
    PROVE  LET a == Attached(e, tab) IN
           /\ a \in Entry \cup {Nil}
           /\ e = Nil \/ e.tab # tab => a = e
           /\ e # Nil /\ e.tab = tab => a # Nil /\ a.tab = tab /\ ~a.pendingRelease
<1>1. CASE e = Nil \/ e.tab # tab
  BY <1>1 DEF Attached
<1>2. CASE e # Nil /\ e.tab = tab
  <2>1. Attached(e, tab) = [e EXCEPT !.held = TRUE, !.pendingRelease = FALSE]
    BY <1>2 DEF Attached
  <2>2. Attached(e, tab) \in Entry
    BY <1>2, <2>1 DEF Entry
  <2> QED BY <1>2, <2>1, <2>2, EntryIs DEF Entry
<1> QED BY <1>1, <1>2

LEMMA ReleasedIs ==
    ASSUME NEW e \in Entry \cup {Nil}, NEW tabs
    PROVE  LET r == Released(e, tabs) IN
           /\ r \in Entry \cup {Nil}
           /\ e = Nil => r = Nil
           /\ e # Nil /\ e.tab \notin tabs => r = e
           /\ e # Nil /\ e.tab \in tabs /\ r # Nil => ~r.held /\ ~r.pendingRelease
<1>1. CASE e = Nil \/ e.tab \notin tabs
  BY <1>1 DEF Released
<1>2. CASE e # Nil /\ e.tab \in tabs /\ e.pendingRelease
  BY <1>2 DEF Released
<1>3. CASE e # Nil /\ e.tab \in tabs /\ ~e.pendingRelease
  <2>1. Released(e, tabs) = [e EXCEPT !.held = FALSE, !.orphaned = FALSE]
    BY <1>3 DEF Released
  <2> QED BY <1>3, <2>1 DEF Entry
<1> QED BY <1>1, <1>2, <1>3

LEMMA TryReleasedIs ==
    ASSUME NEW e \in Entry \cup {Nil}, NEW defer \in BOOLEAN
    PROVE  LET t == TryReleased(e, defer) IN
           /\ t \in Entry \cup {Nil}
           /\ t # Nil => e # Nil /\ e.held /\ t.held /\ t.tab = e.tab /\ t.orphaned = e.orphaned
<1>1. CASE e # Nil /\ e.held
  <2>1. TryReleased(e, defer) = [e EXCEPT !.pendingRelease = defer]
    BY <1>1 DEF TryReleased
  <2> QED BY <1>1, <2>1 DEF Entry
<1>2. CASE ~(e # Nil /\ e.held)
  BY <1>2 DEF TryReleased
<1> QED BY <1>1, <1>2

-----------------------------------------------------------------------------
(* Locks. *)
Consumed(k, tab) == WaitsForPrefetch(k, tab) # {} \/ <<tab, k>> \in pageHolds
LockOK(e, k) ==
    e # Nil => (e.pendingRelease => e.held) /\ (e.held => Consumed(k, e.tab) \/ e.orphaned)

LEMMA LocksAre == LocksAreHeld <=> \A k \in Keys : LockOK(inflight[k], k)
BY DEF LocksAreHeld, LockOK, Consumed

(* Only the entry of k and the consumers of k change, and k's lock is right. *)
LEMMA LocksAt ==
    ASSUME RouterTypeOK, LocksAreHeld, NEW k \in Keys, NEW e \in Entry \cup {Nil},
           inflight' = [inflight EXCEPT ![k] = e],
           \A j \in Keys \ {k}, tab \in Tabs : Consumed(j, tab) => Consumed(j, tab)',
           e # Nil => (e.pendingRelease => e.held) /\ (e.held => Consumed(k, e.tab)' \/ e.orphaned)
    PROVE  inflight' \in [Keys -> Entry \cup {Nil}] /\ LocksAreHeld'
<1>1. inflight' \in [Keys -> Entry \cup {Nil}]
  BY DEF RouterTypeOK
<1>2. ASSUME NEW j \in Keys, NEW f \in Entry, f = inflight'[j]
      PROVE  (f.pendingRelease => f.held) /\ (f.held => Consumed(j, f.tab)' \/ f.orphaned)
  <2>1. CASE j = k
    <3>1. f = e
      BY <1>2, <2>1 DEF RouterTypeOK
    <3> QED BY <2>1, <3>1, EntryIs
  <2>2. CASE j # k
    <3>1. inflight[j] = f
      BY <1>2, <2>2 DEF RouterTypeOK
    <3>2. LockOK(f, j)
      BY <3>1, LocksAre
    <3>3. f # Nil /\ f.tab \in Tabs
      BY EntryIs
    <3> QED BY <2>2, <3>2, <3>3 DEF LockOK
  <2> QED BY <2>1, <2>2
<1>3. ASSUME NEW j \in Keys, inflight'[j] # Nil
      PROVE  inflight'[j] \in Entry
  BY <1>1, <1>3
<1> QED BY <1>1, <1>2, <1>3 DEF LocksAreHeld, Consumed

LEMMA LocksStay ==
    ASSUME RouterTypeOK, LocksAreHeld, UNCHANGED inflight,
           \A j \in Keys, tab \in Tabs : Consumed(j, tab) => Consumed(j, tab)'
    PROVE  LocksAreHeld'
<1>1. ASSUME NEW j \in Keys, inflight[j] # Nil
      PROVE  /\ inflight[j].pendingRelease => inflight[j].held
             /\ inflight[j].held => Consumed(j, inflight[j].tab)' \/ inflight[j].orphaned
  <2>1. inflight[j] \in Entry
    BY <1>1 DEF RouterTypeOK
  <2>2. LockOK(inflight[j], j)
    BY LocksAre
  <2> QED BY <1>1, <2>1, <2>2, EntryIs DEF LockOK
<1> QED BY <1>1 DEF LocksAreHeld, Consumed

(* After a wake no lookup waits for k: what is still locked, the page holds. *)
LEMMA AfterWakeIs ==
    ASSUME RouterTypeOK, WaitersWait, LocksAreHeld, NEW k \in Keys
    PROVE  LET r == AfterWake(k) IN
           /\ r \in Entry \cup {Nil}
           /\ r # Nil => /\ r.pendingRelease => r.held
                         /\ r.held => <<r.tab, k>> \in pageHolds \/ r.orphaned
<1> DEFINE e == inflight[k]
           tabs == {TabOf[l] : l \in {w \in waiters[k] : pc[w] = "prefetchWait"}}
           r == Released(e, tabs)
<1>1. AfterWake(k) = r
  BY DEF AfterWake
<1>2. e \in Entry \cup {Nil} /\ LockOK(e, k)
  BY LocksAre DEF RouterTypeOK
<1>3. /\ r \in Entry \cup {Nil}
      /\ e = Nil => r = Nil
      /\ e # Nil /\ e.tab \notin tabs => r = e
      /\ e # Nil /\ e.tab \in tabs /\ r # Nil => ~r.held /\ ~r.pendingRelease
  <2> HIDE DEF e, tabs
  <2> QED BY <1>2, ReleasedIs
<1>4. CASE e # Nil /\ e.tab \notin tabs
  <2>1. WaitsForPrefetch(k, e.tab) = {}
    BY <1>4 DEF WaitsForPrefetch, WaitersWait
  <2> QED BY <1>1, <1>2, <1>3, <1>4, <2>1 DEF LockOK, Consumed
<1>5. CASE ~(e # Nil /\ e.tab \notin tabs)
  <2> HIDE DEF tabs, e
  <2> QED BY <1>1, <1>3, <1>5
<1> QED BY <1>4, <1>5

-----------------------------------------------------------------------------
(* The inductive invariant. *)
RouterInv == RouterTypeOK /\ HitsAreServed /\ WaitersWait /\ LocksAreHeld

(* Lookups that neither start nor stop waiting disturb no table. *)
LEMMA SameWaits ==
    ASSUME WaitersWait, LocksAreHeld, RouterTypeOK, UNCHANGED <<waiters, inflight, pageHolds>>,
           \A m \in Lookups : pc'[m] = pc[m] \/ (pc[m] \notin Waiting /\ pc'[m] \notin Waiting)
    PROVE  WaitersWait' /\ LocksAreHeld'
<1>1. WaitersWait'
  BY DEF WaitersWait, Waiting
<1>2. \A j \in Keys, tab \in Tabs : Consumed(j, tab) => Consumed(j, tab)'
  BY DEF Consumed, WaitsForPrefetch, Waiting
<1> QED BY <1>1, <1>2, LocksStay

(* A lookup moves on without having waited, and does not wait now. *)
LEMMA PlainMove ==
    ASSUME RouterInv, NEW l \in Lookups, NEW to \in Goals \ Waiting,
           Open(l), pc[l] \notin Waiting, Moves(l, to),
           UNCHANGED <<waiters, wire, prefetches, store>>
    PROVE  RouterInv'
<1> USE DEF RouterInv
<1>1. /\ pc' \in [Lookups -> Steps \cup Ends]
      /\ outcome' \in [Lookups -> {"hit", "miss", Nil}]
      /\ answer' \in [Lookups -> {"hit", "miss", Nil}]
      /\ counted' \subseteq Lookups
      /\ recentMiss' \subseteq Tabs \X Keys
      /\ pc'[l] = to
      /\ \A m \in Lookups \ {l} : pc'[m] = pc[m]
      /\ HitsAreServed'
  BY MovesIs
<1>2. RouterTypeOK'
  BY <1>1 DEF RouterTypeOK, prefetches
<1>3. WaitersWait' /\ LocksAreHeld'
  BY <1>1, SameWaits DEF prefetches
<1> QED BY <1>1, <1>2, <1>3

(* A lookup begins to wait. *)
LEMMA JoinKeeps ==
    ASSUME RouterInv, NEW l \in Lookups, NEW to \in Waiting,
           Open(l), pc[l] \notin Waiting, Moves(l, to),
           waiters' = [waiters EXCEPT ![KeyOf[l]] = @ \cup {l}],
           UNCHANGED <<wire, fetching, pageHolds, store>>,
           \/ to = "prefetchWait"
              /\ inflight' = [inflight EXCEPT ![KeyOf[l]] = Attached(@, TabOf[l])]
           \/ to = "writeWait" /\ UNCHANGED inflight
    PROVE  RouterInv'
<1> USE DEF RouterInv
<1> DEFINE k == KeyOf[l]
           tab == TabOf[l]
<1>0. k \in Keys /\ tab \in Tabs /\ to \in Goals
  BY RouterAssumption DEF Goals, Steps, Ends, Waiting
<1>1. /\ pc' \in [Lookups -> Steps \cup Ends]
      /\ outcome' \in [Lookups -> {"hit", "miss", Nil}]
      /\ answer' \in [Lookups -> {"hit", "miss", Nil}]
      /\ counted' \subseteq Lookups
      /\ recentMiss' \subseteq Tabs \X Keys
      /\ pc'[l] = to
      /\ \A m \in Lookups \ {l} : pc'[m] = pc[m]
      /\ HitsAreServed'
  BY <1>0, MovesIs
<1>2. WaitersWait' /\ waiters' \in [Keys -> SUBSET Lookups]
  <2>1. ASSUME NEW j \in Keys
        PROVE  waiters'[j] = {m \in Lookups : KeyOf[m] = j /\ pc'[m] \in Waiting}
    <3>1. waiters[j] = {m \in Lookups : KeyOf[m] = j /\ pc[m] \in Waiting}
      BY DEF WaitersWait, Waiting
    <3>2. waiters'[j] = IF j = k THEN waiters[j] \cup {l} ELSE waiters[j]
      BY <1>0 DEF RouterTypeOK
    <3> QED BY <3>1, <3>2, <1>1
  <2> QED BY <2>1, <1>0 DEF WaitersWait, Waiting, RouterTypeOK
<1>3. \A j \in Keys, t \in Tabs : Consumed(j, t) => Consumed(j, t)'
  <2>1. \A j \in Keys, t \in Tabs : WaitsForPrefetch(j, t) \subseteq WaitsForPrefetch(j, t)'
    BY <1>1 DEF WaitsForPrefetch, Waiting
  <2> QED BY <2>1 DEF Consumed
<1>4. CASE to = "writeWait" /\ UNCHANGED inflight
  BY <1>1, <1>2, <1>3, <1>4, LocksStay DEF RouterTypeOK
<1>5. CASE to = "prefetchWait"
           /\ inflight' = [inflight EXCEPT ![KeyOf[l]] = Attached(@, TabOf[l])]
  <2>1. PICK e \in Entry \cup {Nil} : e = inflight[k] /\ LockOK(e, k)
    BY <1>0, LocksAre DEF RouterTypeOK
  <2>2. PICK a \in Entry \cup {Nil} :
          /\ a = Attached(e, tab)
          /\ e = Nil \/ e.tab # tab => a = e
          /\ e # Nil /\ e.tab = tab => a # Nil /\ a.tab = tab /\ ~a.pendingRelease
    <3> HIDE DEF tab
    <3> QED BY <1>0, AttachedIs
  <2>3. l \in WaitsForPrefetch(k, tab)'
    BY <1>1, <1>5 DEF WaitsForPrefetch
  <2>4. inflight' = [inflight EXCEPT ![k] = a]
    BY <1>5, <2>1, <2>2
  <2>5. a # Nil => (a.pendingRelease => a.held) /\ (a.held => Consumed(k, a.tab)' \/ a.orphaned)
    <3>1. CASE e = Nil \/ e.tab # tab
      <4>1. \A t \in Tabs : Consumed(k, t) => Consumed(k, t)'
        BY <1>0, <1>3
      <4> QED BY <2>1, <2>2, <3>1, <4>1, EntryIs DEF LockOK
    <3>2. CASE e # Nil /\ e.tab = tab
      <4>1. Consumed(k, tab)'
        BY <2>3 DEF Consumed
      <4> HIDE DEF tab
      <4> QED BY <2>2, <3>2, <4>1
    <3> QED BY <3>1, <3>2
  <2>6. inflight' \in [Keys -> Entry \cup {Nil}] /\ LocksAreHeld'
    BY <1>0, <1>3, <2>2, <2>4, <2>5, LocksAt
  <2> QED BY <1>1, <1>2, <2>6 DEF RouterTypeOK
<1> QED BY <1>4, <1>5 DEF Waiting

(* A wait is over by its timer. *)
LEMMA TimerKeeps ==
    ASSUME RouterInv, NEW l \in Lookups, NEW to \in Goals \ Waiting,
           Moves(l, to), waiters' = [waiters EXCEPT ![KeyOf[l]] = @ \ {l}],
           UNCHANGED <<wire, fetching, pageHolds, store>>,
           \/ pc[l] = "prefetchWait"
              /\ inflight' = [inflight EXCEPT ![KeyOf[l]] = Released(@, {TabOf[l]})]
           \/ pc[l] = "writeWait" /\ UNCHANGED inflight
    PROVE  RouterInv'
<1> USE DEF RouterInv
<1> DEFINE k == KeyOf[l]
           tab == TabOf[l]
<1>0. k \in Keys /\ tab \in Tabs /\ pc[l] \in Waiting /\ Open(l)
  BY RouterAssumption DEF Waiting, Open, Ends
<1>1. /\ pc' \in [Lookups -> Steps \cup Ends]
      /\ outcome' \in [Lookups -> {"hit", "miss", Nil}]
      /\ answer' \in [Lookups -> {"hit", "miss", Nil}]
      /\ counted' \subseteq Lookups
      /\ recentMiss' \subseteq Tabs \X Keys
      /\ pc'[l] = to
      /\ \A m \in Lookups \ {l} : pc'[m] = pc[m]
      /\ HitsAreServed'
  BY <1>0, MovesIs
<1>2. WaitersWait' /\ waiters' \in [Keys -> SUBSET Lookups]
  <2>1. ASSUME NEW j \in Keys
        PROVE  waiters'[j] = {m \in Lookups : KeyOf[m] = j /\ pc'[m] \in Waiting}
    <3>1. waiters[j] = {m \in Lookups : KeyOf[m] = j /\ pc[m] \in Waiting}
      BY DEF WaitersWait, Waiting
    <3>2. waiters'[j] = IF j = k THEN waiters[j] \ {l} ELSE waiters[j]
      BY <1>0 DEF RouterTypeOK
    <3> QED BY <3>1, <3>2, <1>1
  <2> QED BY <2>1, <1>0 DEF WaitersWait, Waiting, RouterTypeOK
<1>3. \A j \in Keys, t \in Tabs :
        (j # k \/ t # tab \/ pc[l] = "writeWait") /\ Consumed(j, t) => Consumed(j, t)'
  <2>1. \A j \in Keys, t \in Tabs : j # k \/ t # tab \/ pc[l] = "writeWait" =>
          WaitsForPrefetch(j, t) \subseteq WaitsForPrefetch(j, t)'
    BY <1>1 DEF WaitsForPrefetch
  <2> QED BY <2>1 DEF Consumed
<1>4. CASE pc[l] = "writeWait" /\ UNCHANGED inflight
  BY <1>1, <1>2, <1>3, <1>4, LocksStay DEF RouterTypeOK
<1>5. CASE pc[l] = "prefetchWait"
           /\ inflight' = [inflight EXCEPT ![KeyOf[l]] = Released(@, {TabOf[l]})]
  <2>1. PICK e \in Entry \cup {Nil} : e = inflight[k] /\ LockOK(e, k)
    BY <1>0, LocksAre DEF RouterTypeOK
  <2>2. PICK r \in Entry \cup {Nil} :
          /\ r = Released(e, {tab})
          /\ e = Nil => r = Nil
          /\ e # Nil /\ e.tab # tab => r = e
          /\ e # Nil /\ e.tab = tab /\ r # Nil => ~r.held /\ ~r.pendingRelease
    <3> HIDE DEF tab
    <3> QED BY ReleasedIs
  <2>3. inflight' = [inflight EXCEPT ![k] = r]
    BY <1>5, <2>1, <2>2
  <2>4. r # Nil => (r.pendingRelease => r.held) /\ (r.held => Consumed(k, r.tab)' \/ r.orphaned)
    <3>1. \A t \in Tabs \ {tab} : Consumed(k, t) => Consumed(k, t)'
      BY <1>0, <1>3
    <3> HIDE DEF tab
    <3> QED BY <2>1, <2>2, <3>1, EntryIs DEF LockOK
  <2>5. inflight' \in [Keys -> Entry \cup {Nil}] /\ LocksAreHeld'
    BY <1>0, <1>3, <2>3, <2>4, LocksAt
  <2> QED BY <1>1, <1>2, <2>5 DEF RouterTypeOK
<1> QED BY <1>4, <1>5

(* The waiters of a key are woken, and release its entry. *)
LEMMA WakeKeeps ==
    ASSUME RouterInv, NEW k \in Keys, NEW item \in BOOLEAN, NEW st, Wake(k, item, st),
           NEW e \in Entry \cup {Nil}, inflight' = [inflight EXCEPT ![k] = e],
           e # Nil => (e.pendingRelease => e.held) /\ (e.held => <<e.tab, k>> \in pageHolds \/ e.orphaned),
           UNCHANGED pageHolds, wire' \subseteq Keys, fetching' \subseteq Tabs \X Keys,
           store' \in [Stores -> {"idle", "writing", "flushing", "done"}]
    PROVE  RouterInv'
<1> USE DEF RouterInv
<1>1. /\ pc' \in [Lookups -> Steps \cup Ends]
      /\ outcome' \in [Lookups -> {"hit", "miss", Nil}]
      /\ answer' \in [Lookups -> {"hit", "miss", Nil}]
      /\ counted' \subseteq Lookups
      /\ recentMiss' \subseteq Tabs \X Keys
      /\ waiters' \in [Keys -> SUBSET Lookups]
      /\ \A l \in Lookups \ waiters[k] : pc'[l] = pc[l]
      /\ HitsAreServed'
      /\ WaitersWait'
  BY WakeIs
<1>2. \A j \in Keys \ {k}, t \in Tabs : Consumed(j, t) => Consumed(j, t)'
  <2>1. \A l \in Lookups : KeyOf[l] # k => pc'[l] = pc[l]
    BY <1>1 DEF WaitersWait
  <2>2. \A j \in Keys \ {k}, t \in Tabs :
          WaitsForPrefetch(j, t) \subseteq WaitsForPrefetch(j, t)'
    BY <2>1 DEF WaitsForPrefetch
  <2> QED BY <2>2 DEF Consumed
<1>3. e # Nil => (e.pendingRelease => e.held) /\ (e.held => Consumed(k, e.tab)' \/ e.orphaned)
  BY DEF Consumed
<1>4. inflight' \in [Keys -> Entry \cup {Nil}] /\ LocksAreHeld'
  BY <1>2, <1>3, LocksAt
<1> QED BY <1>1, <1>4 DEF RouterTypeOK

(* Only the prefetch tables change. *)
LEMMA EntryKeeps ==
    ASSUME RouterInv, NEW k \in Keys, UNCHANGED <<pc, ledger, waiters, wire, store>>,
           NEW e \in Entry \cup {Nil}, inflight' = [inflight EXCEPT ![k] = e],
           fetching' \subseteq Tabs \X Keys, pageHolds' \subseteq Tabs \X Keys,
           \A j \in Keys \ {k}, t \in Tabs : <<t, j>> \in pageHolds => <<t, j>> \in pageHolds',
           e # Nil => (e.pendingRelease => e.held) /\ (e.held => Consumed(k, e.tab)' \/ e.orphaned)
    PROVE  RouterInv'
<1> USE DEF RouterInv
<1>1. \A j \in Keys \ {k}, t \in Tabs : Consumed(j, t) => Consumed(j, t)'
  BY DEF Consumed, WaitsForPrefetch
<1>2. inflight' \in [Keys -> Entry \cup {Nil}] /\ LocksAreHeld'
  BY <1>1, LocksAt
<1>3. RouterTypeOK'
  BY <1>2 DEF RouterTypeOK, ledger
<1>4. HitsAreServed' /\ WaitersWait'
  BY DEF HitsAreServed, WaitersWait, ledger
<1> QED BY <1>2, <1>3, <1>4

-----------------------------------------------------------------------------
(* One lemma per group of actions. *)
LEMMA StartKeeps ==
    ASSUME RouterInv, NEW l \in Lookups,
           LookupSkipped(l) \/ LookupBegins(l) \/ WatchdogFires(l)
    PROVE  RouterInv'
<1> USE DEF RouterInv
<1>1. UNCHANGED <<waiters, inflight, pageHolds, wire, fetching, store, recentMiss>>
  BY DEF LookupSkipped, LookupBegins, WatchdogFires, prefetches
<1>2. CASE LookupSkipped(l)
  <2>1. \A m \in Lookups : pc'[m] = pc[m] \/ (pc[m] \notin Waiting /\ pc'[m] \notin Waiting)
    BY <1>2 DEF LookupSkipped, RouterTypeOK, Waiting
  <2>2. WaitersWait' /\ LocksAreHeld'
    BY <1>1, <2>1, SameWaits
  <2>3. RouterTypeOK'
    BY <1>1, <1>2 DEF LookupSkipped, RouterTypeOK, Ends
  <2>4. HitsAreServed'
    BY <1>2, RouterAssumption DEF LookupSkipped, RouterTypeOK, HitsAreServed, Ends
  <2> QED BY <2>2, <2>3, <2>4
<1>3. CASE LookupBegins(l)
  <2>1. \A m \in Lookups : pc'[m] = pc[m] \/ (pc[m] \notin Waiting /\ pc'[m] \notin Waiting)
    BY <1>3 DEF LookupBegins, RouterTypeOK, Waiting
  <2>2. WaitersWait' /\ LocksAreHeld'
    BY <1>1, <2>1, SameWaits
  <2>3. RouterTypeOK'
    BY <1>1, <1>3 DEF LookupBegins, RouterTypeOK, Steps
  <2>4. HitsAreServed'
    BY <1>3 DEF LookupBegins, RouterTypeOK, HitsAreServed, Ends
  <2> QED BY <2>2, <2>3, <2>4
<1>4. CASE WatchdogFires(l)
  <2>1. pc' = pc
    BY <1>4 DEF WatchdogFires
  <2>2. WaitersWait' /\ LocksAreHeld'
    BY <1>1, <2>1, SameWaits
  <2>3. RouterTypeOK'
    BY <1>1, <1>4 DEF WatchdogFires, RouterTypeOK
  <2>4. HitsAreServed'
    BY <1>4, RouterAssumption DEF WatchdogFires, RouterTypeOK, HitsAreServed, Open, Ends
  <2> QED BY <2>2, <2>3, <2>4
<1> QED BY <1>2, <1>3, <1>4

LEMMA LookupKeeps ==
    ASSUME RouterInv, NEW l \in Lookups, LookupStep(l)
    PROVE  RouterInv'
<1>1. /\ {"auth", "threw", "miss", "recheck"} \subseteq Goals \ Waiting
      /\ Served(l) \in Goals \ Waiting
      /\ AfterPrefetch(l, store) \in Goals \ Waiting
      /\ AfterFirst(l) \in Goals \ Waiting
  <2>1. {"auth", "threw", "miss", "recheck"} \subseteq Goals \ Waiting
    BY DEF Goals, Steps, Ends, Waiting
  <2> QED BY <2>1, GoalsOf
<1>2. pc[l] \in Steps \ {"idle"}
  BY DEF LookupStep, FirstPassEnds, LookupThrows, PrefetchGetFinds, JoinsPrefetch,
         PrefetchWaitEnds, WriteGetFinds, JoinsWrite, WriteWaitEnds, Rechecks, Steps
<1>3. Open(l)
  BY <1>2 DEF Open, Steps, Ends
<1>4. ASSUME NEW to \in Goals \ Waiting, pc[l] \notin Waiting, Moves(l, to),
             UNCHANGED <<waiters, wire, prefetches, store>>
      PROVE  RouterInv'
  BY <1>3, <1>4, PlainMove
<1>5. CASE FirstPassEnds(l)
  BY <1>1, <1>4, <1>5 DEF FirstPassEnds, Waiting
<1>6. CASE LookupThrows(l)
  BY <1>1, <1>4, <1>6 DEF LookupThrows, Waiting
<1>7. CASE PrefetchGetFinds(l) \/ WriteGetFinds(l)
  BY <1>1, <1>4, <1>7 DEF PrefetchGetFinds, WriteGetFinds, Waiting
<1>8. CASE Rechecks(l)
  BY <1>1, <1>4, <1>8 DEF Rechecks, Waiting
<1>9. CASE JoinsPrefetch(l)
  BY <1>3, <1>9, JoinKeeps DEF JoinsPrefetch, Waiting
<1>10. CASE JoinsWrite(l)
  BY <1>3, <1>10, JoinKeeps DEF JoinsWrite, Waiting, prefetches
<1>11. CASE PrefetchWaitEnds(l)
  BY <1>1, <1>11, TimerKeeps DEF PrefetchWaitEnds
<1>12. CASE WriteWaitEnds(l)
  BY <1>1, <1>12, TimerKeeps DEF WriteWaitEnds, prefetches
<1> QED
  BY <1>5, <1>6, <1>7, <1>8, <1>9, <1>10, <1>11, <1>12 DEF LookupStep

(* What the tables hold besides the entry of a woken key. *)
LEMMA WokenEntry ==
    ASSUME RouterInv, NEW k \in Keys
    PROVE  \E e \in Entry \cup {Nil} :
             /\ e = AfterWake(k)
             /\ e # Nil => (e.pendingRelease => e.held) /\ (e.held => <<e.tab, k>> \in pageHolds \/ e.orphaned)
BY AfterWakeIs DEF RouterInv

LEMMA StoreKeeps ==
    ASSUME RouterInv, NEW s \in Stores, StoreStep(s)
    PROVE  RouterInv'
<1> USE DEF RouterInv
<1> DEFINE k == StoreKey[s]
<1>0. k \in Keys /\ AfterReject(k) \subseteq Keys /\ fetching \subseteq Tabs \X Keys
  BY RouterAssumption DEF AfterReject, RouterTypeOK
<1>1. store' \in [Stores -> {"idle", "writing", "flushing", "done"}]
  BY DEF StoreStep, StoreBegins, StoreFails, StoreIgnored, StorePersists, FlushFinds,
         FlushFindsNothing, RouterTypeOK
<1>2. PICK e \in Entry \cup {Nil} :
        /\ e = AfterWake(k)
        /\ e # Nil => (e.pendingRelease => e.held) /\ (e.held => <<e.tab, k>> \in pageHolds \/ e.orphaned)
  BY <1>0, WokenEntry
<1>3. CASE StoreFails(s)
  <2>1. Wake(k, FALSE, store') /\ inflight' = [inflight EXCEPT ![k] = e]
        /\ UNCHANGED <<fetching, pageHolds>> /\ wire' = AfterReject(k)
    BY <1>2, <1>3 DEF StoreFails
  <2>2. PICK st : st = store'
    OBVIOUS
  <2> HIDE DEF k
  <2> QED BY <1>0, <1>1, <1>2, <2>1, <2>2, WakeKeeps
<1>4. CASE FlushFinds(s)
  <2>1. Wake(k, TRUE, store') /\ inflight' = [inflight EXCEPT ![k] = e]
        /\ UNCHANGED <<wire, fetching, pageHolds>>
    BY <1>2, <1>4 DEF FlushFinds
  <2>2. wire' \subseteq Keys
    BY <2>1 DEF RouterTypeOK
  <2>3. PICK st : st = store'
    OBVIOUS
  <2> HIDE DEF k
  <2> QED BY <1>0, <1>1, <1>2, <2>1, <2>2, <2>3, WakeKeeps
<1>5. CASE StoreBegins(s) \/ StoreIgnored(s) \/ StorePersists(s) \/ FlushFindsNothing(s)
  <2>1. UNCHANGED <<pc, ledger, waiters, wire, prefetches>>
    BY <1>5 DEF StoreBegins, StoreIgnored, StorePersists, FlushFindsNothing
  <2>2. WaitersWait' /\ LocksAreHeld'
    BY <2>1, SameWaits DEF prefetches
  <2>3. RouterTypeOK' /\ HitsAreServed'
    BY <1>1, <2>1 DEF RouterTypeOK, HitsAreServed, ledger, prefetches
  <2> QED BY <2>2, <2>3
<1> QED BY <1>3, <1>4, <1>5 DEF StoreStep

LEMMA PrefetchKeeps ==
    ASSUME RouterInv, NEW k \in Keys, NEW tab \in Tabs, PrefetchStep(k, tab)
    PROVE  RouterInv'
<1> USE DEF RouterInv
<1>0. /\ fetching \subseteq Tabs \X Keys /\ pageHolds \subseteq Tabs \X Keys /\ wire \subseteq Keys
      /\ store \in [Stores -> {"idle", "writing", "flushing", "done"}]
  BY DEF RouterTypeOK
<1>1. PICK e \in Entry \cup {Nil} : e = inflight[k] /\ LockOK(e, k)
  BY LocksAre DEF RouterTypeOK
<1>2. CASE PrefetchScheduled(k, tab)
  <2>0. NewEntry(tab) \in Entry /\ ~NewEntry(tab).held /\ ~NewEntry(tab).pendingRelease
    BY DEF NewEntry, Entry
  <2>1. PICK n \in Entry : n = NewEntry(tab) /\ ~n.held /\ ~n.pendingRelease
    BY <2>0
  <2>2. /\ UNCHANGED <<pc, ledger, waiters, wire, store, pageHolds>>
        /\ inflight' = [inflight EXCEPT ![k] = n] /\ fetching' \subseteq Tabs \X Keys
    BY <1>0, <1>2, <2>1 DEF PrefetchScheduled
  <2> QED BY <1>0, <2>1, <2>2, EntryKeeps
<1>3. CASE PrefetchSucceeds(k, tab)
  <2>1. PICK t \in Entry \cup {Nil} : /\ t = TryReleased(e, TRUE)
                                      /\ t # Nil => e # Nil /\ e.held /\ t.held /\ t.tab = e.tab /\ t.orphaned = e.orphaned
    BY TryReleasedIs
  <2>2. /\ UNCHANGED <<pc, ledger, waiters, wire, store, pageHolds>>
        /\ inflight' = [inflight EXCEPT ![k] = t] /\ fetching' \subseteq Tabs \X Keys
    BY <1>0, <1>1, <1>3, <2>1 DEF PrefetchSucceeds
  <2>3. \A b \in Tabs : Consumed(k, b) => Consumed(k, b)'
    BY <2>2 DEF Consumed, WaitsForPrefetch
  <2>4. t # Nil => (t.pendingRelease => t.held) /\ (t.held => Consumed(k, t.tab)' \/ t.orphaned)
    BY <1>1, <2>1, <2>3, EntryIs DEF LockOK
  <2> QED BY <1>0, <2>2, <2>4, EntryKeeps
<1>4. CASE PrefetchFails(k, tab)
  <2>1. PICK w \in Entry \cup {Nil} :
          /\ w = AfterWake(k)
          /\ w # Nil => (w.pendingRelease => w.held) /\ (w.held => <<w.tab, k>> \in pageHolds \/ w.orphaned)
    BY WokenEntry
  <2>2. PICK t \in Entry \cup {Nil} : /\ t = TryReleased(w, TRUE)
                                      /\ t # Nil => w # Nil /\ w.held /\ t.held /\ t.tab = w.tab /\ t.orphaned = w.orphaned
    BY TryReleasedIs
  <2>3. /\ Wake(k, FALSE, store) /\ UNCHANGED <<pageHolds, store>>
        /\ inflight' = [inflight EXCEPT ![k] = t]
        /\ fetching' \subseteq Tabs \X Keys /\ wire' \subseteq Keys
    BY <1>0, <1>4, <2>1, <2>2 DEF PrefetchFails, AfterReject
  <2>4. t # Nil => (t.pendingRelease => t.held) /\ (t.held => <<t.tab, k>> \in pageHolds \/ t.orphaned)
    BY <2>1, <2>2
  <2>5. PICK st : st = store
    OBVIOUS
  <2> QED BY <1>0, <2>3, <2>4, <2>5, WakeKeeps
<1>5. CASE PageAttaches(k, tab)
  <2>1. PICK a \in Entry \cup {Nil} :
          /\ a = Attached(e, tab)
          /\ e = Nil \/ e.tab # tab => a = e
          /\ e # Nil /\ e.tab = tab => a # Nil /\ a.tab = tab /\ ~a.pendingRelease
    BY AttachedIs
  <2>2. /\ UNCHANGED <<pc, ledger, waiters, wire, store, fetching>>
        /\ pageHolds' = pageHolds \cup {<<tab, k>>}
        /\ inflight' = [inflight EXCEPT ![k] = a]
    BY <1>1, <1>5, <2>1 DEF PageAttaches
  <2>3. \A b \in Tabs : Consumed(k, b) => Consumed(k, b)'
    BY <2>2 DEF Consumed, WaitsForPrefetch
  <2>4. Consumed(k, tab)'
    BY <2>2 DEF Consumed
  <2>5. a # Nil => (a.pendingRelease => a.held) /\ (a.held => Consumed(k, a.tab)' \/ a.orphaned)
    <3>1. CASE e = Nil \/ e.tab # tab
      BY <1>1, <2>1, <2>3, <3>1, EntryIs DEF LockOK
    <3>2. CASE e # Nil /\ e.tab = tab
      BY <2>1, <2>4, <3>2
    <3> QED BY <3>1, <3>2
  <2>6. pageHolds' \subseteq Tabs \X Keys /\ fetching' \subseteq Tabs \X Keys
    BY <1>0, <2>2
  <2> QED BY <2>2, <2>5, <2>6, EntryKeeps
<1>6. CASE PageReleases(k, tab)
  <2>1. PICK r \in Entry \cup {Nil} :
          /\ r = Released(e, {tab})
          /\ e = Nil => r = Nil
          /\ e # Nil /\ e.tab # tab => r = e
          /\ e # Nil /\ e.tab = tab /\ r # Nil => ~r.held /\ ~r.pendingRelease
    BY ReleasedIs
  <2>2. /\ UNCHANGED <<pc, ledger, waiters, wire, store, fetching>>
        /\ pageHolds' = pageHolds \ {<<tab, k>>}
        /\ inflight' = [inflight EXCEPT ![k] = r]
    BY <1>1, <1>6, <2>1 DEF PageReleases
  <2>3. \A b \in Tabs \ {tab} : Consumed(k, b) => Consumed(k, b)'
    BY <2>2 DEF Consumed, WaitsForPrefetch
  <2>4. r # Nil => (r.pendingRelease => r.held) /\ (r.held => Consumed(k, r.tab)' \/ r.orphaned)
    BY <1>1, <2>1, <2>3, EntryIs DEF LockOK
  <2>5. pageHolds' \subseteq Tabs \X Keys /\ fetching' \subseteq Tabs \X Keys
    BY <1>0, <2>2
  <2>6. \A j \in Keys \ {k}, t \in Tabs : <<t, j>> \in pageHolds => <<t, j>> \in pageHolds'
    BY <2>2
  <2> QED BY <2>2, <2>4, <2>5, <2>6, EntryKeeps
<1> QED BY <1>2, <1>3, <1>4, <1>5, <1>6 DEF PrefetchStep

(* A page that goes away leaves its locks behind, as orphans. *)
LEMMA VanishKeeps ==
    ASSUME RouterInv, NEW tab \in Tabs, PageVanishes(tab)
    PROVE  RouterInv'
<1> USE DEF RouterInv
<1>1. UNCHANGED <<pc, ledger, waiters, wire, fetching, store>>
  BY DEF PageVanishes
<1>2. /\ pageHolds' \subseteq Tabs \X Keys
      /\ \A j \in Keys, t \in Tabs \ {tab} : <<t, j>> \in pageHolds => <<t, j>> \in pageHolds'
  BY DEF PageVanishes, RouterTypeOK
<1>3. \A j \in Keys, t \in Tabs :
        /\ t # tab /\ Consumed(j, t) => Consumed(j, t)'
        /\ <<t, j>> \notin pageHolds /\ Consumed(j, t) => Consumed(j, t)'
  BY <1>1, <1>2 DEF Consumed, WaitsForPrefetch
<1>4. ASSUME NEW j \in Keys
      PROVE  \E n \in Entry \cup {Nil} :
                /\ n = inflight'[j]
                /\ n # Nil => /\ n.pendingRelease => n.held
                              /\ n.held => Consumed(j, n.tab)' \/ n.orphaned
  <2>1. PICK e \in Entry \cup {Nil} : e = inflight[j] /\ LockOK(e, j)
    BY LocksAre DEF RouterTypeOK
  <2>2. CASE e # Nil /\ e.tab = tab /\ <<tab, j>> \in pageHolds
    <3>1. PICK b \in BOOLEAN : b = (e.orphaned \/ e.held)
      OBVIOUS
    <3>2. inflight'[j] = [e EXCEPT !.orphaned = b]
      BY <2>1, <2>2, <3>1 DEF PageVanishes
    <3> DEFINE o == [e EXCEPT !.orphaned = b]
    <3>3. /\ o \in Entry /\ o.tab = e.tab /\ o.held = e.held
          /\ o.pendingRelease = e.pendingRelease /\ o.orphaned = b
      BY <2>2 DEF Entry
    <3> HIDE DEF o
    <3>4. inflight'[j] = o
      BY <3>2 DEF o
    <3> QED BY <2>1, <2>2, <3>1, <3>3, <3>4 DEF LockOK
  <2>3. CASE ~(e # Nil /\ e.tab = tab /\ <<tab, j>> \in pageHolds)
    <3>1. inflight'[j] = e
      BY <2>1, <2>3 DEF PageVanishes
    <3>2. e # Nil => (Consumed(j, e.tab) => Consumed(j, e.tab)')
      <4> SUFFICES ASSUME e # Nil PROVE Consumed(j, e.tab) => Consumed(j, e.tab)'
        OBVIOUS
      <4>1. e.tab \in Tabs /\ (e.tab # tab \/ <<e.tab, j>> \notin pageHolds)
        BY <2>3, EntryIs
      <4> QED BY <1>3, <4>1
    <3> QED BY <2>1, <3>1, <3>2 DEF LockOK
  <2> QED BY <2>2, <2>3
<1>5. inflight' \in [Keys -> Entry \cup {Nil}]
  BY <1>4 DEF PageVanishes
<1>6. LocksAreHeld'
  <2>1. ASSUME NEW j \in Keys, inflight'[j] # Nil
        PROVE  /\ inflight'[j].pendingRelease => inflight'[j].held
               /\ inflight'[j].held => \/ (WaitsForPrefetch(j, inflight[j].tab) # {})'
                                       \/ <<inflight'[j].tab, j>> \in pageHolds'
                                       \/ inflight'[j].orphaned
    BY <1>4, <2>1 DEF Consumed, WaitsForPrefetch
  <2> QED BY <2>1 DEF LocksAreHeld
<1>7. RouterTypeOK'
  BY <1>1, <1>2, <1>5 DEF RouterTypeOK, ledger
<1>8. HitsAreServed' /\ WaitersWait'
  BY <1>1 DEF HitsAreServed, WaitersWait, ledger
<1> QED BY <1>6, <1>7, <1>8

LEMMA OtherKeeps ==
    ASSUME RouterInv,
           \/ \E k \in Keys : WireResolves(k) \/ EntryDropped(k)
           \/ \E k \in Keys, defer \in BOOLEAN : EntryReleased(k, defer)
           \/ TimePasses
    PROVE  RouterInv'
<1> USE DEF RouterInv
<1>0. /\ fetching \subseteq Tabs \X Keys /\ pageHolds \subseteq Tabs \X Keys /\ wire \subseteq Keys
      /\ store \in [Stores -> {"idle", "writing", "flushing", "done"}]
  BY DEF RouterTypeOK
<1>1. ASSUME NEW k \in Keys, WireResolves(k) PROVE RouterInv'
  <2>1. PICK w \in Entry \cup {Nil} :
          /\ w = AfterWake(k)
          /\ w # Nil => (w.pendingRelease => w.held) /\ (w.held => <<w.tab, k>> \in pageHolds \/ w.orphaned)
    BY WokenEntry
  <2>2. /\ Wake(k, TRUE, store) /\ UNCHANGED <<fetching, pageHolds, store>>
        /\ inflight' = [inflight EXCEPT ![k] = w] /\ wire' \subseteq Keys
    BY <1>0, <1>1, <2>1 DEF WireResolves
  <2>3. PICK st : st = store
    OBVIOUS
  <2> QED BY <1>0, <2>1, <2>2, <2>3, WakeKeeps
<1>2. ASSUME NEW k \in Keys, EntryDropped(k) PROVE RouterInv'
  <2>1. PICK n \in Entry \cup {Nil} : n = Nil
    OBVIOUS
  <2>2. /\ UNCHANGED <<pc, ledger, waiters, wire, store, fetching, pageHolds>>
        /\ inflight' = [inflight EXCEPT ![k] = n]
    BY <1>2, <2>1 DEF EntryDropped
  <2> QED BY <1>0, <2>1, <2>2, EntryKeeps
<1>3. ASSUME NEW k \in Keys, NEW defer \in BOOLEAN, EntryReleased(k, defer) PROVE RouterInv'
  <2>1. PICK e \in Entry \cup {Nil} : e = inflight[k] /\ LockOK(e, k)
    BY LocksAre DEF RouterTypeOK
  <2>2. PICK t \in Entry \cup {Nil} : /\ t = TryReleased(e, defer)
                                      /\ t # Nil => e # Nil /\ e.held /\ t.held /\ t.tab = e.tab /\ t.orphaned = e.orphaned
    BY TryReleasedIs
  <2>3. /\ UNCHANGED <<pc, ledger, waiters, wire, store, fetching, pageHolds>>
        /\ inflight' = [inflight EXCEPT ![k] = t]
    BY <1>3, <2>1, <2>2 DEF EntryReleased
  <2>4. \A b \in Tabs : Consumed(k, b) => Consumed(k, b)'
    BY <2>3 DEF Consumed, WaitsForPrefetch
  <2>5. t # Nil => (t.pendingRelease => t.held) /\ (t.held => Consumed(k, t.tab)' \/ t.orphaned)
    BY <2>1, <2>2, <2>4, EntryIs DEF LockOK
  <2> QED BY <1>0, <2>3, <2>5, EntryKeeps
<1>4. CASE TimePasses
  <2>1. CASE \E k \in Keys :
               /\ inflight[k] # Nil /\ inflight[k].fresh
               /\ inflight' = [inflight EXCEPT ![k].fresh = FALSE]
               /\ UNCHANGED <<pc, ledger, waiters, wire, fetching, pageHolds, store>>
    <3>1. PICK k \in Keys : /\ inflight[k] # Nil
                            /\ inflight' = [inflight EXCEPT ![k].fresh = FALSE]
                            /\ UNCHANGED <<pc, ledger, waiters, wire, fetching, pageHolds, store>>
      BY <2>1
    <3>2. PICK e \in Entry : e = inflight[k] /\ LockOK(e, k)
      BY <3>1, LocksAre DEF RouterTypeOK
    <3> DEFINE stale == [e EXCEPT !.fresh = FALSE]
    <3>a. /\ stale \in Entry
          /\ stale.tab = e.tab /\ stale.held = e.held
          /\ stale.pendingRelease = e.pendingRelease /\ stale.orphaned = e.orphaned
      BY DEF Entry
    <3>3. PICK o \in Entry : /\ o = [e EXCEPT !.fresh = FALSE]
                             /\ o.tab = e.tab /\ o.held = e.held
                             /\ o.pendingRelease = e.pendingRelease /\ o.orphaned = e.orphaned
      BY <3>a
    <3>4. inflight' = [inflight EXCEPT ![k] = o]
      BY <3>1, <3>2, <3>3
    <3>5. \A b \in Tabs : Consumed(k, b) => Consumed(k, b)'
      BY <3>1 DEF Consumed, WaitsForPrefetch
    <3>6. (o.pendingRelease => o.held) /\ (o.held => Consumed(k, o.tab)' \/ o.orphaned)
      BY <3>2, <3>3, <3>5, EntryIs DEF LockOK
    <3> QED BY <1>0, <3>1, <3>4, <3>6, EntryKeeps
  <2>2. CASE \E k \in wire : /\ wire' = wire \ {k}
                             /\ UNCHANGED <<pc, ledger, waiters, prefetches, store>>
    <3>1. UNCHANGED <<pc, ledger, waiters, prefetches, store>> /\ wire' \subseteq Keys
      BY <1>0, <2>2
    <3>2. WaitersWait' /\ LocksAreHeld'
      BY <3>1, SameWaits DEF prefetches
    <3> QED BY <3>1, <3>2 DEF RouterTypeOK, HitsAreServed, ledger, prefetches
  <2>3. CASE \E m \in recentMiss :
               /\ recentMiss' = recentMiss \ {m}
               /\ UNCHANGED <<pc, outcome, answer, counted, waiters, wire, prefetches, store>>
    <3>1. UNCHANGED <<pc, outcome, answer, counted, waiters, wire, prefetches, store>>
          /\ recentMiss' \subseteq Tabs \X Keys
      BY <2>3 DEF RouterTypeOK
    <3>2. WaitersWait' /\ LocksAreHeld'
      BY <3>1, SameWaits DEF prefetches
    <3> QED BY <3>1, <3>2 DEF RouterTypeOK, HitsAreServed, prefetches
  <2> QED BY <1>4, <2>1, <2>2, <2>3 DEF TimePasses
<1> QED BY <1>1, <1>2, <1>3, <1>4

-----------------------------------------------------------------------------
LEMMA RouterInvInit == Init => RouterInv
<1> SUFFICES ASSUME Init PROVE RouterInv
  OBVIOUS
<1>1. RouterTypeOK
  BY DEF Init, RouterTypeOK, Steps
<1>2. HitsAreServed /\ WaitersWait /\ LocksAreHeld
  BY DEF Init, HitsAreServed, WaitersWait, LocksAreHeld, Ends
<1> QED BY <1>1, <1>2 DEF RouterInv

LEMMA RouterInvNext == RouterInv /\ [Next]_vars => RouterInv'
<1> SUFFICES ASSUME RouterInv, [Next]_vars PROVE RouterInv'
  OBVIOUS
<1>1. CASE UNCHANGED vars
  <2>1. WaitersWait' /\ LocksAreHeld'
    BY <1>1, SameWaits DEF RouterInv, vars, prefetches
  <2>2. RouterTypeOK' /\ HitsAreServed'
    BY <1>1 DEF RouterInv, RouterTypeOK, HitsAreServed, vars, ledger, prefetches
  <2> QED BY <2>1, <2>2 DEF RouterInv
<1>2. ASSUME NEW l \in Lookups,
             LookupSkipped(l) \/ LookupBegins(l) \/ LookupStep(l) \/ WatchdogFires(l)
      PROVE  RouterInv'
  BY <1>2, StartKeeps, LookupKeeps
<1>3. ASSUME NEW s \in Stores, StoreStep(s) PROVE RouterInv'
  BY <1>3, StoreKeeps
<1>4. ASSUME NEW k \in Keys, NEW tab \in Tabs, PrefetchStep(k, tab) PROVE RouterInv'
  BY <1>4, PrefetchKeeps
<1>5. ASSUME NEW tab \in Tabs, PageVanishes(tab) PROVE RouterInv'
  BY <1>5, VanishKeeps
<1>6. CASE Next
  BY <1>2, <1>3, <1>4, <1>5, <1>6, OtherKeeps DEF Next
<1> QED BY <1>1, <1>6

(* Every state of the router is well typed. *)
THEOREM RouterTypeCorrect == Spec => []RouterTypeOK
<1>1. Spec => []RouterInv
  BY RouterInvInit, RouterInvNext, PTL DEF Spec
<1>2. RouterInv => RouterTypeOK
  BY DEF RouterInv
<1> QED BY <1>1, <1>2, PTL

(* One outcome and one matching answer for every lookup, however its watchdog,
   its timers and those who wake it race (message-router.js:606-668). *)
THEOREM OneOutcome == Spec => []HitsAreServed
<1>1. Spec => []RouterInv
  BY RouterInvInit, RouterInvNext, PTL DEF Spec
<1>2. RouterInv => HitsAreServed
  BY DEF RouterInv
<1> QED BY <1>1, <1>2, PTL

(* No lookup that has moved on is left in pendingWriteResolvers
   (message-router.js:288-331, 486-576). *)
THEOREM NoResolverLeaks == Spec => []WaitersWait
<1>1. Spec => []RouterInv
  BY RouterInvInit, RouterInvNext, PTL DEF Spec
<1>2. RouterInv => WaitersWait
  BY DEF RouterInv
<1> QED BY <1>1, <1>2, PTL

(* A lock of an in-flight prefetch outlives its consumers only where a page went
   away without releasing; whatever lookups and waiters do, theirs are given
   back (inflight-consumers.js:25-90). *)
THEOREM NoLockLeaks == Spec => []LocksAreHeld
<1>1. Spec => []RouterInv
  BY RouterInvInit, RouterInvNext, PTL DEF Spec
<1>2. RouterInv => LocksAreHeld
  BY DEF RouterInv
<1> QED BY <1>1, <1>2, PTL
=============================================================================
