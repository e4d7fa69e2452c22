---------------------------- MODULE LookupRouter ----------------------------
(***************************************************************************)
(* Cache lookups in the message router (background/messaging/              *)
(* message-router.js). A lookup that finds nothing on its first pass waits *)
(* for a prefetch of its segment, then for a store of it, and is woken by  *)
(* whatever comes first: the bytes handed over by the page, the end of the *)
(* store, the failure of the prefetch, or a timer. A waiter keeps the      *)
(* in-flight prefetch locked (prefetch/state/inflight-consumers.js). The   *)
(* ledger books one outcome and sends one answer, whichever of the handler *)
(* and its watchdog comes first.                                           *)
(*                                                                         *)
(* What a read of the cache answers is left open here: ChunkLookup models  *)
(* it, evictions and faults included. How long a store takes is left open  *)
(* too: StoreQueue models it.                                              *)
(***************************************************************************)
EXTENDS Naturals, FiniteSets

CONSTANTS
    Lookups,   \* the AegisStream:CacheLookup messages
    Stores,    \* the AegisStream:StoreChunk messages
    Tabs,
    Keys,      \* canonical cache keys
    KeyOf,     \* [Lookups -> Keys]
    TabOf,     \* [Lookups -> Tabs]
    StoreKey,  \* [Stores -> Keys]
    Ranged,    \* the lookups that ask for a range no item can satisfy
    Drops,     \* whether ClearCache, a closed tab or disabling may intervene
    Nil

ASSUME RouterAssumption ==
    /\ KeyOf \in [Lookups -> Keys] /\ TabOf \in [Lookups -> Tabs]
    /\ StoreKey \in [Stores -> Keys]
    /\ Ranged \subseteq Lookups /\ Drops \in BOOLEAN
    /\ Nil \notin {"hit", "miss"}
    /\ Nil \notin [tab : Tabs, held : BOOLEAN, pendingRelease : BOOLEAN, fresh : BOOLEAN,
                   orphaned : BOOLEAN]

VARIABLES
    pc,          \* where each lookup is
    outcome,     \* what the ledger booked for it, or Nil
    answer,      \* what its player was told, or Nil
    counted,     \* the lookups counted in stats.cacheLookups
    recentMiss,  \* recentLookupMissAt: the tabs and keys of recent misses
    waiters,     \* pendingWriteResolvers: key -> waiting lookups
    wire,        \* wireResolvedByKey: the keys with live entries
    inflight,    \* inflightPrefetches: key -> entry, or Nil
    fetching,    \* the prefetches delegated to pages, by tab and key
    pageHolds,   \* page-side consumers: at most one for a tab and key
    store        \* where each store is

ledger == <<outcome, answer, counted, recentMiss>>
prefetches == <<inflight, fetching, pageHolds>>
vars == <<pc, ledger, waiters, wire, prefetches, store>>

Ends == {"hit", "miss", "noRange", "auth", "threw", "skipped"}
Steps == {"idle", "first", "prefetchGet", "prefetchWait", "writeGet", "writeWait", "recheck"}

Entry == [tab : Tabs, held : BOOLEAN, pendingRelease : BOOLEAN, fresh : BOOLEAN,
          orphaned : BOOLEAN]

Open(l) == pc[l] \notin Ends \cup {"idle"}
WaitsForPrefetch(k, tab) ==
    {l \in Lookups : pc[l] = "prefetchWait" /\ KeyOf[l] = k /\ TabOf[l] = tab}

-----------------------------------------------------------------------------
(* In-flight prefetch entries. A consumer is a tab in the entry's set of
   attached tabs, and only its own tab ever attaches: the count is 0 or 1. That
   a page went away while attached is history (orphaned). *)
NewEntry(tab) ==
    [tab |-> tab, held |-> FALSE, pendingRelease |-> FALSE, fresh |-> TRUE,
     orphaned |-> FALSE]

Attached(e, tab) ==
    IF e = Nil \/ e.tab # tab THEN e
    ELSE [e EXCEPT !.held = TRUE, !.pendingRelease = FALSE]

(* A faulty Released: the deferred removal is forgotten. *)
ReleasedOnly(e, tabs) ==
    IF e = Nil \/ e.tab \notin tabs THEN e
    ELSE [e EXCEPT !.held = FALSE, !.orphaned = FALSE]

(* releaseInflightConsumer by these tabs. *)
Released(e, tabs) ==
    IF e = Nil \/ e.tab \notin tabs THEN e
    ELSE IF e.pendingRelease THEN Nil ELSE [e EXCEPT !.held = FALSE, !.orphaned = FALSE]

TryReleased(e, defer) ==
    IF e # Nil /\ e.held THEN [e EXCEPT !.pendingRelease = defer] ELSE Nil

(* The lookup finds a live prefetch of its own tab. *)
Joinable(l) ==
    LET e == inflight[KeyOf[l]] IN e # Nil /\ e.tab = TabOf[l] /\ e.fresh

InflightWrite(k, st) == \E s \in Stores : StoreKey[s] = k /\ st[s] = "writing"

-----------------------------------------------------------------------------
(* Where a lookup goes: with the item in hand; when no prefetch helps; and
   when the first pass found nothing. *)
Served(l) == IF l \in Ranged THEN "noRange" ELSE "hit"
AfterPrefetch(l, st) == IF InflightWrite(KeyOf[l], st) THEN "writeGet" ELSE "miss"
AfterFirst(l) == IF Joinable(l) THEN "prefetchGet" ELSE AfterPrefetch(l, store)

Verdict(end) == IF end = "hit" THEN "hit" ELSE "miss"

(* The lookups of next's domain move on. Those that end are settled and
   answered, by the ledger's rule that the first one counts. *)
Move(next) ==
    LET ended == {l \in DOMAIN next : next[l] \in Ends}
        FirstWins(said) ==
            [l \in Lookups |-> IF l \in ended /\ said[l] = Nil THEN Verdict(next[l])
                                                              ELSE said[l]]
    IN  /\ pc' = [l \in Lookups |-> IF l \in DOMAIN next THEN next[l] ELSE pc[l]]
        /\ outcome' = FirstWins(outcome)
        /\ answer' = FirstWins(answer)
        /\ recentMiss' = recentMiss \cup
             {<<TabOf[l], KeyOf[l]>> : l \in {e \in ended : next[e] = "miss"}}
        /\ UNCHANGED counted

Moves(l, to) == Move([x \in {l} |-> to])

(* resolvePendingInflightLookups and rejectPendingInflightLookups: every waiter
   of the key resumes in the same turn. *)
Wake(k, item, st) ==
    /\ Move([l \in waiters[k] |->
               IF item THEN Served(l)
               ELSE IF pc[l] = "writeWait" THEN "recheck" ELSE AfterPrefetch(l, st)])
    /\ waiters' = [waiters EXCEPT ![k] = {}]

(* The entry of k once the woken waiters have released it. *)
AfterWake(k) ==
    Released(inflight[k], {TabOf[l] : l \in {w \in waiters[k] : pc[w] = "prefetchWait"}})

(* A rejection drops the handed-over bytes, if anyone was waiting. *)
AfterReject(k) == IF waiters[k] = {} THEN wire ELSE wire \ {k}

-----------------------------------------------------------------------------
(* The lookup handler. *)
LookupSkipped(l) ==
    /\ pc[l] = "idle"
    /\ pc' = [pc EXCEPT ![l] = "skipped"]
    /\ answer' = [answer EXCEPT ![l] = "miss"]
    /\ UNCHANGED <<outcome, counted, recentMiss, waiters, wire, prefetches, store>>

(* A repeat of a recent miss is not counted, unless something is under way. *)
Uncounted(l) ==
    /\ <<TabOf[l], KeyOf[l]>> \in recentMiss
    /\ inflight[KeyOf[l]] = Nil
    /\ ~InflightWrite(KeyOf[l], store)

LookupBegins(l) ==
    /\ pc[l] = "idle"
    /\ pc' = [pc EXCEPT ![l] = "first"]
    /\ counted' = IF Uncounted(l) THEN counted ELSE counted \cup {l}
    /\ UNCHANGED <<outcome, answer, recentMiss, waiters, wire, prefetches, store>>

(* The first pass, the segment's earlier URLs and the wait for a rotation
   bridge included; on an expired session a miss is final. *)
FirstPassEnds(l) ==
    /\ pc[l] = "first"
    /\ \E to \in {Served(l), AfterFirst(l), "auth"} : Moves(l, to)
    /\ UNCHANGED <<waiters, wire, prefetches, store>>

LookupThrows(l) ==
    /\ pc[l] = "first"
    /\ Moves(l, "threw")
    /\ UNCHANGED <<waiters, wire, prefetches, store>>

PrefetchGetFinds(l) ==
    /\ pc[l] = "prefetchGet"
    /\ Moves(l, Served(l))
    /\ UNCHANGED <<waiters, wire, prefetches, store>>

(* The lookup waits, whether or not the prefetch is still in flight. *)
JoinsPrefetch(l) ==
    /\ pc[l] = "prefetchGet"
    /\ KeyOf[l] \notin wire
    /\ Moves(l, "prefetchWait")
    /\ waiters' = [waiters EXCEPT ![KeyOf[l]] = @ \cup {l}]
    /\ inflight' = [inflight EXCEPT ![KeyOf[l]] = Attached(@, TabOf[l])]
    /\ UNCHANGED <<wire, fetching, pageHolds, store>>

(* A faulty PrefetchWaitEnds: the resolver stays in the table. *)
PrefetchWaitEndsOnly(l) ==
    /\ pc[l] = "prefetchWait"
    /\ Moves(l, AfterPrefetch(l, store))
    /\ inflight' = [inflight EXCEPT ![KeyOf[l]] = Released(@, {TabOf[l]})]
    /\ UNCHANGED <<waiters, wire, fetching, pageHolds, store>>

(* CACHE_LOOKUP_COLLAPSE_WAIT_MS have passed. *)
PrefetchWaitEnds(l) ==
    /\ pc[l] = "prefetchWait"
    /\ Moves(l, AfterPrefetch(l, store))
    /\ waiters' = [waiters EXCEPT ![KeyOf[l]] = @ \ {l}]
    /\ inflight' = [inflight EXCEPT ![KeyOf[l]] = Released(@, {TabOf[l]})]
    /\ UNCHANGED <<wire, fetching, pageHolds, store>>

WriteGetFinds(l) ==
    /\ pc[l] = "writeGet"
    /\ Moves(l, Served(l))
    /\ UNCHANGED <<waiters, wire, prefetches, store>>

(* The lookup waits, whether or not the store is still under way. *)
JoinsWrite(l) ==
    /\ pc[l] = "writeGet"
    /\ Moves(l, "writeWait")
    /\ waiters' = [waiters EXCEPT ![KeyOf[l]] = @ \cup {l}]
    /\ UNCHANGED <<wire, prefetches, store>>

(* A faulty WriteWaitEnds: the wait relies on the end of a store. *)
WriteWaitEndsWhileWriting(l) ==
    /\ pc[l] = "writeWait"
    /\ InflightWrite(KeyOf[l], store)
    /\ Moves(l, "recheck")
    /\ waiters' = [waiters EXCEPT ![KeyOf[l]] = @ \ {l}]
    /\ UNCHANGED <<wire, prefetches, store>>

(* INFLIGHT_CHUNK_WRITE_WAIT_MS have passed. *)
WriteWaitEnds(l) ==
    /\ pc[l] = "writeWait"
    /\ Moves(l, "recheck")
    /\ waiters' = [waiters EXCEPT ![KeyOf[l]] = @ \ {l}]
    /\ UNCHANGED <<wire, prefetches, store>>

Rechecks(l) ==
    /\ pc[l] = "recheck"
    /\ \E to \in {Served(l), "miss"} : Moves(l, to)
    /\ UNCHANGED <<waiters, wire, prefetches, store>>

(* A faulty WatchdogFires: the player is answered, the ledger stays open. *)
WatchdogAnswers(l) ==
    /\ Open(l) /\ answer[l] = Nil
    /\ answer' = [answer EXCEPT ![l] = "miss"]
    /\ UNCHANGED <<pc, outcome, counted, recentMiss, waiters, wire, prefetches, store>>

(* LOOKUP_WATCHDOG_MS have passed; the handler goes on. *)
WatchdogFires(l) ==
    /\ Open(l) /\ answer[l] = Nil
    /\ outcome' = [outcome EXCEPT ![l] = IF @ = Nil THEN "miss" ELSE @]
    /\ answer' = [answer EXCEPT ![l] = "miss"]
    /\ UNCHANGED <<pc, counted, recentMiss, waiters, wire, prefetches, store>>

-----------------------------------------------------------------------------
(* The store handler. *)
StoreBegins(s) ==
    /\ store[s] = "idle"
    /\ store' = [store EXCEPT ![s] = "writing"]
    /\ UNCHANGED <<pc, ledger, waiters, wire, prefetches>>

StoreFails(s) ==
    LET k == StoreKey[s] IN
    /\ store[s] = "writing"
    /\ store' = [store EXCEPT ![s] = "done"]
    /\ Wake(k, FALSE, store')
    /\ wire' = AfterReject(k)
    /\ inflight' = [inflight EXCEPT ![k] = AfterWake(k)]
    /\ UNCHANGED <<fetching, pageHolds>>

(* Acknowledged without a store: nobody is woken. *)
StoreIgnored(s) ==
    /\ store[s] = "writing"
    /\ store' = [store EXCEPT ![s] = "done"]
    /\ UNCHANGED <<pc, ledger, waiters, wire, prefetches>>

(* Stored, or a duplicate of what is stored: read it back for the waiters. *)
StorePersists(s) ==
    /\ store[s] = "writing"
    /\ store' = [store EXCEPT ![s] = "flushing"]
    /\ UNCHANGED <<pc, ledger, waiters, wire, prefetches>>

FlushFinds(s) ==
    LET k == StoreKey[s] IN
    /\ store[s] = "flushing"
    /\ store' = [store EXCEPT ![s] = "done"]
    /\ Wake(k, TRUE, store')
    /\ inflight' = [inflight EXCEPT ![k] = AfterWake(k)]
    /\ UNCHANGED <<wire, fetching, pageHolds>>

FlushFindsNothing(s) ==
    /\ store[s] = "flushing"
    /\ store' = [store EXCEPT ![s] = "done"]
    /\ UNCHANGED <<pc, ledger, waiters, wire, prefetches>>

-----------------------------------------------------------------------------
(* Prefetches: the scheduler replaces an entry of another tab, or a stale one. *)
PrefetchScheduled(k, tab) ==
    /\ ~(inflight[k] # Nil /\ inflight[k].tab = tab /\ inflight[k].fresh)
    /\ inflight' = [inflight EXCEPT ![k] = NewEntry(tab)]
    /\ fetching' = fetching \cup {<<tab, k>>}
    /\ UNCHANGED <<pc, ledger, waiters, wire, pageHolds, store>>

(* updatePrefetchOutcome. *)
PrefetchSucceeds(k, tab) ==
    /\ <<tab, k>> \in fetching
    /\ fetching' = fetching \ {<<tab, k>>}
    /\ inflight' = [inflight EXCEPT ![k] = TryReleased(@, TRUE)]
    /\ UNCHANGED <<pc, ledger, waiters, wire, pageHolds, store>>

PrefetchFails(k, tab) ==
    /\ <<tab, k>> \in fetching
    /\ fetching' = fetching \ {<<tab, k>>}
    /\ Wake(k, FALSE, store)
    /\ wire' = AfterReject(k)
    /\ inflight' = [inflight EXCEPT ![k] = TryReleased(AfterWake(k), TRUE)]
    /\ UNCHANGED <<pageHolds, store>>

(* handleInflightWireResolve: the page hands over what it fetched. *)
WireResolves(k) ==
    /\ wire' = wire \cup {k}
    /\ Wake(k, TRUE, store)
    /\ inflight' = [inflight EXCEPT ![k] = AfterWake(k)]
    /\ UNCHANGED <<fetching, pageHolds, store>>

(* Navigation, a playlist update or a prune gives the entry up; the prune of a
   hidden tab (defer FALSE) does not come back for it. *)
EntryReleased(k, defer) ==
    /\ inflight[k] # Nil
    /\ defer \/ ~inflight[k].fresh
    /\ inflight' = [inflight EXCEPT ![k] = TryReleased(@, defer)]
    /\ UNCHANGED <<pc, ledger, waiters, wire, fetching, pageHolds, store>>

EntryDropped(k) ==
    /\ Drops
    /\ inflight[k] # Nil
    /\ inflight' = [inflight EXCEPT ![k] = Nil]
    /\ UNCHANGED <<pc, ledger, waiters, wire, fetching, pageHolds, store>>

(* A consumer in the page comes and goes (handleInflightConsumerMutate). *)
PageAttaches(k, tab) ==
    /\ <<tab, k>> \notin pageHolds
    /\ pageHolds' = pageHolds \cup {<<tab, k>>}
    /\ inflight' = [inflight EXCEPT ![k] = Attached(@, tab)]
    /\ UNCHANGED <<pc, ledger, waiters, wire, fetching, store>>

PageReleases(k, tab) ==
    /\ <<tab, k>> \in pageHolds
    /\ pageHolds' = pageHolds \ {<<tab, k>>}
    /\ inflight' = [inflight EXCEPT ![k] = Released(@, {tab})]
    /\ UNCHANGED <<pc, ledger, waiters, wire, fetching, store>>

(* The page reloads, navigates or loses its relay: the release its consumers owe
   is never sent, and their lookups go on without them. *)
PageVanishes(tab) ==
    /\ \E k \in Keys : <<tab, k>> \in pageHolds
    /\ pageHolds' = {h \in pageHolds : h[1] # tab}
    /\ inflight' =
         [k \in Keys |->
            IF inflight[k] # Nil /\ inflight[k].tab = tab /\ <<tab, k>> \in pageHolds
            THEN [inflight[k] EXCEPT !.orphaned = @ \/ inflight[k].held] ELSE inflight[k]]
    /\ UNCHANGED <<pc, ledger, waiters, wire, fetching, store>>

(* PREFETCH_INFLIGHT_TTL_MS, WIRE_RESOLVED_TTL_MS and
   REPEAT_LOOKUP_MISS_DEDUPE_MS run out. *)
TimePasses ==
    \/ \E k \in Keys :
         /\ inflight[k] # Nil /\ inflight[k].fresh
         /\ inflight' = [inflight EXCEPT ![k].fresh = FALSE]
         /\ UNCHANGED <<pc, ledger, waiters, wire, fetching, pageHolds, store>>
    \/ \E k \in wire :
         /\ wire' = wire \ {k}
         /\ UNCHANGED <<pc, ledger, waiters, prefetches, store>>
    \/ \E m \in recentMiss :
         /\ recentMiss' = recentMiss \ {m}
         /\ UNCHANGED <<pc, outcome, answer, counted, waiters, wire, prefetches, store>>

-----------------------------------------------------------------------------
Init ==
    /\ pc = [l \in Lookups |-> "idle"]
    /\ outcome = [l \in Lookups |-> Nil]
    /\ answer = [l \in Lookups |-> Nil]
    /\ counted = {}
    /\ recentMiss = {}
    /\ waiters = [k \in Keys |-> {}]
    /\ wire = {}
    /\ inflight = [k \in Keys |-> Nil]
    /\ fetching = {}
    /\ pageHolds = {}
    /\ store = [s \in Stores |-> "idle"]

(* The reads and timers of a lookup under way. *)
LookupStep(l) ==
    \/ FirstPassEnds(l) \/ LookupThrows(l)
    \/ PrefetchGetFinds(l) \/ JoinsPrefetch(l) \/ PrefetchWaitEnds(l)
    \/ WriteGetFinds(l) \/ JoinsWrite(l) \/ WriteWaitEnds(l) \/ Rechecks(l)

StoreStep(s) ==
    \/ StoreBegins(s) \/ StoreFails(s) \/ StoreIgnored(s) \/ StorePersists(s)
    \/ FlushFinds(s) \/ FlushFindsNothing(s)

PrefetchStep(k, tab) ==
    \/ PrefetchScheduled(k, tab) \/ PrefetchSucceeds(k, tab) \/ PrefetchFails(k, tab)
    \/ PageAttaches(k, tab) \/ PageReleases(k, tab)

Next ==
    \/ \E l \in Lookups : LookupSkipped(l) \/ LookupBegins(l) \/ LookupStep(l) \/ WatchdogFires(l)
    \/ \E s \in Stores : StoreStep(s)
    \/ \E k \in Keys, tab \in Tabs : PrefetchStep(k, tab)
    \/ \E tab \in Tabs : PageVanishes(tab)
    \/ \E k \in Keys : WireResolves(k) \/ EntryDropped(k)
    \/ \E k \in Keys, defer \in BOOLEAN : EntryReleased(k, defer)
    \/ TimePasses

Spec == Init /\ [][Next]_vars

(* A read of the cache ends, well or not (db.js:229, withIdbTimeout), and
   timers fire; nothing else is forced, the watchdog neither. *)
LiveSpec == Spec /\ WF_vars(\E l \in Lookups : LookupStep(l))

-----------------------------------------------------------------------------
RouterTypeOK ==
    /\ pc \in [Lookups -> Steps \cup Ends]
    /\ outcome \in [Lookups -> {"hit", "miss", Nil}]
    /\ answer \in [Lookups -> {"hit", "miss", Nil}]
    /\ counted \subseteq Lookups
    /\ recentMiss \subseteq Tabs \X Keys
    /\ waiters \in [Keys -> SUBSET Lookups]
    /\ wire \subseteq Keys
    /\ inflight \in [Keys -> Entry \cup {Nil}]
    /\ fetching \subseteq Tabs \X Keys
    /\ pageHolds \subseteq Tabs \X Keys
    /\ store \in [Stores -> {"idle", "writing", "flushing", "done"}]

(* "One lookup in, exactly one outcome out" (message-router.js:578): a lookup
   that was opened and has ended is booked, as a hit exactly when its player
   was sent the bytes, although the watchdog may have answered before the
   handler, and a late hit may follow its miss. *)
HitsAreServed ==
    \A l \in Lookups :
        /\ pc[l] \in Ends => answer[l] # Nil
        /\ pc[l] # "skipped" => outcome[l] = answer[l]

(* The table of resolvers holds exactly the lookups that wait, under their own
   keys: a lookup that timed out or was woken leaves nothing behind that could
   resume it again. *)
WaitersWait ==
    \A k \in Keys :
        waiters[k] = {l \in Lookups : KeyOf[l] = k /\ pc[l] \in {"prefetchWait", "writeWait"}}

(* A lock outlives its consumers in one case only: a locked entry has a waiting
   lookup or a page-side consumer of its tab, or a page went away with one and no
   consumer of the tab has released since. An entry whose removal was deferred is
   locked: the release that unlocks it removes it. *)
LocksAreHeld ==
    \A k \in Keys :
        inflight[k] # Nil =>
            LET e == inflight[k] IN
            /\ e.pendingRelease => e.held
            /\ e.held => \/ WaitsForPrefetch(k, e.tab) # {}
                         \/ <<e.tab, k>> \in pageHolds
                         \/ e.orphaned

(* Every lookup comes to an end and its player is answered, although it may
   wait for a prefetch or a store that has ended already. An end is final, so
   this is the same as pc[l] # "idle" ~> pc[l] \in Ends for every lookup. *)
EveryLookupEnds ==
    <>[](\A l \in Lookups : ~Open(l) /\ (pc[l] # "idle" => answer[l] # Nil))

=============================================================================
