---------------------------- MODULE PagePrefetch ----------------------------
(***************************************************************************)
(* The page's prefetch queue, src/page/prefetch/video.js, on top of its     *)
(* network coalescer, src/page/network/network-fetch-coalescer.js.          *)
(*                                                                          *)
(* The background delegates URLs; workers take them from the queue and run  *)
(* one fetch per coalesce key, which later URLs of the key and waiting      *)
(* player requests join.  A player's request starts a queued URL at once.   *)
(* Cancelling empties the queue and aborts fetches, except those a consumer *)
(* holds.  A wire is an entry of inflightByKey; it outlives its fetch while *)
(* consumers hold it (pendingRelease) and is purged after COALESCE_TTL_MS.  *)
(*                                                                          *)
(* Bytes are left out (HotBytes has the cache they land in), and so are the *)
(* PREFETCH_RESULT messages and the intents noted in the page's registry.   *)
(***************************************************************************)
EXTENDS Integers, FiniteSets, SequencesExt, Filtering

CONSTANTS
    Urls,           \* segment URLs the background delegates
    Keys,           \* coalesce keys
    KeyOf,          \* [Urls -> Keys]: resolvePrefetchCoalesceKey
    Players,        \* player requests
    Batches,        \* batches the background delegates, each URL once
    Keeps,          \* sets of URLs the background wants kept by a cancellation
    None,           \* no wire, no generation, no URL, no key
    MaxGen,         \* bound on pageNetworkGeneration
    MaxQueue,       \* MAX_PREFETCH_QUEUE_SIZE
    BaseWorkers,    \* PREFETCH_CONCURRENCY
    MaxWorkers      \* MAX_PREFETCH_WORKERS

Wires == [leader : Urls, consumers : Nat, settled : BOOLEAN]

ASSUME PrefetchAssumption ==
    /\ KeyOf \in [Urls -> Keys]
    /\ Batches \subseteq Seq(Urls) /\ \A b \in Batches : IsInjective(b)
    /\ Keeps \subseteq SUBSET Urls
    /\ IsFiniteSet(Players)
    /\ None \notin Urls \cup Keys \cup Nat \cup Wires
    /\ MaxGen \in Nat /\ MaxQueue \in Nat \ {0}
    /\ BaseWorkers \in Nat \ {0} /\ MaxWorkers \in Nat /\ BaseWorkers <= MaxWorkers

VARIABLES
    gen,        \* pageNetworkGeneration
    queue,      \* prefetchQueue
    queued,     \* queuedPrefetches
    late,       \* queued for longer than PREFETCH_QUEUE_MAX_AGE_MS
    urlGen,     \* urlQueuedGeneration
    awaits,     \* [Urls -> Urls \cup {None}]: the fetch an active URL awaits
    working,    \* the active URLs a worker took, as against demanded ones
    run,        \* where processPrefetchUrlWork of a URL stands
    aborted,    \* running, its controller aborted
    wire,       \* inflightByKey: [leader, consumers, settled], or None
    lapsed,     \* history: running, its wire purged
    waits,      \* [Players -> Keys \cup {None}]: what a player awaits
    workers,    \* prefetchWorkerCount
    parked      \* workers in prefetchQueueWaiters

queueVars == <<queue, queued, late>>
fetchVars == <<awaits, working, run, aborted, wire, lapsed>>
vars == <<gen, queueVars, urlGen, fetchVars, waits, workers, parked>>

-----------------------------------------------------------------------------
Active == {u \in Urls : awaits[u] # None}           \* activePrefetches
Running == {u \in Urls : run[u] # "idle"}
Controllers == Running \ aborted                     \* prefetchAbortControllers
Held(k) == wire[k] # None /\ wire[k].consumers > 0   \* isCoalesceAbortLocked
WaitersOf(k) == {p \in Players : waits[p] = k}
Free == workers - parked - Cardinality(working)

Init ==
    /\ gen = 0
    /\ queue = <<>> /\ queued = {} /\ late = {}
    /\ urlGen = [u \in Urls |-> None]
    /\ awaits = [u \in Urls |-> None]
    /\ working = {}
    /\ run = [u \in Urls |-> "idle"]
    /\ aborted = {} /\ lapsed = {}
    /\ wire = [k \in Keys |-> None]
    /\ waits = [p \in Players |-> None]
    /\ workers = 0 /\ parked = 0

-----------------------------------------------------------------------------
(* Delegated batches and cancellation. *)

\* What a cancellation keeps besides keep: what consumers hold.
Kept(keep) ==
    keep \cup {wire[k].leader : k \in {j \in Keys : Held(j)}}
         \cup {u \in Controllers : Held(KeyOf[u])}

\* cancelPrefetchRunway: aborts and unqueues the rest, and forgets its generations.
CancelledUrls(keep) == (Controllers \cup queued) \ Kept(keep)
CancelledQueue(keep) == Only(queue, Kept(keep))
CancelledAborts(keep) == aborted \cup (Controllers \ Kept(keep))

Cancel(keep, g) ==
    /\ gen' = g
    /\ aborted' = CancelledAborts(keep)
    /\ queue' = CancelledQueue(keep)
    /\ queued' = queued \cap Kept(keep)
    /\ late' = late \cap Kept(keep)
    /\ urlGen' = [u \in Urls |-> IF u \in CancelledUrls(keep) THEN None ELSE urlGen[u]]
    /\ UNCHANGED <<awaits, working, run, wire, lapsed, waits, workers, parked>>

\* prefetchSegmentsFromPage: a batch of a newer generation, or one that carries
\* none and does not append, first cancels; URLs queued or active are skipped;
\* the queue is cut to its limit; the workers are started and woken.
Delegate(batch, g, replaces) ==
    LET kept == IF replaces THEN CancelledQueue({}) ELSE queue
        members == IF replaces THEN queued \cap Kept({}) ELSE queued
        known == IF replaces
                   THEN [u \in Urls |-> IF u \in CancelledUrls({}) THEN None ELSE urlGen[u]]
                   ELSE urlGen
        new == Range(batch) \ (Active \cup members)
        all == kept \o Only(batch, new)
        cut == IF Len(all) > MaxQueue THEN SubSeq(all, 1, MaxQueue) ELSE all
        dropped == Range(all) \ Range(cut)
    IN  /\ g > gen => replaces
        /\ gen' = g
        /\ aborted' = IF replaces THEN CancelledAborts({}) ELSE aborted
        /\ \/ /\ new # {}
              /\ queue' = cut
              /\ queued' = (members \cup new) \ dropped
              /\ late' = (late \cap members) \ dropped
              /\ urlGen' = [u \in Urls |-> IF u \in new THEN g ELSE known[u]]
              /\ parked' = 0
              /\ \E n \in BaseWorkers..MaxWorkers :
                    workers' = IF workers < n THEN n ELSE workers
           \/ \* nothing new, or isPagePrefetchAllowed is false
              /\ queue' = kept
              /\ queued' = members
              /\ late' = late \cap members
              /\ urlGen' = known
              /\ UNCHANGED <<parked, workers>>
        /\ UNCHANGED <<awaits, working, run, wire, lapsed, waits>>

\* pushBufferLoad: more workers, and all of them awake.
PushBufferLoad ==
    /\ \E n \in BaseWorkers..MaxWorkers : workers' = IF workers < n THEN n ELSE workers
    /\ parked' = 0
    /\ UNCHANGED <<gen, queueVars, urlGen, fetchVars, waits>>

\* PREFETCH_QUEUE_MAX_AGE_MS pass for a queued URL.
GrowLate(u) ==
    /\ u \in queued
    /\ late' = late \cup {u}
    /\ UNCHANGED <<gen, queue, queued, urlGen, fetchVars, waits, workers, parked>>

-----------------------------------------------------------------------------
(* Fetches. *)

\* processPrefetchUrl: joins the wire of the key, whose promise may have been
\* settled already, or opens one and starts to fetch.  known is urlGen without
\* the URLs the caller dropped.
Begin(u, known, byWorker) ==
    LET k == KeyOf[u]
        Proceed(leader) ==
            /\ awaits' = [awaits EXCEPT ![u] = leader]
            /\ working' = IF byWorker THEN working \cup {u} ELSE working
            /\ urlGen' = known
        GiveUp ==
            /\ urlGen' = [known EXCEPT ![u] = None]
            /\ UNCHANGED <<awaits, working>>
    IN  /\ \/ /\ wire[k] # None
              /\ IF wire[k].settled THEN GiveUp ELSE Proceed(wire[k].leader)
              /\ UNCHANGED <<run, wire>>
           \/ /\ wire[k] = None
              /\ known[u] = gen
              /\ Proceed(u)
              /\ run' = [run EXCEPT ![u] = "fetch"]
              /\ wire' = [wire EXCEPT ![k] = [leader |-> u, consumers |-> 0, settled |-> FALSE]]
           \/ \* isPagePrefetchAllowed is false
              /\ wire[k] = None
              /\ GiveUp
              /\ UNCHANGED <<run, wire>>
        /\ UNCHANGED <<aborted, lapsed>>

\* dequeuePrefetchUrl passes over what is late, of another generation or active.
Passed(u) == u \notin queued \/ u \in late \/ urlGen[u] # gen \/ u \in Active

\* urlGen without what is dropped for its age or its generation.
Forgetting(gone) ==
    [u \in Urls |-> IF u \in gone /\ (u \in late \/ urlGen[u] # gen) THEN None ELSE urlGen[u]]

\* The queue without the URLs in gone.
Unqueue(gone) ==
    /\ queue' = Only(queue, Urls \ gone)
    /\ queued' = queued \ gone
    /\ late' = late \ gone

\* A free worker takes the i-th URL of the queue, the first worth it, dropping
\* those before it and whatever is late ...
WorkerTakes(i) ==
    LET gone == late \cup {queue[j] : j \in 1..i}
    IN  /\ ~Passed(queue[i])
        /\ \A j \in 1..(i - 1) : Passed(queue[j])
        /\ Unqueue(gone)
        /\ Begin(queue[i], Forgetting(gone), TRUE)
        /\ UNCHANGED parked

(* A faulty WorkerParks: one URL that is passed over ends the turn. *)
WorkerParksEarly ==
    /\ queue # <<>> => Passed(Head(queue))
    /\ Unqueue(late \cup (IF queue = <<>> THEN {} ELSE {Head(queue)}))
    /\ urlGen' = Forgetting(late)
    /\ parked' = parked + 1
    /\ UNCHANGED fetchVars

\* ... or finds none, and parks.
WorkerParks ==
    /\ \A i \in DOMAIN queue : Passed(queue[i])
    /\ queue' = <<>> /\ queued' = queued \ (late \cup Range(queue)) /\ late' = {}
    /\ urlGen' = Forgetting(late \cup Range(queue))
    /\ parked' = parked + 1
    /\ UNCHANGED fetchVars

(* A faulty Room: a worker counts itself. *)
RoomBesideMe == Cardinality(working) + 1 < MaxWorkers

\* The concurrency a worker compares with changes with the buffer's health; it
\* is never less than one.
Room == Cardinality(working) < MaxWorkers

WorkerTurn ==
    /\ Free > 0
    /\ Room
    /\ (\E i \in DOMAIN queue : WorkerTakes(i)) \/ WorkerParks
    /\ UNCHANGED <<gen, waits, workers>>

\* demandStartQueuedPrefetch: the player wants a queued segment that has no wire.
Demand(u) ==
    /\ u \in queued
    /\ wire[KeyOf[u]] = None
    /\ Unqueue({u})
    /\ IF u \in Active THEN UNCHANGED <<fetchVars, urlGen>>
       ELSE Begin(u, [urlGen EXCEPT ![u] = gen], FALSE)
    /\ UNCHANGED <<gen, waits, workers, parked>>

\* The fetch answers: what is left, the extension's fallback and the store of
\* the bytes, no abort stops.
Advance(u) ==
    /\ run[u] = "fetch" /\ u \notin aborted
    /\ run' = [run EXCEPT ![u] = "answered"]
    /\ UNCHANGED <<gen, queueVars, urlGen, awaits, working, aborted, wire, lapsed,
                   waits, workers, parked>>

(* A faulty WireAfter: whatever wire the key has now is settled or dropped. *)
AnyWireAfter(u) ==
    LET w == wire[KeyOf[u]]
    IN  IF w = None \/ w.consumers = 0 THEN None ELSE [w EXCEPT !.settled = TRUE]

\* The wire after the fetch of u: kept for its consumers, or dropped; another
\* fetch's wire is left alone.
WireAfter(u) ==
    LET w == wire[KeyOf[u]]
    IN  IF w = None \/ w.leader # u THEN w
        ELSE IF w.consumers > 0 THEN [w EXCEPT !.settled = TRUE]
        ELSE None

\* The fetch fails, is aborted, or has stored its bytes: whoever joined it ends too.
Finish(u) ==
    LET ended == {v \in Urls : awaits[v] = u}
    IN  /\ run[u] # "idle"
        /\ run' = [run EXCEPT ![u] = "idle"]
        /\ aborted' = aborted \ {u}
        /\ lapsed' = lapsed \ {u}
        /\ wire' = [wire EXCEPT ![KeyOf[u]] = WireAfter(u)]
        /\ awaits' = [v \in Urls |-> IF v \in ended THEN None ELSE awaits[v]]
        /\ working' = working \ ended
        /\ urlGen' = [v \in Urls |-> IF v \in ended THEN None ELSE urlGen[v]]
        /\ UNCHANGED <<gen, queueVars, waits, workers, parked>>

\* purgeStaleCoalescedEntries: a wire is older than COALESCE_TTL_MS.
Purge(k) ==
    /\ wire[k] # None
    /\ lapsed' = IF wire[k].settled THEN lapsed ELSE lapsed \cup {wire[k].leader}
    /\ wire' = [wire EXCEPT ![k] = None]
    /\ UNCHANGED <<gen, queueVars, urlGen, awaits, working, run, aborted, waits,
                   workers, parked>>

-----------------------------------------------------------------------------
(* Players. *)

\* awaitCollapsedNetworkDelivery: attaches if there is a wire; it may be that only
\* the background has the segment in flight.
Wait(p, k) ==
    /\ waits[p] = None
    /\ waits' = [waits EXCEPT ![p] = k]
    /\ wire' = IF wire[k] = None THEN wire ELSE [wire EXCEPT ![k].consumers = @ + 1]
    /\ UNCHANGED <<gen, queueVars, urlGen, awaits, working, run, aborted, lapsed,
                   workers, parked>>

(* A faulty Released: pendingRelease is not looked at. *)
ReleasedOnly(w) == [w EXCEPT !.consumers = IF @ > 0 THEN @ - 1 ELSE 0]

\* releaseCoalesceConsumer: never below zero, and the last one drops a settled wire.
Released(w) ==
    LET left == IF w.consumers > 0 THEN w.consumers - 1 ELSE 0
    IN  IF left = 0 /\ w.settled THEN None ELSE [w EXCEPT !.consumers = left]

\* Bytes came, by the wire or any cache, or the time is up.
Leave(p) ==
    LET k == waits[p]
    IN  /\ k # None
        /\ waits' = [waits EXCEPT ![p] = None]
        /\ wire' = IF wire[k] = None THEN wire ELSE [wire EXCEPT ![k] = Released(@)]
        /\ UNCHANGED <<gen, queueVars, urlGen, awaits, working, run, aborted, lapsed,
                       workers, parked>>

-----------------------------------------------------------------------------
Next ==
    \/ \E keep \in Keeps, g \in gen..MaxGen : Cancel(keep, g)
    \/ \E batch \in Batches, g \in gen..MaxGen, replaces \in BOOLEAN : Delegate(batch, g, replaces)
    \/ PushBufferLoad
    \/ WorkerTurn
    \/ \E u \in Urls : GrowLate(u) \/ Demand(u) \/ Advance(u) \/ Finish(u)
    \/ \E k \in Keys : Purge(k) \/ \E p \in Players : Wait(p, k)
    \/ \E p \in Players : Leave(p)

\* A fetch is answered or fails in the end, and a worker that finds no other at
\* work does not sleep for concurrency's sake.
Fairness ==
    /\ WF_vars(Cardinality(working) = 0 /\ WorkerTurn)
    /\ \A u \in Urls : WF_vars(Finish(u))

Spec == Init /\ [][Next]_vars /\ Fairness

-----------------------------------------------------------------------------
(* Properties. *)

\* A fetch that has not outlived the wires' time is what its key's wire names:
\* others join it, and there is no second one for the key.  One that has been
\* purged, when it ends, does not take the wire of its successor along.
WireNamesFetch ==
    \A u \in Running \ lapsed :
        LET w == wire[KeyOf[u]] IN w # None /\ w.leader = u /\ ~w.settled

\* A wire kept after its fetch has ended is kept for a player that still waits,
\* and consumers never counts more than wait.
SettledWireIsAwaited ==
    \A k \in Keys : wire[k] # None =>
        /\ wire[k].consumers <= Cardinality(WaitersOf(k))
        /\ wire[k].settled => WaitersOf(k) # {}
        /\ ~wire[k].settled => run[wire[k].leader] # "idle"

\* No worker sleeps in prefetchQueueWaiters while the queue holds a URL.
NoWorkerSleepsOnWork == queue # <<>> => parked = 0 /\ workers > 0

\* A batch that replaces the queue may put URLs that were waiting behind others.
PutBehind ==
    \E i \in DOMAIN queue, j \in DOMAIN queue' : j > i /\ queue'[j] = queue[i]

\* Once batches no longer put waiting URLs behind others, whatever is queued
\* leaves the queue: taken, skipped or cancelled.
EveryQueuedUrlLeaves ==
    <>[][~PutBehind]_vars => \A u \in Urls : (u \in queued) ~> (u \notin queued)
=============================================================================
