------------------------------ MODULE ChunkStore ------------------------------
(***************************************************************************)
(* The background service worker's chunk cache: the two IndexedDB stores   *)
(* (chunks, aliases), the in-memory key index, the cache registry that the *)
(* prefetch scheduler consults, and the store dedup table, as changed by   *)
(* cacheChunk, by eviction passes with their TTL sweep, by the registry    *)
(* rebuild and by ClearCache (background/cache/db.js, cache-registry.js,   *)
(* eviction-journal.js).                                                   *)
(*                                                                         *)
(* The worker is single threaded: an action is the completion of one       *)
(* awaited IndexedDB operation together with all the code that runs up to  *)
(* the next await.                                                         *)
(***************************************************************************)
EXTENDS Naturals, Sequences, FiniteSetsExt

CONSTANTS
    Urls,        \* chunk URLs, hash stripped; every URL is itself a cache key
    Keys,        \* cache keys: raw URLs, query-free aliases, invariant keys
    Variants,    \* [Keys -> Seq(Keys)], buildCacheKeyVariants; head = primary
    RegKey,      \* [Keys -> Keys], resolveRegistryKey
    Bytes,       \* payloads
    Size,        \* [Bytes -> Nat], byteLength of a payload
    BytesOf,     \* [Keys -> SUBSET Bytes], the payloads of the segment of a URL
    Scopes,      \* pages; a row and a lookup of different pages do not match
    RowScopes,   \* the scopes that stores give their rows
    Writers,     \* concurrent cacheChunk calls
    Passes,      \* concurrent runEvictionPass calls
    SoftEntries, \* entries at which pressure counts as soft (rounded 0.9 max)
    Target,      \* [Lanes -> Nat], entries a pass of the lane evicts down to
    MaxDeletes,  \* CACHE_MAX_EVICTION_BATCH
    MaxSweep,    \* CACHE_TTL_SWEEP_MAX_DELETE
    MaxListed,   \* keys that listCachedChunkKeys lists (1200, of up to 2000 rows)
    Faults,      \* what IndexedDB may do besides succeeding
    Nil

Lanes == {"hard", "soft", "reconcile"}
FaultKinds == {"error", "late", "abort"}

(* Row ages: "new" inside the 20 s duplicate-write window, "kept" after it,
   "expired" past the one-hour TTL of the sweep. *)
Ages == {"new", "kept", "expired"}
Row == [bytes : Bytes, age : Ages, scope : Scopes \cup {Nil}]

ASSUME StoreAssumption ==
    /\ Urls \subseteq Keys
    /\ Variants \in [Keys -> Seq(Keys)]
    /\ \A k \in Keys : Variants[k] # <<>>
    /\ RegKey \in [Keys -> Keys]
    /\ Size \in [Bytes -> Nat]
    /\ BytesOf \in [Keys -> SUBSET Bytes]
    /\ RowScopes \subseteq Scopes \cup {Nil}
    /\ SoftEntries \in Nat /\ MaxDeletes \in Nat \ {0} /\ MaxSweep \in Nat \ {0}
    /\ MaxListed \in Nat \ {0}
    /\ Target \in [Lanes -> Nat]
    /\ Faults \subseteq FaultKinds
    /\ Nil \notin Keys /\ Nil \notin Bytes /\ Nil \notin Scopes /\ Nil \notin Row

(* The registry tells primary keys apart, and a key is among its own variants
   (buildCacheKeyVariants pushes the URL itself). *)
ASSUME KeyAssumption ==
    /\ \A u, v \in Urls :
          RegKey[Variants[u][1]] = RegKey[Variants[v][1]] => Variants[u][1] = Variants[v][1]
    /\ \A k \in Keys : \E i \in 1..Len(Variants[k]) : Variants[k][i] = k

VARIABLES
    chunks,    \* chunks store: primary key -> row, or Nil
    aliases,   \* alias store: alias -> target key, or Nil
    index,     \* memoryKeyIndex: key -> primary key, or Nil
    registry,  \* state.cacheRegistryKeys
    dedup,     \* storeDedupByInvariantCrc: <<primary, payload>> still in TTL
    writer,    \* one record per cacheChunk call
    pass,      \* one record per eviction pass
    evicting,  \* evictionInProgress
    clear      \* program counter of a ClearCache request

rows == <<chunks, aliases, index, registry, dedup>>
vars == <<chunks, aliases, index, registry, dedup, writer, pass, evicting, clear>>

WriterRec == [pc : {"idle", "get", "put", "alias"}, url : Urls \cup {Nil},
              bytes : Bytes \cup {Nil}, scope : Scopes \cup {Nil}]
PassRec == [pc : {"idle", "summarize", "sweep", "sweptAliases", "delete", "cleanup", "hung"},
            lane : Lanes, seen : SUBSET Keys, del : SUBSET Keys]

IdleWriter == [pc |-> "idle", url |-> Nil, bytes |-> Nil, scope |-> Nil]
IdlePass == [pc |-> "idle", lane |-> "soft", seen |-> {}, del |-> {}]

Primary(u) == Variants[u][1]

(* A faulty VariantSet: the registry keys are built from the aliases only. *)
VariantsAfterFirst(u) == {Variants[u][i] : i \in 2..Len(Variants[u])}

VariantSet(u) == {Variants[u][i] : i \in 1..Len(Variants[u])}
AliasSet(u) == VariantSet(u) \ {Primary(u)}

(* The registry key of each cache key handed to (un)registerCacheKeys. *)
RegistryKeys(ks) == {RegKey[k] : k \in ks}

Rows == {k \in Keys : chunks[k] # Nil}

(* indexCacheKeys: the primary and its aliases all point at the primary. *)
Indexed(primary, others) ==
    [k \in Keys |-> IF k \in {primary} \cup others THEN primary ELSE index[k]]

(* dropIndexedPrimaryKeys: every entry that points at a dropped primary. *)
Dropped(primaries) ==
    [k \in Keys |-> IF index[k] \in primaries THEN Nil ELSE index[k]]

WithoutRows(ks) == [k \in Keys |-> IF k \in ks THEN Nil ELSE chunks[k]]

(* cleanupAliasesForTargets on those targets whose cursor ran. *)
WithoutTargets(ts) == [k \in Keys |-> IF aliases[k] \in ts THEN Nil ELSE aliases[k]]

-----------------------------------------------------------------------------
(* cacheChunk *)

(* The dedup table already holds this payload for the URL's identity: the row
   is taken to be on disk, its keys are registered and nothing is written. *)
StoreSkipsKnown(w, u, b) ==
    /\ writer[w].pc = "idle"
    /\ <<Primary(u), b>> \in dedup
    /\ registry' = registry \cup RegistryKeys(VariantSet(u))
    /\ UNCHANGED <<chunks, aliases, index, dedup, writer, pass, evicting, clear>>

StoreBegins(w, u, b, sc) ==
    /\ writer[w].pc = "idle"
    /\ <<Primary(u), b>> \notin dedup
    /\ writer' = [writer EXCEPT ![w] = [pc |-> "get", url |-> u, bytes |-> b, scope |-> sc]]
    /\ UNCHANGED <<chunks, aliases, index, registry, dedup, pass, evicting, clear>>

(* The row read back is recent and of the same length: a duplicate. *)
InWindow(w) ==
    LET row == chunks[Primary(writer[w].url)]
    IN  /\ row # Nil
        /\ Size[row.bytes] > 0
        /\ Size[row.bytes] = Size[writer[w].bytes]
        /\ row.age = "new"

StoreSkipsWindow(w) ==
    /\ writer[w].pc = "get"
    /\ InWindow(w)
    /\ LET u == writer[w].url IN
        /\ index' = Indexed(Primary(u), AliasSet(u))
        /\ registry' = registry \cup RegistryKeys(VariantSet(u))
    /\ writer' = [writer EXCEPT ![w] = IdleWriter]
    /\ UNCHANGED <<chunks, aliases, dedup, pass, evicting, clear>>

(* Nothing comparable was read, or the read failed (a failed read is "no row"). *)
StoreStartsPut(w) ==
    /\ writer[w].pc = "get"
    /\ ~InWindow(w) \/ "error" \in Faults
    /\ writer' = [writer EXCEPT ![w].pc = "put"]
    /\ UNCHANGED <<chunks, aliases, index, registry, dedup, pass, evicting, clear>>

Put(w) ==
    chunks' = [chunks EXCEPT ![Primary(writer[w].url)] =
                  [bytes |-> writer[w].bytes, age |-> "new", scope |-> writer[w].scope]]

StorePuts(w) ==
    /\ writer[w].pc = "put"
    /\ Put(w)
    /\ writer' = [writer EXCEPT ![w].pc = "alias"]
    /\ UNCHANGED <<aliases, index, registry, dedup, pass, evicting, clear>>

(* The put rejects. After the 4 s timeout of withIdbTimeout ("late") the
   transaction may have committed all the same. *)
StorePutFails(w) ==
    /\ writer[w].pc = "put"
    /\ \/ "error" \in Faults /\ UNCHANGED chunks
       \/ "late" \in Faults /\ Put(w)
    /\ writer' = [writer EXCEPT ![w] = IdleWriter]
    /\ UNCHANGED <<aliases, index, registry, dedup, pass, evicting, clear>>

(* Every alias put has settled, some perhaps rejected: allSettled ignores it. *)
StoreFinishes(w) ==
    /\ writer[w].pc = "alias"
    /\ LET u == writer[w].url
           Written == IF "error" \in Faults THEN SUBSET AliasSet(u) ELSE {AliasSet(u)}
       IN /\ \E done \in Written :
               aliases' = [k \in Keys |-> IF k \in done THEN Primary(u) ELSE aliases[k]]
          /\ index' = Indexed(Primary(u), AliasSet(u))
          /\ registry' = registry \cup RegistryKeys(VariantSet(u))
          /\ dedup' = dedup \cup {<<Primary(u), writer[w].bytes>>}
    /\ writer' = [writer EXCEPT ![w] = IdleWriter]
    /\ UNCHANGED <<chunks, pass, evicting, clear>>

-----------------------------------------------------------------------------
(* runEvictionPass *)

(* The guard at the top; lane throttles and scrub suppression only decide
   when a pass is tried, which is left open here. *)
PassBegins(p, lane) ==
    /\ pass[p].pc = "idle"
    /\ ~evicting
    /\ evicting' = TRUE
    /\ pass' = [pass EXCEPT ![p] = [IdlePass EXCEPT !.pc = "summarize", !.lane = lane]]
    /\ UNCHANGED <<rows, writer, clear>>

(* A faulty PassEnds: the flag is not reset on the way out. *)
PassEndsEvicting(p) ==
    /\ UNCHANGED evicting
    /\ pass' = [pass EXCEPT ![p] = IdlePass]

(* The finally block. *)
PassEnds(p) ==
    /\ evicting' = FALSE
    /\ pass' = [pass EXCEPT ![p] = IdlePass]

(* How many keys the candidate loop takes: until the overflow is gone, the
   batch is full or only protected candidates remain. *)
Quota(lane, seen, free) ==
    Min({Cardinality(seen) - Min({Cardinality(seen), Target[lane]}),
              MaxDeletes, Cardinality(free)})

(* Under pressure enough for the lane to go on; "hard" is the forced lane. *)
NeedsEviction(lane, seen) ==
    lane = "hard" \/ (Cardinality(seen) >= SoftEntries /\ Cardinality(seen) > Target[lane])

(* The synchronous part after the summary: pick unprotected keys (any guard
   ring and any candidate order), forget them, start the delete. *)
PassSelects(p, seen) ==
    \/ /\ ~NeedsEviction(pass[p].lane, seen)
       /\ PassEnds(p)
       /\ UNCHANGED <<index, registry>>
    \/ /\ NeedsEviction(pass[p].lane, seen)
       /\ \E shielded \in SUBSET seen : \E del \in SUBSET (seen \ shielded) :
           /\ Cardinality(del) = Quota(pass[p].lane, seen, seen \ shielded)
           /\ IF del = {}
              THEN PassEnds(p) /\ UNCHANGED <<index, registry>>
              ELSE /\ index' = Dropped(del)
                   /\ registry' = registry \ RegistryKeys(del)
                   /\ pass' = [pass EXCEPT ![p].pc = "delete", ![p].del = del,
                                           ![p].seen = {}]
                   /\ UNCHANGED evicting

PassSummarizes(p) ==
    /\ pass[p].pc = "summarize"
    /\ IF pass[p].lane = "reconcile"
       THEN /\ pass' = [pass EXCEPT ![p].pc = "sweep", ![p].seen = Rows]
            /\ UNCHANGED <<index, registry, evicting>>
       ELSE PassSelects(p, Rows)
    /\ UNCHANGED <<chunks, aliases, dedup, writer, clear>>

(* ageSweepCacheEntries commits: the rows are gone, and the continuation drops
   their keys before anything else runs. *)
PassSweeps(p) ==
    /\ pass[p].pc = "sweep"
    /\ \E gone \in SUBSET {k \in Rows : chunks[k].age = "expired"} :
        /\ Cardinality(gone) =
             Min({MaxSweep, Cardinality({k \in Rows : chunks[k].age = "expired"})})
        /\ gone # {}
        /\ chunks' = WithoutRows(gone)
        /\ index' = Dropped(gone)
        /\ registry' = registry \ RegistryKeys(gone)
        /\ pass' = [pass EXCEPT ![p].pc = "sweptAliases", ![p].del = gone]
    /\ UNCHANGED <<aliases, dedup, writer, evicting, clear>>

(* Nothing had expired (or the sweep failed, which counts as nothing). *)
PassSweepsNothing(p) ==
    /\ pass[p].pc = "sweep"
    /\ "error" \in Faults \/ \A k \in Rows : chunks[k].age # "expired"
    /\ PassSelects(p, pass[p].seen)
    /\ UNCHANGED <<chunks, aliases, dedup, writer, clear>>

(* The targets whose aliases a cleanup reached: all, or some before an error. *)
Reached(p) == IF "error" \in Faults THEN SUBSET pass[p].del ELSE {pass[p].del}

(* The summary taken before the sweep still drives the selection. *)
PassCleansSwept(p) ==
    /\ pass[p].pc = "sweptAliases"
    /\ \E ts \in Reached(p) : aliases' = WithoutTargets(ts)
    /\ PassSelects(p, pass[p].seen)
    /\ UNCHANGED <<chunks, dedup, writer, clear>>

PassDeletes(p) ==
    /\ pass[p].pc = "delete"
    /\ chunks' = WithoutRows(pass[p].del)
    /\ pass' = [pass EXCEPT ![p].pc = "cleanup"]
    /\ UNCHANGED <<aliases, index, registry, dedup, writer, evicting, clear>>

PassCleansAliases(p) ==
    /\ pass[p].pc = "cleanup"
    /\ \E ts \in Reached(p) : aliases' = WithoutTargets(ts)
    /\ PassEnds(p)
    /\ UNCHANGED <<chunks, index, registry, dedup, writer, clear>>

(* openDb, the summary or the delete rejects: the finally blocks run. *)
PassFails(p) ==
    /\ "error" \in Faults
    /\ pass[p].pc \in {"summarize", "delete"}
    /\ PassEnds(p)
    /\ UNCHANGED <<rows, writer, clear>>

(* A transaction aborts without an error event. summarizeChunkStore,
   evictOldestEntries, cleanupAliasesForTargets and the sweep listen only to
   complete and error and have no timeout, so their promise never settles. *)
PassHangs(p) ==
    /\ "abort" \in Faults
    /\ pass[p].pc \notin {"idle", "hung"}
    /\ pass' = [pass EXCEPT ![p].pc = "hung"]
    /\ UNCHANGED <<rows, writer, evicting, clear>>

-----------------------------------------------------------------------------
(* listCachedChunkKeys: the first MaxListed keys in key order, any as many here;
   a listing that fails counts as one of no keys. *)
Listings ==
    {S \in SUBSET Rows : Cardinality(S) = Min({MaxListed, Cardinality(Rows)})}
    \cup (IF "error" \in Faults THEN {{}} ELSE {})

(* rebuildCacheRegistryFromDb: the key listing ends and the registry is
   rebuilt from it in the same turn. *)
RebuildRegistry(listed) ==
    /\ registry' = UNION {RegistryKeys(VariantSet(k)) : k \in listed}
    /\ UNCHANGED <<chunks, aliases, index, dedup, writer, pass, evicting, clear>>

(* Time: rows leave the 20 s duplicate window; dedup entries outlive their five
   minutes; much later, an hour after the store and with every operation of
   that time over, rows outlive the TTL of the sweep. *)
AnHourPasses(k) ==
    /\ \A d \in dedup : d[1] # k
    /\ \A w \in Writers : writer[w].pc = "idle"
    /\ \A p \in Passes : pass[p].pc \in {"idle", "hung"}

RowAges(k) ==
    /\ chunks[k] # Nil /\ chunks[k].age # "expired"
    /\ chunks[k].age = "kept" => AnHourPasses(k)
    /\ chunks' = [chunks EXCEPT ![k].age = IF @ = "new" THEN "kept" ELSE "expired"]
    /\ UNCHANGED <<aliases, index, registry, dedup, writer, pass, evicting, clear>>

DedupExpires(d) ==
    /\ dedup' = dedup \ {d}
    /\ UNCHANGED <<chunks, aliases, index, registry, writer, pass, evicting, clear>>

-----------------------------------------------------------------------------
(* The ClearCache message: clearCacheStores, then resetStats, which empties
   the dedup table through resetEvictionJournal. *)

ClearBegins ==
    /\ clear = "idle"
    /\ evicting' = FALSE
    /\ index' = [k \in Keys |-> Nil]
    /\ clear' = "chunks"
    /\ UNCHANGED <<chunks, aliases, registry, dedup, writer, pass>>

ClearsChunks ==
    /\ clear = "chunks"
    /\ chunks' = [k \in Keys |-> Nil]
    /\ clear' = "aliases"
    /\ UNCHANGED <<aliases, index, registry, dedup, writer, pass, evicting>>

ClearsAliases ==
    /\ clear = "aliases"
    /\ aliases' = [k \in Keys |-> Nil]
    /\ registry' = {}
    /\ clear' = "stats"
    /\ UNCHANGED <<chunks, index, dedup, writer, pass, evicting>>

ClearResetsStats ==
    /\ clear = "stats"
    /\ dedup' = {}
    /\ clear' = "idle"
    /\ UNCHANGED <<chunks, aliases, index, registry, writer, pass, evicting>>

(* dbClear rejects: the handler answers ok: false and does nothing more. *)
ClearFails ==
    /\ "error" \in Faults
    /\ clear \in {"chunks", "aliases"}
    /\ clear' = "idle"
    /\ UNCHANGED <<rows, writer, pass, evicting>>

-----------------------------------------------------------------------------
(* A worker starts; the rows on disk are what an earlier one has left. *)
StartsOn(left) ==
    /\ chunks = left
    /\ aliases = [k \in Keys |-> Nil]
    /\ index = [k \in Keys |-> Nil]
    /\ registry = {}
    /\ dedup = {}
    /\ writer = [w \in Writers |-> IdleWriter]
    /\ pass = [p \in Passes |-> IdlePass]
    /\ evicting = FALSE
    /\ clear = "idle"

Init == StartsOn([k \in Keys |-> Nil])

WriterStep(w) ==
    \/ StoreSkipsWindow(w) \/ StoreStartsPut(w) \/ StorePuts(w)
    \/ StorePutFails(w) \/ StoreFinishes(w)

(* A pass's steps other than the silent abort. *)
PassStep(p) ==
    \/ PassSummarizes(p) \/ PassSweeps(p) \/ PassSweepsNothing(p)
    \/ PassCleansSwept(p) \/ PassDeletes(p) \/ PassCleansAliases(p) \/ PassFails(p)

ClearStep == ClearsChunks \/ ClearsAliases \/ ClearResetsStats \/ ClearFails

CacheNext ==
    \/ \E w \in Writers : \/ \E u \in Urls : \E b \in BytesOf[u] :
                                \/ StoreSkipsKnown(w, u, b)
                                \/ \E sc \in RowScopes : StoreBegins(w, u, b, sc)
                          \/ WriterStep(w)
    \/ \E p \in Passes : \/ \E lane \in Lanes : PassBegins(p, lane)
                         \/ PassStep(p)
                         \/ PassHangs(p)
    \/ \E k \in Keys : RowAges(k)
    \/ \E d \in dedup : DedupExpires(d)

Next == CacheNext \/ \E listed \in Listings : RebuildRegistry(listed)

ClearNext == Next \/ ClearBegins \/ ClearStep

Spec == Init /\ [][Next]_vars

(* ClearCache may arrive at any moment. *)
ClearSpec == Init /\ [][ClearNext]_vars

(* IndexedDB answers: a started operation commits, fails or (where "abort" is
   allowed) goes silent; nothing forces new stores, passes or clears. *)
Fairness ==
    /\ \A w \in Writers : WF_vars(WriterStep(w))
    /\ \A p \in Passes : WF_vars(PassStep(p))

LiveSpec == Spec /\ Fairness
LiveClearSpec == ClearSpec /\ Fairness /\ WF_vars(ClearStep)

-----------------------------------------------------------------------------
TypeOK ==
    /\ chunks \in [Keys -> Row \cup {Nil}]
    /\ aliases \in [Keys -> Keys \cup {Nil}]
    /\ index \in [Keys -> Keys \cup {Nil}]
    /\ registry \subseteq Keys
    /\ dedup \subseteq Keys \X Bytes
    /\ writer \in [Writers -> WriterRec]
    /\ \A w \in Writers : writer[w].pc # "idle" =>
          writer[w].url \in Urls /\ writer[w].bytes \in Bytes
    /\ pass \in [Passes -> PassRec]
    /\ evicting \in BOOLEAN
    /\ clear \in {"idle", "chunks", "aliases", "stats"}

(* evictionInProgress is set exactly while one pass is under way, so an early
   return, an error or a sweep never leaves eviction switched off. *)
EvictingIffOnePass ==
    /\ evicting <=> \E p \in Passes : pass[p].pc # "idle"
    /\ \A p, q \in Passes : pass[p].pc # "idle" /\ pass[q].pc # "idle" => p = q

(* Eviction never switches itself off for good. *)
EvictionResumes == evicting ~> ~evicting

(* db.js, above the dedup skip: "markStoreDedupKey only runs after a successful
   dbPut, so a hit here proves this URL is on disk." *)
DedupHitIsOnDisk == \A d \in dedup : chunks[d[1]] # Nil
=============================================================================
