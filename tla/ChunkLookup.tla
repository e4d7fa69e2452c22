----------------------------- MODULE ChunkLookup -----------------------------
(***************************************************************************)
(* Readers of the chunk cache, composed with the writers, eviction passes  *)
(* and clears of ChunkStore: resolveCachedChunk, which probes the memory   *)
(* index and then the two stores key by key; the alias bridge that lets a  *)
(* rotated URL find the bytes of the old one; and the alias purge of an    *)
(* episode switch (background/cache/db.js). A reader awaits IndexedDB      *)
(* between any two of its probes, so every other operation may run there.  *)
(***************************************************************************)
EXTENDS ChunkStore

CONSTANTS
    Readers,      \* concurrent calls
    BridgePairs   \* <<old URL, new URL>> pairs a playlist rotation may bridge

(* A playlist rotation bridges two URLs of the same segment: playlist-state.js
   aligns the old and the new playlist by their sequence offset first. *)
ASSUME LookupAssumption ==
    /\ BridgePairs \subseteq Urls \X Urls
    /\ \A pair \in BridgePairs : BytesOf[pair[1]] = BytesOf[pair[2]]

VARIABLE
    reader    \* one record per call

lookupVars == <<vars, reader>>

(* pc   where the call waits; for: the URL to bridge to (bridge calls)
   i    position of the probe (or of the bridged alias) among the variants
   at   the key whose row is being read
   row  the row found
   kept whether the row under the URL's primary key has been on disk, and of a
        matching page, ever since the call began *)
IdleReader == [pc |-> "idle", url |-> Nil, scope |-> Nil, for |-> Nil, i |-> 1,
               at |-> Nil, row |-> Nil, kept |-> FALSE]

(* isScopeCompatible, a scope being the page part of its string. *)
Compatible(row, scope) == scope = Nil \/ row.scope = Nil \/ row.scope = scope

UsableIn(rws, k, scope) == rws[k] # Nil /\ Compatible(rws[k], scope)
Usable(k, scope) == UsableIn(chunks, k, scope)

Probe(r) == Variants[reader[r].url][reader[r].i]
Probes(u) == 1..Len(Variants[u])

Set(r, rec) == reader' = [reader EXCEPT ![r] = rec]

(* The next probe from position i with an entry in the memory index ... *)
Indexes(u, idx, i) == {j \in Probes(u) : j >= i /\ idx[Variants[u][j]] # Nil}

(* A faulty FromIndex: once an index entry was found stale, the stores are not
   asked any more. *)
FromIndexOnly(rec, idx, i) ==
    LET hits == Indexes(rec.url, idx, i)
    IN  IF hits = {} THEN [rec EXCEPT !.pc = IF i = 1 THEN "direct" ELSE "missed", !.i = 1]
        ELSE LET j == Min(hits)
             IN  [rec EXCEPT !.pc = "fast", !.i = j, !.at = idx[Variants[rec.url][j]]]

(* ... or, when there is none, the first store probe. *)
FromIndex(rec, idx, i) ==
    LET hits == Indexes(rec.url, idx, i)
    IN  IF hits = {} THEN [rec EXCEPT !.pc = "direct", !.i = 1]
        ELSE LET j == Min(hits)
             IN  [rec EXCEPT !.pc = "fast", !.i = j, !.at = idx[Variants[rec.url][j]]]

(* The next store probe; after the last one the lookup is a miss. *)
NextProbe(rec) ==
    IF rec.i < Len(Variants[rec.url])
    THEN [rec EXCEPT !.pc = "direct", !.i = @ + 1]
    ELSE [rec EXCEPT !.pc = "missed"]

Found(rec, key) == [rec EXCEPT !.pc = "found", !.at = key]

-----------------------------------------------------------------------------
(* resolveCachedChunk *)

Call(u, scope, newUrl) ==
    [pc |-> "idle", url |-> u, scope |-> scope, for |-> newUrl, i |-> 1,
     at |-> Nil, row |-> Nil, kept |-> Usable(Primary(u), scope)]

LookupBegins(r, u, scope, newUrl) ==
    /\ reader[r].pc = "idle"
    /\ Set(r, FromIndex(Call(u, scope, newUrl), index, 1))
    /\ UNCHANGED vars

(* The indexed primary's row is read: it is served, or skipped when it is of
   another page, or its index entries are dropped when it is gone. *)
LookupFast(r) ==
    LET rec == reader[r] IN
    /\ rec.pc = "fast"
    /\ IF Usable(rec.at, rec.scope)
       THEN Set(r, [Found(rec, Probe(r)) EXCEPT !.row = chunks[rec.at]]) /\ UNCHANGED index
       ELSE LET idx == IF chunks[rec.at] # Nil THEN index ELSE Dropped({rec.at})
            IN  index' = idx /\ Set(r, FromIndex(rec, idx, rec.i + 1))
    /\ UNCHANGED <<chunks, aliases, registry, dedup, writer, pass, evicting, clear>>

LookupDirect(r) ==
    LET rec == reader[r] IN
    /\ rec.pc = "direct"
    /\ IF Usable(Probe(r), rec.scope)
       THEN /\ index' = Indexed(Probe(r), {})
            /\ Set(r, [Found(rec, Probe(r)) EXCEPT !.row = chunks[Probe(r)]])
       ELSE Set(r, [rec EXCEPT !.pc = "alias"]) /\ UNCHANGED index
    /\ UNCHANGED <<chunks, aliases, registry, dedup, writer, pass, evicting, clear>>

LookupAlias(r) ==
    LET rec == reader[r] IN
    /\ rec.pc = "alias"
    /\ IF aliases[Probe(r)] = Nil
       THEN Set(r, NextProbe(rec))
       ELSE Set(r, [rec EXCEPT !.pc = "target", !.at = aliases[Probe(r)]])
    /\ UNCHANGED vars

LookupTarget(r) ==
    LET rec == reader[r] IN
    /\ rec.pc = "target"
    /\ IF Usable(rec.at, rec.scope)
       THEN /\ index' = Indexed(rec.at, {Probe(r)})
            /\ Set(r, [Found(rec, Probe(r)) EXCEPT !.row = chunks[rec.at]])
       ELSE Set(r, [rec EXCEPT !.pc = "drop"]) /\ UNCHANGED index
    /\ UNCHANGED <<chunks, aliases, registry, dedup, writer, pass, evicting, clear>>

(* The alias did not lead to usable bytes: it is deleted (a failed delete is
   ignored), and the next key is probed. *)
LookupDropsAlias(r) ==
    /\ reader[r].pc = "drop"
    /\ \/ aliases' = [aliases EXCEPT ![Probe(r)] = Nil]
       \/ "error" \in Faults /\ UNCHANGED aliases
    /\ Set(r, NextProbe(reader[r]))
    /\ UNCHANGED <<chunks, index, registry, dedup, writer, pass, evicting, clear>>

(* A read rejects or times out: the whole lookup answers null. *)
LookupFails(r) ==
    /\ "error" \in Faults
    /\ reader[r].pc \in {"fast", "direct", "alias", "target"}
    /\ Set(r, [reader[r] EXCEPT !.pc = "failed"])
    /\ UNCHANGED vars

LookupReturns(r) ==
    /\ \/ reader[r].pc \in {"missed", "failed"}
       \/ reader[r].pc = "found" /\ reader[r].for = Nil
    /\ Set(r, IdleReader)
    /\ UNCHANGED vars

-----------------------------------------------------------------------------
(* bridgeCacheAliasesForUrlPair, after its own lookup of the old URL. The key
   that lookup reports, the probe that hit, is used as the primary key. *)

(* Past position i, the next variant of the new URL that is not that key. *)
NextAlias(rec, i) ==
    LET left == {j \in Probes(rec.for) : j >= i /\ Variants[rec.for][j] # rec.at}
    IN  IF left = {} THEN IdleReader
        ELSE [rec EXCEPT !.pc = "bridgeGet", !.i = Min(left)]

BridgeAlias(r) == Variants[reader[r].for][reader[r].i]

BridgeBegins(r) ==
    /\ reader[r].pc = "found" /\ reader[r].for # Nil
    /\ Set(r, NextAlias(reader[r], 1))
    /\ UNCHANGED vars

(* The alias is read (a failed read is "no entry"): already bridged, or to be
   written. *)
BridgeReads(r) ==
    LET rec == reader[r] IN
    /\ rec.pc = "bridgeGet"
    /\ \/ /\ aliases[BridgeAlias(r)] = rec.at
          /\ index' = Indexed(rec.at, {BridgeAlias(r)})
          /\ Set(r, NextAlias(rec, rec.i + 1))
       \/ /\ aliases[BridgeAlias(r)] # rec.at \/ "error" \in Faults
          /\ Set(r, [rec EXCEPT !.pc = "bridgePut"])
          /\ UNCHANGED index
    /\ UNCHANGED <<chunks, aliases, registry, dedup, writer, pass, evicting, clear>>

BridgeWrites(r) ==
    LET rec == reader[r] IN
    /\ rec.pc = "bridgePut"
    /\ aliases' = [aliases EXCEPT ![BridgeAlias(r)] = rec.at]
    /\ index' = Indexed(rec.at, {BridgeAlias(r)})
    /\ Set(r, NextAlias(rec, rec.i + 1))
    /\ UNCHANGED <<chunks, registry, dedup, writer, pass, evicting, clear>>

(* The put rejects (and may have committed after the timeout): the call ends. *)
BridgeFails(r) ==
    /\ reader[r].pc = "bridgePut"
    /\ \/ "error" \in Faults /\ UNCHANGED aliases
       \/ "late" \in Faults /\ aliases' = [aliases EXCEPT ![BridgeAlias(r)] = reader[r].at]
    /\ Set(r, IdleReader)
    /\ UNCHANGED <<chunks, index, registry, dedup, writer, pass, evicting, clear>>

-----------------------------------------------------------------------------
(* purgeSegmentAliasMappings, one variant after the other. *)

(* Moving to a variant forgets an index entry that is not the key itself. *)
PurgesIndexAt(u, i) ==
    LET k == Variants[u][i]
    IN  index' = IF index[k] = k THEN index ELSE [index EXCEPT ![k] = Nil]

PurgeNext(r, rec) ==
    IF rec.i < Len(Variants[rec.url])
    THEN /\ PurgesIndexAt(rec.url, rec.i + 1)
         /\ Set(r, [rec EXCEPT !.pc = "purgeGet", !.i = @ + 1])
    ELSE Set(r, IdleReader) /\ UNCHANGED index

PurgeBegins(r, u) ==
    /\ reader[r].pc = "idle"
    /\ PurgesIndexAt(u, 1)
    /\ Set(r, [IdleReader EXCEPT !.pc = "purgeGet", !.url = u])
    /\ UNCHANGED <<chunks, aliases, registry, dedup, writer, pass, evicting, clear>>

PurgeReads(r) ==
    /\ reader[r].pc = "purgeGet"
    /\ \/ /\ aliases[Probe(r)] # Nil
          /\ Set(r, [reader[r] EXCEPT !.pc = "purgeDel"])
          /\ UNCHANGED index
       \/ /\ aliases[Probe(r)] = Nil \/ "error" \in Faults
          /\ PurgeNext(r, reader[r])
    /\ UNCHANGED <<chunks, aliases, registry, dedup, writer, pass, evicting, clear>>

PurgeDeletes(r) ==
    /\ reader[r].pc = "purgeDel"
    /\ \/ aliases' = [aliases EXCEPT ![Probe(r)] = Nil]
       \/ "error" \in Faults /\ UNCHANGED aliases
    /\ PurgeNext(r, reader[r])
    /\ UNCHANGED <<chunks, registry, dedup, writer, pass, evicting, clear>>

-----------------------------------------------------------------------------
LookupInit == Init /\ reader = [r \in Readers |-> IdleReader]

ReaderStep(r) ==
    \/ LookupFast(r) \/ LookupDirect(r) \/ LookupAlias(r) \/ LookupTarget(r)
    \/ LookupDropsAlias(r) \/ LookupFails(r) \/ LookupReturns(r)
    \/ BridgeBegins(r) \/ BridgeReads(r) \/ BridgeWrites(r) \/ BridgeFails(r)
    \/ PurgeReads(r) \/ PurgeDeletes(r)

(* A faulty caller: the two playlists are paired without first being aligned by
   the sequence offset, so segments of different positions are bridged. *)
ReaderBeginsUnaligned(r) ==
    \/ \E u \in Urls, sc \in Scopes \cup {Nil} : LookupBegins(r, u, sc, Nil)
    \/ \E u, v \in Urls : u # v /\ LookupBegins(r, u, Nil, v)
    \/ \E u \in Urls : PurgeBegins(r, u)

(* The callers: a page's lookup, the bridge of an aligned pair of old and new
   segments (bridgePlaylistSegmentUrlAliases), the purge of an episode switch. *)
ReaderBegins(r) ==
    \/ \E u \in Urls, sc \in Scopes \cup {Nil} : LookupBegins(r, u, sc, Nil)
    \/ \E pair \in BridgePairs : LookupBegins(r, pair[1], Nil, pair[2])
    \/ \E u \in Urls : PurgeBegins(r, u)

(* A step of the store, after which each call's "kept" is brought up to date. *)
KeptUpdated ==
    reader' = [r \in Readers |->
         IF reader[r].kept /\ ~UsableIn(chunks', Primary(reader[r].url), reader[r].scope)
         THEN [reader[r] EXCEPT !.kept = FALSE] ELSE reader[r]]

Reading == \E r \in Readers : ReaderBegins(r) \/ ReaderStep(r)

LookupNext == (ClearNext /\ KeptUpdated) \/ Reading

LookupSpec == LookupInit /\ [][LookupNext]_lookupVars

(* No ClearCache: with no passes either, rows only come and age. *)
UnclearedSpec == LookupInit /\ [][(Next /\ KeptUpdated) \/ Reading]_lookupVars

-----------------------------------------------------------------------------
ReaderRec ==
    [pc : {"idle", "fast", "direct", "alias", "target", "drop", "found", "missed",
           "failed", "bridgeGet", "bridgePut", "purgeGet", "purgeDel"},
     url : Urls \cup {Nil}, scope : Scopes \cup {Nil}, for : Urls \cup {Nil},
     i : Nat \ {0}, at : Keys \cup {Nil}, row : Row \cup {Nil}, kept : BOOLEAN]

(* The fields a call needs are there when it gets to the step that uses them. *)
Placed(rec) ==
    /\ rec.pc # "idle" => rec.url \in Urls
    /\ rec.pc \in {"fast", "direct", "alias", "target", "drop", "purgeGet", "purgeDel"}
          => rec.i \in Probes(rec.url)
    /\ rec.pc \in {"fast", "target", "found", "bridgeGet", "bridgePut"} => rec.at \in Keys
    /\ rec.pc \in {"bridgeGet", "bridgePut"} => rec.for \in Urls /\ rec.i \in Probes(rec.for)
    /\ rec.pc = "found" => rec.row \in Row

ReaderTypeOK ==
    /\ TypeOK
    /\ reader \in [Readers -> ReaderRec]
    /\ \A r \in Readers : Placed(reader[r])

(* A lookup whose URL's own row stays on disk throughout is answered with
   bytes or with an IndexedDB error, never with a miss: whatever stale index
   entries, dangling aliases, evictions of other rows, bridges and purges it
   meets between its probes (resolveCachedChunk's fall-back from the memory
   index to the stores). *)
NoFalseMiss == \A r \in Readers : reader[r].pc = "missed" => ~reader[r].kept

(* Its strengthening: "kept" is accurate, and such a lookup never gets past
   the first probe of the stores, the primary key itself. *)
KeptIsUsable == \A r \in Readers : reader[r].kept =>
    reader[r].url \in Urls /\ Usable(Primary(reader[r].url), reader[r].scope)
KeptStopsAtPrimary == \A r \in Readers : reader[r].kept =>
    /\ reader[r].pc \notin {"alias", "target", "drop", "missed"}
    /\ reader[r].pc = "direct" => reader[r].i = 1
KeptInv == KeptIsUsable /\ KeptStopsAtPrimary

(* The bytes a lookup returns are of the segment it was asked for: no order of
   stores, bridges, purges and failed writes makes the index or an alias lead
   to another segment's row (the comment of purgeSegmentAliasMappings: "must
   never resolve to previously-bridged bytes from other content"). It takes
   URLs of two segments to have no variant in common, which cache-keys.js does
   not give; the README describes it. *)
ServesOwnSegment ==
    \A r \in Readers : reader[r].pc = "found" => reader[r].row.bytes \in BytesOf[reader[r].url]
=============================================================================
