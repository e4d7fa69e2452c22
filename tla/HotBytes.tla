------------------------------ MODULE HotBytes ------------------------------
(***************************************************************************)
(* The page's in-memory byte cache, src/page/cache/hot-byte-cache.js: a     *)
(* Map of entries in order of use, a Map of aliases in order of insertion,  *)
(* the running total of bytes, and the callers of awaitHotBytes that sleep  *)
(* until the bytes of their key are put or their timer fires.               *)
(*                                                                          *)
(* A key is what resolveHotKey returns; contents, content types and HTTP    *)
(* statuses are left out, and so is the buffer that turns out detached: an  *)
(* entry's buffer is a private copy that is only ever cloned, so it never   *)
(* is.  Time is counted in ages: Tick lets every entry grow older.          *)
(*                                                                          *)
(* aliasHotBytes and hasHotBytes are exported and have no caller in src/,   *)
(* and no caller passes meta.aliasKey: they are left out.                   *)
(***************************************************************************)
EXTENDS Integers, FiniteSets, SequencesExt, Filtering

CONSTANTS
    Keys,               \* cache keys
    Sizes,              \* byte lengths that puts offer
    Callers,            \* concurrent calls of awaitHotBytes
    NoKey,              \* what a caller that does not sleep waits for
    MaxEntries,         \* MAX_ENTRIES
    MaxBytes,           \* MAX_BYTES
    MaxEntryBytes,      \* MAX_ENTRY_BYTES
    MaxAliases,         \* MAX_ALIASES
    MaxWaitersPerKey,   \* MAX_WAITERS_PER_KEY
    MaxWaiterKeys,      \* MAX_WAITER_KEYS
    RefreshAge,         \* younger than this, a put of the same size refreshes
    Ttl                 \* ENTRY_TTL_MS: older than this, an entry is dead

ASSUME LimitsAssumption ==
    /\ {MaxEntries, MaxAliases, MaxWaitersPerKey, MaxWaiterKeys} \subseteq Nat \ {0}
    /\ Sizes \subseteq Nat
    /\ MaxEntryBytes \in Nat /\ MaxBytes \in Nat /\ MaxEntryBytes <= MaxBytes
    /\ RefreshAge \in Nat /\ Ttl \in Nat /\ RefreshAge <= Ttl
    /\ IsFiniteSet(Callers) /\ NoKey \notin Keys

VARIABLES
    serving,    \* isServingEnabled()
    hot,        \* [entries, aliases, total]: both Maps in their order
    sleepKeys,  \* the keys of waitersByKey in their order
    sleeps      \* [Callers -> Keys \cup {NoKey}]: the key a caller sleeps on

vars == <<serving, hot, sleepKeys, sleeps>>

-----------------------------------------------------------------------------
(* The cache as a value. *)

Empty == [entries |-> <<>>, aliases |-> <<>>, total |-> 0]

Held(c, k) == \E e \in Range(c.entries) : e.key = k

Keyed(c, k) == {e \in Range(c.entries) : e.key = k}
EntryOf(c, k) == CHOOSE e \in Keyed(c, k) : TRUE

\* The entries without the one of k, which need not be there.
Others(c, k) == Only(c.entries, Range(c.entries) \ Keyed(c, k))

\* Math.max(0, a - b)
Minus(a, b) == IF a > b THEN a - b ELSE 0

Sum(entries) ==
    LET upTo[n \in 0..Len(entries)] == IF n = 0 THEN 0 ELSE upTo[n - 1] + entries[n].size
    IN  upTo[Len(entries)]

\* resolvePrimaryKey: the key itself, or the entry it is an alias of.
Primary(c, k) ==
    LET targets == {a.to : a \in {x \in Range(c.aliases) : x.from = k}}
    IN  IF ~Held(c, k) /\ \E t \in targets : Held(c, t)
          THEN CHOOSE t \in targets : Held(c, t) ELSE k

Resolves(c, k) == Held(c, Primary(c, k))

Expired(c, k) == EntryOf(c, k).age > Ttl

\* dropEntry for each of the entries gone. Taken off the total one by one, and never
\* below zero, they come off it as a whole.
Without(c, gone) ==
    LET keys == {e.key : e \in gone}
    IN  [entries |-> Only(c.entries, Range(c.entries) \ gone),
         aliases |-> Only(c.aliases, {a \in Range(c.aliases) : {a.from, a.to} \cap keys = {}}),
         total   |-> Minus(c.total, Sum(Only(c.entries, gone)))]

Touched(c, k) == [c EXCEPT !.entries = Append(Others(c, k), EntryOf(c, k))]

\* Aliases of entries that are gone, then the oldest beyond the limit.
PruneAliases(c) ==
    LET live == Only(c.aliases, {a \in Range(c.aliases) : Held(c, a.to)})
        over == Minus(Len(live), MaxAliases)
    IN  [c EXCEPT !.aliases = SubSeq(live, over + 1, Len(live))]

\* Map.set keeps the place of a key that is there already.
RegisterAlias(c, from, to) ==
    IF from = to THEN c
    ELSE LET known == \E a \in Range(c.aliases) : a.from = from
             moved == [i \in DOMAIN c.aliases |->
                         IF c.aliases[i].from = from THEN [from |-> from, to |-> to]
                                                     ELSE c.aliases[i]]
         IN  PruneAliases([c EXCEPT !.aliases =
                             IF known THEN moved ELSE Append(@, [from |-> from, to |-> to])])

Fits(c) ==
    \/ c.entries = <<>>
    \/ Len(c.entries) <= MaxEntries /\ c.total <= MaxBytes

\* What is left when the n entries longest unused are dropped.
Newest(c, n) == Without(c, Range(SubSeq(c.entries, 1, n)))

\* Entries past their time, then the least recently used ones until both limits hold.
EvictOverflow(c) ==
    LET fresh == Without(c, {e \in Range(c.entries) : e.age > Ttl})
        least == CHOOSE n \in 0..Len(fresh.entries) :
                   Fits(Newest(fresh, n)) /\ \A m \in 0..(n - 1) : ~Fits(Newest(fresh, m))
    IN  PruneAliases(Newest(fresh, least))

(* A faulty Stored: the bytes of the entry replaced stay in the total. *)
StoredOnTop(c, k, size) ==
    [c EXCEPT !.entries = Append(Others(c, k), [key |-> k, size |-> size, age |-> 0]),
              !.total = @ + size]

\* The entry of k replaced, or added, at the end of the Map.
Stored(c, k, size) ==
    LET less == IF Held(c, k) THEN Minus(c.total, EntryOf(c, k).size) ELSE c.total
    IN  [c EXCEPT !.entries = Append(Others(c, k), [key |-> k, size |-> size, age |-> 0]),
                  !.total   = less + size]

\* A put of the same size soon after another only renews the entry.
Refreshes(c, k, size) ==
    /\ Held(c, k)
    /\ EntryOf(c, k).size = size
    /\ EntryOf(c, k).age < RefreshAge

Renewed(c, k) ==
    [c EXCEPT !.entries = Append(Others(c, k), [EntryOf(c, k) EXCEPT !.age = 0])]

\* putHotBytes: pageKey is the key of meta.pageUrl.
WithBytes(c, k, size, pageKey) ==
    IF Refreshes(c, k, size)
      THEN RegisterAlias(Renewed(c, k), pageKey, k)
      ELSE EvictOverflow(RegisterAlias(Stored(c, k, size), pageKey, k))

(* A faulty WokenBy: those who sleep on an alias are forgotten. *)
WokenByKey(c, k) == {k}

\* The key and its aliases: whoever sleeps on one of them is woken.
WokenBy(c, k) == {k} \cup {a.from : a \in {x \in Range(c.aliases) : x.to = k}}

\* getHotBytes: a hit renews the place of the entry; a dead entry is dropped, and
\* so is an alias that leads to none.
Looked(c, k) ==
    LET p == Primary(c, k)
    IN  IF ~Held(c, p) THEN [c EXCEPT !.aliases = Only(@, {a \in Range(@) : a.from # k})]
        ELSE IF Expired(c, p) THEN Without(c, Keyed(c, p))
        ELSE Touched(c, p)

Hits(c, k) == Resolves(c, k) /\ ~Expired(c, Primary(c, k))

-----------------------------------------------------------------------------
Init ==
    /\ serving = TRUE
    /\ hot = Empty
    /\ sleepKeys = <<>>
    /\ sleeps = [w \in Callers |-> NoKey]

\* Everyone asleep on one of keys is answered; wakeWaiters drops the key's set.
Wake(keys) ==
    /\ sleeps' = [w \in Callers |-> IF sleeps[w] \in keys THEN NoKey ELSE sleeps[w]]
    /\ sleepKeys' = Only(sleepKeys, Range(sleepKeys) \ keys)

Put(k, size, pageKey) ==
    /\ serving
    /\ size > 0 /\ size <= MaxEntryBytes
    /\ hot' = WithBytes(hot, k, size, pageKey)
    /\ Wake(WokenBy(hot', k))
    /\ UNCHANGED serving

Get(k) ==
    /\ serving
    /\ hot' = Looked(hot, k)
    /\ UNCHANGED <<serving, sleepKeys, sleeps>>

\* The sleepers of k, k's set made if need be, the oldest sets beyond the limit dropped.
Sleep(w, k) ==
    LET among == IF k \in Range(sleepKeys) THEN sleepKeys ELSE Append(sleepKeys, k)
        kept  == SubSeq(among, Minus(Len(among), MaxWaiterKeys) + 1, Len(among))
    IN  /\ sleepKeys' = kept
        /\ sleeps' = [v \in Callers |->
                        IF v = w THEN k
                        ELSE IF sleeps[v] \in Range(kept) THEN sleeps[v] ELSE NoKey]

Await(w, k) ==
    /\ serving
    /\ sleeps[w] = NoKey
    /\ hot' = Looked(hot, k)
    /\ IF \/ Hits(hot, k)
          \/ Cardinality({v \in Callers : sleeps[v] = k}) >= MaxWaitersPerKey
         THEN UNCHANGED <<sleepKeys, sleeps>>
         ELSE Sleep(w, k)
    /\ UNCHANGED serving

\* The timer of awaitHotBytes: finish(null).
TimeOut(w) ==
    /\ sleeps[w] # NoKey
    /\ sleeps' = [sleeps EXCEPT ![w] = NoKey]
    /\ sleepKeys' = Only(sleepKeys, {sleeps'[v] : v \in Callers})
    /\ UNCHANGED <<serving, hot>>

Clear ==
    /\ hot' = Empty
    /\ Wake(Keys)
    /\ UNCHANGED serving

\* A settings message switches the extension or its serving off and on.
Toggle ==
    /\ serving' = ~serving
    /\ UNCHANGED <<hot, sleepKeys, sleeps>>

\* Time passes; an age beyond Ttl is as good as any.
Older(e) == [e EXCEPT !.age = IF @ > Ttl THEN @ ELSE @ + 1]

Tick ==
    /\ hot' = [hot EXCEPT !.entries = [i \in DOMAIN @ |-> Older(@[i])]]
    /\ UNCHANGED <<serving, sleepKeys, sleeps>>

Next ==
    \/ \E k, pageKey \in Keys, size \in Sizes : Put(k, size, pageKey)
    \/ \E k \in Keys : Get(k)
    \/ \E w \in Callers, k \in Keys : Await(w, k)
    \/ \E w \in Callers : TimeOut(w)
    \/ Clear
    \/ Toggle
    \/ Tick

Spec == Init /\ [][Next]_vars

-----------------------------------------------------------------------------
(* Properties. *)

\* However puts, lookups, refreshes, expiries and clears follow each other,
\* totalBytes is what the entries hold and every bound of the file is kept.
WithinLimits ==
    /\ hot.total = Sum(hot.entries)
    /\ hot.total <= MaxBytes
    /\ Len(hot.entries) <= MaxEntries
    /\ Len(hot.aliases) <= MaxAliases
    /\ Len(sleepKeys) <= MaxWaiterKeys
    /\ \A k \in Keys : Cardinality({w \in Callers : sleeps[w] = k}) <= MaxWaitersPerKey

\* A caller sleeps only while its key finds no entry, directly or by an alias:
\* the put that brings the bytes, under whichever name, wakes it.
SleepersHaveNoBytes ==
    \A w \in Callers : sleeps[w] # NoKey => ~Resolves(hot, sleeps[w])

\* An alias never outlives its entry, so a key is never led to an entry stored
\* later under the name of one that was evicted; and waitersByKey holds a set
\* exactly for the keys somebody sleeps on.
MapsAgree ==
    /\ \A a \in Range(hot.aliases) : a.from # a.to /\ Held(hot, a.to)
    /\ \A a, b \in Range(hot.aliases) : a.from = b.from => a = b
    /\ Range(sleepKeys) = {sleeps[w] : w \in Callers} \ {NoKey}

=============================================================================
