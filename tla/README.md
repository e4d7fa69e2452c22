# AegisStream: TLA+ models and proofs

AegisStream is a Manifest V3 browser extension that caches and prefetches the
segments of HTTP video streams. These modules model the parts of it whose
correctness depends on the order of asynchronous steps, check them with TLC on
small instances, and prove the central properties with TLAPS for every value of
the constants.

All paths below are relative to the repository; `bg/` stands for
`src/src/background/`, `pg/` for `src/src/page/`.

## 1. The system

| Component | State it keeps | Operations | Hard behaviour |
|---|---|---|---|
| Chunk cache (`bg/cache/db.js`, `cache-registry.js`, `eviction-journal.js`, `bg/media/cache-keys.js`) | IndexedDB stores *chunks* and *aliases*; `memoryKeyIndex`; `cacheRegistryKeys`; `storeDedupByInvariantCrc`; `evictionInProgress` | `cacheChunk`, `resolveCachedChunk`, `runEvictionPass`, `ageSweepCacheEntries`, `bridgeCacheAliasesForUrlPair`, `purgeSegmentAliasMappings`, `rebuildCacheRegistryFromDb`, `clearCacheStores` | five structures answer "is it cached?", and every operation awaits between updating two of them; IndexedDB fails, times out after committing, or goes silent |
| Storage valve (`db.js`) | `storageSystemOperational`, `settings.serveFromCache` | engage, recover after 60 s, emergency eviction | recovery against user settings and ClearCache |
| Eviction lanes, guard ring (`bg/cache/eviction-manager.js`, `guard-ring.js`, `timeline-heat.js`) | lane timers, protected URL sets | schedule hard / soft / reconcile passes | stale summaries, protected sets |
| Store queue (`bg/cache/store-queue.js`) | wait queue, active count, per-key tails | `enqueueStoreWrite` | bounded queue, priorities, per-key order |
| Message router (`bg/messaging/message-router.js`), in-flight consumers | pending lookups, wire cache, in-flight writes, consumer counts, lookup ledger | lookup, store, extension fetch, settings, ClearCache | watchdog against late answer, lost wake-up, one answer per request |
| Extension fetch (`pg/bridge/extension-fetch-client.js`, `src/src/content/relay.js`, `bg/network/extension-fetch.js`) | entries and timers of the page; abort controllers of the worker | buffered and streamed fetch, abort, raced legs, retry with fresh credentials, body pump | the reply and the body race on two channels; sends are rejected; the worker stops; timers against late messages |
| Manifest fetching (`bg/media/manifest-fetch-coalescer.js`, `prefetch/playlist/*`) | one promise per tab and playlist; refresh state, generation and timers of a tab's state object | fetch, cancel, refresh, retry, probe, recover | cancel and replace, late answers of an older generation, timers of an object that was replaced |
| Scheduler and lanes (`bg/prefetch/scheduler/*`, `lanes/*`, `arbitration/*`, `page-delegate.js`) | a tab's state object; marks of what is in flight, failures, generations and the batch to coalesce, per tab | schedule, delegate, track outcomes, retry, sleep, forget | every schedule replaces the object; outcomes and timers of replaced objects; a page that is ahead |
| Anchor (`bg/prefetch/anchor/*`, `seek/*`, `scrub/*`) | anchor index, source, signals, windows of time | observe, seek, predict, scrub, reconcile, renew | authority of competing signals; what one episode leaves to the next |
| Registry sync (`bg/cache/cache-registry.js`, `pg/cache/cache-registry.js`) | the keys of the stored rows; a copy with trust and intents in each page | register, flush, sync a tab, rebuild, trim | a fresh copy answers for the background; syncs overlap |
| Page bridge (`pg/bridge/*`, `src/src/content/relay.js`) | pending requests, in-flight stores, deferred stores, the relay's generation | request, respond, retry, defer, flush, tear down | lost, late, duplicate answers; a relay that was replaced or orphaned |
| Interceptors (`pg/interceptors/fetch.js`, `xhr.js`, `pg/media/hls-media.js`) | one request of the player, its captures | look up, collapse, fall back, capture | reply, timer, abort and ladder compete for one answer |
| Page caches (`pg/network/network-fetch-coalescer.js`, `pg/prefetch/video.js`, `pg/cache/hot-byte-cache.js`) | coalesced fetches with consumer counts; the prefetch queue; hot bytes with aliases and waiters | attach, deliver, release, purge | counts across purge and replace; limits |
| HTML stream boost (`bg/network/html-head-scanner.js`, `stream-injector.js`) | the part of a document held back | scan, inject, release, finalize | chunks that end anywhere |
| Parser, telemetry, layout assets, popup | parse, count, display | | sequential or string work |

The page's interceptors ask the relay, the relay asks the router; the router
asks the chunk cache, stores what the page observed through the store queue,
and fetches for the page. The playlist state, replaced at every refresh,
bridges the segment URLs of a rotated playlist in the alias store or, at an
episode switch, purges them. The scheduler consults the registry so as not to
fetch twice, and delegates what is missing to the page's prefetch queue; where it
counts from is the anchor, which follows the player. Eviction passes run from timers
and after stores, and what is stored is made known to the pages.

What makes each part correct:

* chunk cache: the registry never forgets a stored row and does not claim a
  deleted one; eviction is exclusive and never switches itself off; a lookup
  finds a row that is there and never serves another segment's bytes;
* store queue: bounded, one write per key at a time, every caller answered;
* router: one answer per request, a waiter wakes up when its write or fetch ends;
* extension fetch: every call settles once, its bytes in order and whole, and an abort ends the fetch;
* page bridge: every call settles, ok only for what was stored; nothing is left behind by a late answer;
* interceptors: an answer is the bytes asked for, told once;
* coalescers: one fetch per key while someone waits, released by its last reader;
* registry sync: what a page wrongly denies, it is about to be told;
* scheduler: a segment marked in flight is really being worked on, a page is never ahead of its scheduler;
* anchor: no single far segment moves it, and no signal of another episode;
* stream boost: a document passes unchanged but for the hints, which are those of its head;
* playlist state: an older generation's answer changes nothing; a refresh ends and leaves no
  timer; a tab that may not prefetch has something pending that will let it.

## 2. Modules

| Module | Contents |
|---|---|
| `ChunkStore` | writers, eviction passes, rebuild, ageing, ClearCache over the five structures |
| `CalmStore` | EXTENDS it with behaviours in which puts and deletes of rows succeed, from whatever rows an earlier worker left |
| `ChunkLookup` | EXTENDS `ChunkStore` with readers: lookup, alias bridge, alias purge |
| `StoreQueue` | the queue of IndexedDB writes: slots, depth, priorities, the chain of each key |
| `LookupRouter` | lookup and store messages: waits for prefetches and stores, the ledger with its watchdog, in-flight consumers |
| `ExtensionFetch` | fetches the page asks the worker for: calls and streams of the page, both channels, the fetch legs and the body pump of the worker |
| `HotBytes` | the page's cache of bytes: entries, aliases, limits, the callers that wait for bytes |
| `Filtering` | what is left of a Map or a queue when some members go, for the two modules around it |
| `PagePrefetch` | the page's prefetch queue and its workers, on the network coalescer that joins fetches and players |
| `ManifestRefresh` | the refresh of a tab's playlist: state objects and their replacement, attempts, captures, timeouts, retries, probes |
| `StoreCalls` | abstract: what a page is promised about storing a chunk |
| `PageBridge` | the detailed one: retry ladders, request table, in-flight and deferred stores, flushes, the relay |
| `PlayerRequests` | a fetch and an XHR of the player: lookup, collapse, belts, native request, captures |
| `RegistrySync` | the keys of the stored rows, what each page is told of them and trusts |
| `TabPrefetch` | the prefetch scheduler of one tab and the page it delegates to |
| `Anchor` | the voices that move the anchor of a tab |
| `HeadStream` | the HTML stream boost |
| `MCChunkStore`, `MCChunkLookup`, `MCStoreQueue`, `MCLookupRouter`, `MCExtensionFetch`, `MCHotBytes`, `MCPagePrefetch`, `MCManifestRefresh`, `MCPageRequests`, `MCPlayerRequests`, `MCHeadStream` | the TLC instances |
| `ChunkCacheProofs` (of `ChunkStore`, `CalmStore`, `ChunkLookup`), `StoreQueueProofs`, `LookupRouterProofs`, `FetchAndHeadProofs` (of `ExtensionFetch`, `HeadStream`), `PagePrefetchProofs`, `RefreshAndAnchorProofs` (of `ManifestRefresh`, `Anchor`), `PageRequestProofs` (of `PageBridge`, `PlayerRequests`), `HotBytesAndTabProofs` (of `HotBytes`, `TabPrefetch`) | theorems and proofs |

A run may check several modules that share no state: its MC module has a variable
`kind`, chosen at Init, that says which of them moves. `MCStoreQueue` hosts `RegistrySync`,
`MCExtensionFetch` hosts `HeadStream`, `MCHotBytes` hosts `TabPrefetch`, `MCManifestRefresh`
hosts `Anchor` and `MCPageRequests` hosts `PlayerRequests`. Each EXTENDS the module it hosts.

The first four meet in `handleStoreChunk` and `handleCacheLookup`; the extension fetch
shares nothing with them but the life of the worker. Each
module leaves open what another one decides: a writer of `ChunkStore` is a call
that may start at any moment (when `StoreQueue` starts it); a write of `StoreQueue`
ends well or badly at any moment (as a writer of `ChunkStore` does); a read of
`LookupRouter` finds anything or nothing (what it finds is `ChunkLookup`'s subject).
The page-side consumers of `LookupRouter` are the players of `PagePrefetch`, whose
fetches put the bytes that `HotBytes` keeps and fall back on `ExtensionFetch`. A refresh of
`ManifestRefresh` begins when fetches are refused, and a segment that arrives ends its recovery.
`PlayerRequests` leaves open when a wire of `PagePrefetch` brings its bytes and what a lookup
finds, and its captures are calls of `PageBridge`, whose stores are those of `LookupRouter`.
`TabPrefetch` sends the batches that `PagePrefetch` queues and counts from the anchor of `Anchor`.

The service worker runs one JavaScript thread. **An action is the completion of
one await together with all the code up to the next await**, so every
interleaving the event loop allows is a behaviour of the model, and none other.

`ChunkStore`. A `writer` is a call of `cacheChunk`: it is skipped by the dedup
table (`StoreSkipsKnown`) or reads the row under its primary key ("get"), is
skipped by the duplicate window or puts the row ("put"), then its aliases
("alias"), after which index, registry and dedup table are updated at once
(`StoreFinishes`). A `pass` is a call of `runEvictionPass`: summary, sweep of the
expired rows with their aliases (lane "reconcile"), candidate choice with the
forgetting of keys, delete, alias cleanup. The two `finally` blocks are `PassEnds`.
`clear` is the one ClearCache request.

Abstractions, each wider than the code:

* a URL is given by its key variants (`Variants`, `buildCacheKeyVariants`; the head is
  the primary key) and its registry key (`RegKey`, `resolveRegistryKey`);
* payloads have a size and a segment they belong to; the content type is one;
* ages are "new" (inside the 20 s duplicate window), "kept", "expired" (past the
  1 h TTL); a row expires only when its five-minute dedup entry has gone and
  nothing started an hour ago is still open (`AnHourPasses`);
* overflow counts entries, not bytes, and any subset of the rows may be
  protected by the guard ring; lane throttles and scrub suppression leave a
  pass possible at any moment;
* an operation that times out and commits all the same commits when the timeout
  fires; the cap of the memory index (6000) is not reached. That of the key listing (1200) is `MaxListed`, and which rows
  a longer listing leaves out is open; a listing that fails is an empty one (`Listings`), and the rebuild
  clears the registry all the same;
* the storage valve is not modelled: while it is shut, lookups fail (`LookupFails`)
  and passes fail (`PassFails`), as they do with the fault "error".

`Faults` says what IndexedDB may do: "error" (an operation rejects), "late" (it
rejects by timeout and has committed), "abort" (a transaction of a pass aborts
without an error event).

`ChunkLookup`. A `reader` is a call of `resolveCachedChunk`: it walks the memory
index ("fast"), then the stores key by key ("direct", "alias", "target", "drop").
A call with a URL to bridge to goes on as `bridgeCacheAliasesForUrlPair`
("bridgeGet", "bridgePut"); "purgeGet", "purgeDel" are `purgeSegmentAliasMappings`.
`kept` is a history field: whether the row under the URL's primary key has been
on disk, and of a matching page, ever since the call began.

`StoreQueue`. A task is a call of `enqueueStoreWrite`: "chained" behind the tail
of its key, "queued", "running", and then "ok", "failed" or "dropped" by
back-pressure. `Enqueue` is `enqueueUnbounded` with its three ways out: refusal,
eviction of a speculative write, entry. What a settled promise causes (the next
link of a chain, the deferred pump, the removal of a tail) is a microtask, so it
happens before the next message: `Called` waits for `Quiet`. `ticket` and `calls` are
history: the order of the calls for a key, which the code does not keep.

`LookupRouter`. A lookup goes through its first pass ("first": the segment's
history and the wait for a rotation bridge included), the read and the wait for a
prefetch of its own tab ("prefetchGet", "prefetchWait"), the read and the wait for
a store ("writeGet", "writeWait") and a last read ("recheck"). It is woken by bytes
handed over by the page (`WireResolves`), by the end of a store (`FlushFinds`,
`StoreFails`), by the failure of a prefetch (`PrefetchFails`) or by its timer; all the
waiters of a key resume in one turn, each through `Move`, which books one outcome
and sends one answer by the ledger's first-wins rule. The watchdog may do both
before the handler does. Abstractions:

* the two functions that give a URL its canonical key (`resolveRegistryKey`,
  `resolvePrefetchCoalesceKey`) are taken to agree;
* a consumer count is 0 or 1: `attachedTabs` is a set of tabs and only the entry's
  own tab attaches; a tab has at most one page-side consumer and one page-side
  fetch of a key;
* lookups come from content scripts, so they have a tab; a rapid-seek miss is a
  miss; the settings messages are not modelled;
* `Drops` says whether ClearCache, a closed tab or disabling may empty the table
  of prefetches;
* a page that reloads, navigates or loses its relay goes away with all its consumers of a tab at once
  (`PageVanishes`): their releases are never sent. `orphaned` is history: the entry was locked
  for one of these, and has seen no release of its tab since.

`ExtensionFetch`. On the page, an entry of `streamingByRequestId` is "open" while its
caller waits on it, or "callerless" when a late reply made it anew (`OnMeta`). A
buffered call is settled by the END, by a failing reply, by the sweep or by its
timeout; a streamed one has two ends, the meta promise (`caller`) and the stream.
The content relay is the channels: `up` for the request and its abort, `reply` for
the answer to the request, `down` for the messages of the body, each in order and none
ordered with another. In the worker, `job` is the await at which
`handleExtensionFetch` stands: the Referer rule ("rule"), the two legs ("race"), the one
leg or the retry ("single"), the body ("pump"), the END ("ending"). Abstractions:

* a body is its number of chunks; a chunk is its index. The worker sends its bytes as a raw ArrayBuffer
  (`message-router.js:160-174`), which a browser that serialises messages as JSON turns into an empty
  object; the relay finds no bytes in it (`relay.js:171-176`) and the page drops the chunk without a word
  (`extension-fetch-client.js:118-119`). `Intact` are the requests whose bytes get through; of the others every
  chunk goes without (`Loses`). Which requests those are is a constant, and the theorems hold for any;
* a status is good or not; the request for which `new Response` throws on a good
  status (204, 205) is not modelled;
* the loser of a race is aborted and never heard of; what `Promise.race` awaits is the
  first to settle, failure included, and the retry follows whatever failed first;
* an 8 s meta timeout of the interceptor passes before the 15 s timeout armed after
  the same call, so `Deadline` of a stream comes when its meta wait is over;
* `Sweep` may take any entry without bytes, as it does after ten seconds;
* the leak audit of `extension-fetch-metrics.js` only logs and is left out.

`HotBytes`. Both Maps are sequences in their iteration order, as eviction and the
limits depend on it. A caller sleeps between `Await` and one of: a put under its key
or under an entry its key is an alias of (`Wake`), its timer, the clearing of the
cache, the limit on waiter keys. Everything in the file is synchronous but that sleep.
Abstractions:

* time is an age per entry: "young" (a second put of the same size refreshes) below
  `RefreshAge`, dead above `Ttl`; `Tick` lets all of them grow older;
* contents, content types and statuses are left out, and so is an entry whose
  buffer is found detached: buffers are private copies that are only cloned;
* a loop that drops entries one by one is one step to what it leaves (`Without`): the total, which
  `dropEntry` never takes below zero, ends the same; the eviction drops the least number of
  oldest entries after which both limits hold (`EvictOverflow`);
* `aliasHotBytes`, `hasHotBytes` and `meta.aliasKey` are used by no caller in the source.

`PagePrefetch`. A URL is queued, then active: it opens the *wire* of its key (the
entry of `inflightByKey`) and fetches, or awaits the wire another URL opened
(`awaits`). A fetch (`run`) is "fetch" until the network answers and then "answered": the
extension's fallback and the store of the bytes, which no abort stops. A player attaches
to a wire, if there is one, and leaves whenever bytes come or its time is up. Abstractions:

* the reports of outcomes (`PREFETCH_RESULT`) and the intents noted in the page's
  registry are left out, and so is what a player does inside its wait;
* how many workers may run (`Room`) follows the buffer's health and is at least one;
  `PushBufferLoad` may start workers at any moment;
* a queued URL grows late, and a wire is purged, at any moment; a purge runs at
  every entry of the coalescer in the code;
* `Keeps` are the sets of URLs a cancellation spares, `Batches` the delegated batches.

`ManifestRefresh`. A tab's state is an object, and `upsertPlaylistState` puts a new one in its
place, copying some fields: not the probe's timer and count, nor the generation that was last
charged, nor the block after an expiry. `tab` is the object in `playlistByTab`; replaced ones
live on in the closures of their timers and in attempts that await the delegation. `handle`
says which timer an object's field refers to, by the object that set it, so a copied handle and
the original are one timer. `Adopt` is a playlist that is taken (captured from the page, by the
player, or fetched by the background), `Schedule` the replacement at the beginning of
`schedulePrefetch`, which comes at any moment. `made` numbers the objects; `requests`, `probes` and
`causes` are history. Abstractions:

* a tab without a media playlist URL counts as a tab without an object: nothing refreshes it;
* the block and the cooldown are `wait`, which ends step by step; the debounce of a healthy
  tab's requests is left out, so requests may come faster than in the code;
* a probe waits at least twice the cooldown, so it finds the cooldown over unless an attempt
  came in between;
* background fetches may end at any moment, since discovered playlist URLs start them as well
  as the fallback of an attempt;
* an answer of the page that turns out to be of another episode is `PageIsSilent`, then
  `EpisodeSwitches`, which any playlist may cause;
* of an object that was replaced, the fields nothing reads are reset (`Retired`).

`PageBridge` and `StoreCalls`. A call of `storeChunkFromPage` joins the store of its key or leads it
(`inflight`), and moves on its ladder: the plain attempts, those after "Extension context
invalidated", those against a full store queue, then the recovery lookup and, where it misses and the
context was gone, the deferral to a reconnect. `pending` is the request table, `wire` the messages, which
may overtake each other; `relay` says whether a content script listens, has no runtime any more, or was superseded. `KeepsPromise` is the
refinement: `answer`, `asked` and `stored` of `StoreCalls` are read off the calls (`INSTANCE StoreCalls WITH`).
Abstractions: what is stored are whole captured objects; "stored" means taken by the
background's cache; reports without an answer are left out.

`PlayerRequests`. A request asks for the whole object or a closed or an open range and goes through hot
bytes, lookup raced with its timer, collapse onto a prefetch, the ladder of belts, the native request and
the capture of its answer. `hot` and `disk` hold, by cache key, the bytes filed under it.
Abstractions: a request is one use of an XHR object; playlists and requests
that are not intercepted are left out; the lane for a fault of the lookup's channel is
unreachable, as every fault resolves as a miss.

`RegistrySync`. The background's `registry`, its `timer`, the runs of `flush` that wait for their tabs,
messages to a page in order, and the page's set with its intents and the time it is trusted. `missed`
is history: what a tab was passed over with, or was overtaken by. Tabs are numbered in the order of
`tabs.query`, and a run is where its last message went (`at`). A page's `told` is history: what it was told
since its set was last replaced, whether it kept or trimmed it. Abstractions: a key stands for
all names of a segment, which both sides resolve alike; a page's registry and a payload are sets, and which
keys a page drops beyond its limit is open; Chrome keeps the order of the messages to a tab.

`TabPrefetch`. `bg` is the background: the live state object, the replaced ones that timers still hold,
marks (`inflight`), failures, the generation, the batch to coalesce and its timers; `page` is what the page
holds, its generation, and the skips it still has to report; `line` the messages to it. `PageDrops` is a URL the
page gives up in silence: trimmed from its queue (`video.js:409-416`), fetched by a prefetch that threw, which the
coalescer swallows (`network-fetch-coalescer.js:302-306`), or joined to the wire of another. `lost` is history: the
marks whose delegation ended so that nobody tells the background. `Capture`,
`ChunkObserved`, `BridgeReady` are schedules, each of which replaces the object first. Abstractions: the
playhead is at the head of the playlist; one tab, no pinned entries, no settings toggle, no frames; a
message and the handling of its reply are one step; depth timers that would decline as there is nothing
beyond the urgent window are left out; a reload of the page comes when what was under way is lost.

`Anchor`. `tabState` is the tab's object reduced to the fields that decide where the anchor is, its field `on` the
windows of time that are open; `dom` and `tele` are the debounced seek and teleport; `seen` and `left` are history,
the last segment asked for and what a switch of episode leaves of the old one. Each handler is one action; `up` is the choice of the comparisons that depend on details left out (the margin of a
rising index). Abstractions: a playlist keeps its length; live windows and a predictor switched off are
left out; the 0.9 s between two snap-backs is left out; the windows after a refresh of the playlist and of a rotation
are one; what a commit does to prefetches is `TabPrefetch`'s.

`HeadStream`. A document is a sequence of lexemes, a chunk may end after each, and `out` is the sequence of
positions written, 0 standing for the hints. Only browsers with `filterResponseData` run it
(`document-stream-hook.js:36`). Abstractions: errors of the filter and undecoded ends of UTF-8 are left out;
`DocumentAssumption` says which documents are meant: a tag ends before anything else opens or ends, the first
`<head` is in no comment, and no `</head>` comes before it. So a `<` or "</head>" in the raw text of a script is left
out (the close that is "tag-aware" would put the hints inside such a script); comments may contain anything.

## 3. Runs

| Run | Question | Bounds | Result |
|---|---|---|---|
| `chunk_store` | is every stored row registered, does eviction resume, is `evictionInProgress` exact under every fault | 2 URLs with invariant and plain keys; 2 writers and 1 pass while puts and deletes succeed, over any rows left by an earlier worker, listings of 1 row; or 1 writer and 2 passes with all faults | holds |
| `chunk_lookup` | does a lookup miss a row that is there, are the bytes those of the segment asked for | 1 writer, 1 reader; a signed URL and its query-free path, scopes of 2 pages and ClearCache, or 3 URLs of 2 segments and one rotation | holds |
| `store_queue` | order within a key, no idle slot, an answer for everyone; is a wrong denial of a page corrected | 5 calls (3 of one key, 1 of another, 1 of none), 1 slot, depth 2, 3 tails; or one key, 2 tabs, 2 overlapping flushes; or 3 keys, payload 2, page 1, 1 tab | holds |
| `lookup_router` | one outcome and one answer, no resolver left, no lock but of a page that went away, every lookup ends | 2 lookups of one segment (one with a range nothing satisfies), 1 store, prefetches of 2 tabs, page consumers that leave or vanish, every timer | holds |
| `ext_fetch` | does every call settle once, by timers alone, with the bytes that arrived whole and in order, does an abort end the fetch; are the hints those of the head | 1 call, which is buffered (2 chunks) or a stream (3 chunks of Twitch media, or 2), each once where chunks keep their bytes and once where they may not; 2 rejected sends, 1 stop of the worker, 1 reset; or documents of up to 2 items in the head, before and after it, cut anywhere | holds |
| `hot_bytes` | limits, exact total, nobody asleep on bytes that are there; is the page never ahead, is a mark waited for | 3 keys, 2 callers, 2 entries, 2 aliases, 1 waiter; sizes that fit one, two or three times or not at all; or a tab in one of four kinds, below | holds |
| `page_prefetch` | one fetch per key, no wire without reader, no worker asleep on work, every queued URL leaves | 3 URLs of one key, 2 players, 1 worker, queue of 2, 2 generations | holds |
| `manifest_refresh` | does a refresh end and clean up after itself, what can park a tab; what moves the anchor | 2 state objects, 1 frame, 1 retry, 1 probe, 1 request, recovery after 1 segment; or an anchor in a playlist of 40, in one of five kinds, below | holds |
| `page_requests` | does the bridge implement its promise, one leader per key, nothing pending that nobody awaits, every call settles; are the bytes those asked for, is an XHR told once, does every request end | 2 calls of one key, 1 flush, 1 attempt per ladder (2 invalidated), 2 deferred; or 1 fetch and 1 XHR of one object, a ladder of 8 belts | holds |
| `store_dedup` | "a hit here proves this URL is on disk" (`db.js:683`) | 1 writer, 1 pass | violated |
| `slice_poisoning` | a slice under the object's key "would serve the truncated slice as a complete 200" (`fetch.js:265`) | 1 fetch with an open range, 1 XHR | violated |
| `head_twice` | "buffer should remain unchanged" after the end (`html-head-scanner.test.js:88`) | the documents of `ext_fetch` | violated |

Bounds. Every race in the cache is between one call of each kind and one or
two keys: two writers cover two stores of one key; two passes cover the lock; a
pass deletes one row per batch, so it leaves an overflow. Two variants per URL
are the least with an alias, a shared variant and an invariant key.

The queue's limits are as small as they can be with a queue behind a slot and
tails that outnumber the depth, as in the code (4 slots, depth 256, 512 tails).
Two lookups suffice for the router: its races are between two waiters of a key,
one of which may also be woken by the other's prefetch, and each source of wake-ups.

Requests share only the life of the worker and the table of controllers, in which
each has a row of its own, so one call of each kind at a time shows what can happen;
the theorems hold for any number.

The hot byte cache is bounded so that each limit is met, also two at a time; one size
is too large for the cache. All URLs of `page_prefetch` share one key, as those with
renewed tokens do: URLs of different keys share only the queue, in which every
property already speaks of each URL. One worker makes it wait for the fetches that
demand starts beside it.

Two state objects are the least with a replaced one, whose timers, retries and probe act on the
other; one retry and one probe are the least that can be used up.

The bridge's races are between two calls of one key, a flush and one switch of the relay: two
calls are the least with a leader and a follower, or with a leader and the flush of an older one.
Deferred stores of earlier calls may be there at Init, so the queue of two can be full. Calls of
different keys share only that queue. The player's two requests are for one object, since
requests for different ones share nothing; open ranges are asked for by the XHR, and by the fetch in
`slice_poisoning`. The ladder has the order of the belts in `fetch.js` and `xhr.js`, those that may be
skipped skipped in any combination.

Of `RegistrySync`, the second of two tabs is the least that a flush reaches late, two flushes are
the least that overlap. The limits are ordered as the shipped ones, a payload of 1600 keys and a page of 800
(`config/constants.js:205`, `page/cache/cache-registry.js:8`): three keys are the least that exceed a payload of two, which
itself exceeds a page of one, so every replacement is trimmed. Their trimming is then the whole question, so
this kind has one flush and one media tab, and stores its keys in one order.

A tab of `TabPrefetch` is one of: "known", one segment, with everything that makes the background
or the page forget, two generations, two messages under way; "episodes", two playlists of different episodes, a
low runway, sleep; "crowded", two segments where one at a time may be fetched; "deep", a second segment beyond the urgent
window, a renewed playlist, a healthy runway. Marks grow old and are pruned in the last two. All kinds share one set
of constants: the playlists of a kind, and the actions it takes, are those its disjunct of `MCNext` names. Each hazard needs one of these only; all of them
together are beyond TLC.

An anchor of `Anchor` is one of: "streaks", places 0, 12, 13 of one episode (two close to one another, both far from
0); "far", 0 and 30; "predictions", with a renewal and a switch of episode; "scrubs", place 30 and
the samples of a scrub; "renewals", place 30 with changes of quality, refreshes and a switch. 12 is just beyond the
jump that counts as passive, 30 beyond every distance the code compares with. All kinds share one set of places;
a kind says which of them its handlers are given.

The steps of `chunk_lookup` that change the registry only, a rebuild first of all, are left out: no lookup, store or
bridge reads it (`chunk_store` is about it).

`NoFalseMiss` is checked for one rotation. `bridgeCacheAliasesForUrlPair` uses the
*probe key that hit* as the primary key (`db.js:790`), so bridging a URL that was
itself bridged makes an alias the target of an alias: that second alias names no
row, and a lookup of the newest URL deletes it and misses bytes that are on disk.

`EvictingIffOnePass` is stated without ClearCache: `clearCacheStores` resets the flag
(`db.js:973`) while a pass may be awaiting, after which two passes may run. `ResumesWhileCalm`
excepts a transaction that aborts in silence: no await of a pass has a timeout or an
abort handler, so the pass hangs with the flag set until ClearCache, although "Every await against
IndexedDB must be bounded" (`db.js:197-212`).

What the registry claims is not exact: stores register every variant of a URL
(`db.js:744-746`), evictions unregister the primary keys of the deleted rows only
(`db.js:552-555`), so a signed URL may go on being claimed through its query-free
alias, although `cache-registry-hit.test.js:8-9` wants unregistration to be exact.

`RegisteredWhileCalm` excepts the rows the latest listing left out (`unlisted`): `listCachedChunkKeys().catch(() => [])`
is followed by a clear (`cache-registry.js:191-192`), so a rebuild whose listing fails, or that finds more than 1200
rows, leaves rows that the registry does not know. They stay unknown until they are stored again or
another rebuild lists them; until then pages are told they are not cached.

`ServesOwnSegment` is checked for URLs whose path tells the segments apart. If `?part=1` and
`?part=2` of one path name two segments, both have the path-only key (`cache-keys.js:95-98`:
"safe only when every present param is identity or volatile", and `part` is an identity
parameter, `config/constants.js:387-400`): the second store repoints it, and a lookup of the
first that misses its own keys is answered with the bytes of the second.

What `manifest_refresh` finds, in the exceptions its properties make (`causes`):

* the probes were added so that no tab sits in auth_expired "with prefetch hard-blocked" until
  the user acts (`manifest-refresh.js:52-57`), and a spent budget is meant to end them. A probe that
  fires while the user scrubs, or up to 1.4 s after, is skipped (`:351-354`) without having used
  the others, and no other is scheduled: the tab stays parked with probes left;
* a timeout whose object was replaced charges that object (`:123-127`). When its retries are used up it
  is the replaced object that expires; the tab's own has lost the shared timer and goes on
  refreshing with none. A request then only coalesces (`:364-367`); a playlist is what still helps;
* `lastRetriedManifestGeneration` is not carried to a new object, so a generation whose failure
  two frames report can be charged twice after a schedule, against `:291-299`;
* the budget of probes is per object: a replacement in auth_expired starts with a full one.

What `ext_fetch` does not promise, and the code does not keep:

* `WholeBody`, and the proved `StreamInOrder`, are relative to `lost`, the chunks whose bytes do not arrive: a rejected
  chunk send is swallowed (`message-router.js:173`) and the page ignores the index
  (`extension-fetch-client.js:114`), so bytes with a hole in them are reported as a
  whole body, and may be cached;
* where messages are JSON no chunk has its bytes (above). `END` with ok then closes a stream that has had none: the
  player is given an empty body with status 200. A buffered call gets an empty buffer, which its caller refuses
  (`video.js:245-288`), so it is never answered with nothing, which `WholeBody` says as well;
* `ok: false` before the metadata leaves the meta promise pending
  (`extension-fetch-client.js:134-146`); only the interceptor's own 8 s end the wait;
* neither timeout of the page tells the worker unless the stream is cancelled, and an
  abort after the headers does nothing: the signal was unlinked when the fetch
  settled (`extension-fetch.js:36-39`, `:108-110`), so the body is pumped to its end.
  `AbortStopsFetch` speaks of aborts before the headers;
* an entry that a late reply made anew and that has received a chunk is spared by the
  sweep; if the worker was stopped before the END it stays for ever;
* after `resetExtensionFetchMetrics` the controllers of running fetches are unknown
  and their aborts are ignored: `ControllersAreLive` has one direction only.

What `store_queue` finds of the registry, in the exceptions of `DenialsAreCorrected` (`missed`):

* a tab that is no media tab when a flush passes, and a flush whose `tabs.query` fails
  (`cache-registry.js:163-168`), get nothing later: no retry is armed;
* an older replacement that awaits an earlier tab may arrive after a newer sync; the
  generation it carries is compared by nobody;
* a registry larger than a payload sends its oldest keys, so its newest reach no page by a
  replacement;
* a page keeps 800 keys of a payload of 1600 and drops the oldest of its set
  (`page/cache/cache-registry.js:89-98`); while it trusts its set it denies that the others are cached, although a
  "trimmed page-side registry can never produce a false negative" (`cache-registry.js:113-118`). The exception is
  `told`: what the page was told and has trimmed it denies, until a later message names it again. TLC reaches such
  a denial at once when the exception is taken out. What the property still promises is that a denial has this
  cause or is about to be corrected;
* by reading: a restarted worker answers `BRIDGE_READY` with an empty registry until its rebuild
  is flushed; nobody sends `removedKeys` or calls `removeLocalCacheKey`, through which the page expects
  removals to come (`pg/cache/cache-registry.js:181-183`).

What `page_requests` shows of the bridge and the interceptors, beyond its properties:

* "Receiving end does not exist" belongs to the ladder of eight attempts, but `isTransientStoreFailure`
  does not match it, so it ends a store at its first attempt, where `relay.js:26` says to retry later;
* a second injection of the relay bumps the generation before anything else (`relay.js:9`), so the first
  listens no more even when the second stops;
* a closed range answered by a prefetch under way has status 200; a server that ignores `Range` puts
  whole bytes under the key of the range, so `RightBytes` assumes `HonoursRanges`;
* an XHR aborted after its lookup settled goes on, and answers after its abort events
  (`xhr.js:962-963`); one that `open()` reuses keeps its range and its overridden status
  (`xhr.js:509-520`);
* the relay drops the range of a lookup (`relay.js:478-485`), so a lookup for an open range always misses.

What `hot_bytes` finds of the scheduler:

* `GenerationsAgree` excepts a background that has forgotten the tab (a restart, ClearCache, the prune after ten
  minutes): it starts again at 0 and the page refuses its batches without a word (`video.js:902`) until
  enough bumps have come; the comment at `video.js:946-947` knows what silence does;
* `MarksAreAccountedFor` excepts the delegations that end without a report: a message that is lost, a batch refused,
  URLs the page passes over, trims, or joins to another wire, and a prefetch that throws: the coalescer settles it as
  `ok: false` (`network-fetch-coalescer.js:302-306`), so the catches of `video.js:733-746` and `:781-804`, which would
  report it, never run. Such a mark stays until it is pruned;
* a new object does not take over the runway, the tier, the rescue latch, the caps' retries, the last depth pass
  or sleep (`upsertPlaylistState`). A schedule replaces the object first, so inside it the runway is unknown: its boost
  and rescue branches never run, and its depth pass (`prefetch-scheduler.js:366-368`) is always
  declined (`depth-lane.js:133-135`), against `depth-lane.js:90-94` ("precisely the standing start this
  lane wants"). Only the timer of a completed fetch deepens, and it checks that its playlist is still the tab's
  (`prefetch-tracking.js:154-157`); the other timers of a replaced object do not, and put its playlist back (cap and
  in-flight retries);
* by reading: `chrome-events.js:167` notes a new page before `handleTabNavigation` compares with it, so
  the marks of the page that was left are not released; a coalesced batch is lost at every
  schedule and every direct delegation, the speculative one included; a stale request clears the debounce's
  timer but not its entry, and after 15 s every later request is dropped; the result of a flush is ignored
  (`page-delegate.js:209`); a batch that is empty as others hold the slots arms no retry.

What `manifest_refresh` finds of the anchor. Four indices of an episode survive the switch to the next and may
become its anchor (`left`; TLC shows each when it is not allowed for): a DOM seek that waits out its debounce, a
teleport that does (neither timer is cleared), the snapshot a refresh took (`lastAnchorBeforeRefresh`), and
`anchorMediaSequence` (`playlist-state.js:302`), by which the new episode's first segment is taken for the
old anchor, and remembered as the segment the player asked for. `OldEpisodeIsLeftBehind` says that there is no
fifth way. `JumpsAreProven` allows for the reconciler as well: a far segment that a guard puts back as stale
sets it off, and a divergence that has lasted may promote another signal in the same step, which nobody has
asked for yet. By reading the code for the model:

* the schedule inside `softCommitAnchor` replaces the object before the promotion is marked on it
  (`anchor-manager.js:150-151`): dwell and cooldown are lost, and the next divergent sample
  promotes at once, although "a transient single-sample disagreement never causes an anchor
  jump" (`anchor-reconciler.js:117-121`);
* an unknown index is read as 0: "" on the seek wire (`unified-seek-wire.js:14-17`), a throttled sample's
  missing prediction, `index: null` of FORCE_TELEPORT_ANCHOR (`anchor-manager.js:337`); the estimates from time
  that should step in are never reached;
* while signals churn, the jump of a seek prediction is measured from that prediction, so it is 0 and the
  teleport does nothing; without an anchor, promotions commit nothing;
* what a handler writes to an object after a schedule is lost: the sample that ends a scrub, the rate limits, the
  passive streak;
* once a seek has vouched for the anchor, its source never returns to the network, across episodes too; a
  debounced teleport does not check authority again; a low index without fresh signals is accepted in the grace
  of a rotation, contrary to the comment above it; every schedule clears `isLive` and the media sequence, so
  the remapping of live playlists is nearly dead code; `activateOrExtendTeleportLease` is defined nowhere.

What `lookup_router` finds, in the exception of `LocksAreHeld` (`orphaned`): a page releases its consumers by a message
(`network-fetch-coalescer.js:351-373`), which is lost when the page reloads, navigates or its relay is gone. The entry stays
locked: pruning only marks it for a release that nobody sends (`tab-policy.js:127-143`), and it goes when a schedule
replaces it as stale, at the next release of its tab, when the tab is closed or the cache cleared.

Observed while reading, and not run:

* a lookup and a page-side consumer of one tab attach to one prefetch entry; the set
  of attached tabs counts them as one (`inflight-consumers.js:36`), so the first to
  leave unlocks the entry, or deletes it if its removal was deferred, and the next
  schedule fetches again what is still awaited;
* within two seconds of a miss a repeated lookup opens the ledger without bumping
  `cacheLookups`, yet its miss bumps `cacheMisses` (`message-router.js:699-714`);
* a player that found no wire attaches to none, yet releases one on leaving
  (`network-fetch-coalescer.js:361`, `:372`): a wire opened in between loses the consumer
  of another player, and a cancellation then aborts the fetch that player awaits.
  `SettledWireIsAwaited` says that the count is never too high, not that it is exact;
* a fetch that failed while a player holds its wire leaves the wire in the table,
  settled; joining it ends at once without bytes, so the player's wait loop
  (`network-fetch-coalescer.js:437-495`) spins through microtasks, and no timer, message
  or fetch of the page runs, until its time is up or the wire is purged;
* URLs dropped by `trimPrefetchQueue`, skipped because they are queued already, or
  passed over by a dequeue because they are active are reported to nobody, although
  a URL that is dropped silently "can stay inflight and block scheduling"
  (`video.js:946-947`);
* a URL that a cancellation keeps queued keeps its old generation; a batch of the new
  one that names it again skips it (`video.js:941`), and the worker then drops it.

Fairness (`LiveSpec`): a started operation eventually completes or fails, as
IndexedDB promises; new stores, passes and clears are never forced. In `StoreQueue`
microtasks run and a write ends (every await of `cacheChunk` is bounded,
`db.js:214-290`). In `LookupRouter` reads end and the timers of waits fire; nothing
else is forced, so `EveryLookupEnds` does not rely on the watchdog, on a store or on
a prefetch. In `ExtensionFetch` only the page's timers are fair (`MetaTimeout`,
`Deadline`): the network, the messages and the worker promise nothing, so
`EveryCallSettles` holds when every message is lost. In `PagePrefetch` a fetch ends, well
or badly, and the worker loop runs on when no URL is being worked on (with others at
work it may have to wait for concurrency); players, purges and cancellations are never
forced. `EveryQueuedUrlLeaves` assumes that batches stop putting waiting URLs behind new
ones, which only a replacing batch that finds kept URLs can do. In `ManifestRefresh` the timeout and
retry timers fire; that the page answers, or a playlist ever comes, is not assumed. In `PageBridge`
the page's timers fire: a request that nobody answers times out and a pause between attempts ends, so `EveryCallSettles` holds when relay and worker are silent. In `PlayerRequests` what a request
awaits comes to an end (`Proceeds`): a lookup by its timer, a joined prefetch by the limit of the wait, the
native request by the browser. `TabPrefetch`, `Anchor`, `RegistrySync` and `HeadStream` have safety
properties only and assume no fairness.

## 4. Proofs

`ChunkCacheProofs`, for any sets of URLs, keys, variants,
payloads, scopes, writers, passes and readers, from the assumptions
`StoreAssumption`, `KeyAssumption` and `LookupAssumption`:

* `TypeCorrect`: `ClearSpec => []TypeOK`.
* `OnePass`: `Spec => []EvictingIffOnePass`. Every step of a pass either keeps it open
  and leaves the flag alone, or ends it and resets the flag (`PassKeepsOrEnds`).
* `StoredRowsAreRegistered`: `CalmSpec => []RegisteredWhileCalm`: reads, cursors and alias puts may
  fail at any moment, only puts and deletes of rows and the answer of a pass may not (a rejected
  delete has already forgotten keys whose rows stay). It starts from whatever rows an earlier worker left, and
  a listing may fail or be short. The invariant is
  not inductive alone: a pass that unregisters a key could take the registry key
  of another row with it. The strengthening `RegisteredInv` adds that only primary
  keys of URLs ever hold rows (and so are ever summarised); `KeyAssumption` says
  the registry tells those apart.
* `ReaderTypeCorrect`: `LookupSpec => []ReaderTypeOK`.
* `NoLookupMissesAKeptRow`: `LookupSpec => []NoFalseMiss`, under all faults. The inductive
  invariant `KeptInv` says that `kept` is accurate and that a lookup with `kept` set never
  passes the first store probe, which is the primary key itself: the index can
  only lead it to usable bytes, to another key, or back to that probe.
* `LookupsStayAmongLinkedUrls`, for any keys: what a lookup finds has the bytes of a URL that shared variants and
  bridges lead to from its own, directly or through others. The theorem speaks of any set of URLs closed under
  both (`Closed`); nothing is asked of the keys, since `cache-keys.js` does not keep segments apart (two URLs
  that differ in identity parameters share the path-only key). With keys that do, as in the run, such a set is a
  segment, and this is `ServesOwnSegment`. The invariant says that rows, index entries, aliases, stores
  and all that a lookup carries from one probe to the next stay within the set.
  `MinIsLeast` (the community module's `Min` of a non-empty set of naturals is its least
  member) is proved by well-founded induction over finite sets.

`StoreQueueProofs`, the first three from `QueueAssumption`:

* `QueueIsBounded`, `NoSlotIsIdle`: the inductive invariant `LimitInv` ties the queue to
  the states of the calls (a call is queued iff it is in the queue, once) and says
  that a queue with a free slot has a pump coming.
* `WritesOfAKeySerialize`, when `Depth < MaxTails`. The invariant `ChainInv` says that the
  chain of a key orders its calls, that the tail is the last of them, and that a key
  without a tail has nothing to wait for. When a call arrives, each live key has a
  write queued or running, so the live tails never outnumber the depth (`FewTails`)
  and pruning never takes one (`NoTailIsPruned`).
* `DenialsAreMadeGood`: `SyncSpec => []DenialsAreCorrected` of `RegistrySync`, from `SyncAssumption`, for any tabs, pages
  followed, keys and overlapping flushes and whatever the limits of the payload and the page are. `SyncInv` says what the property leaves
  out: a run waits for one tab and stands in that tab's queue
  of replies once (`WaitsOnce`); and while nothing has yet to be sent, every tab that missed nothing is
  `Informed`: of the runs that have not passed it (`Coming`) the last to arrive (`Before`) brings the payload of
  now, and if there is none, its page has heard nothing since it loaded or will know all of the payload when
  its inbox is applied (`WillKnow`: it was told, whether it holds it or has trimmed it). A run that passes another one makes the tabs behind both miss
  (`NobodyOvertaken`), so the two that are left keep their order (`OrderIsKept`). TLC checked `SyncInv` before it was proved.

`LookupRouterProofs`, from `RouterAssumption`, with one inductive invariant `RouterInv`:

* `OneOutcome`: `Spec => []HitsAreServed`; `NoResolverLeaks`: `Spec => []WaitersWait`;
  `NoLockLeaks`: `Spec => []LocksAreHeld`. The last needs the second: a release is due
  only from lookups that the table of resolvers still holds. A lock without a consumer is one of a page that went
  away.

`FetchAndHeadProofs`, its theorems about `ExtensionFetch` from `FetchAssumption`, for any requests, bodies and
numbers of faults:

* `FetchTypeCorrect`, `NobodyIsForgotten`, `SettledCallsStay`: the invariant `PageInv` ties the
  entry, its timer, the caller and the stream of a request to each other; a
  settled call has no open entry, and only open entries reach their caller.
* `BodiesAreWhole`, `StreamsAreInOrder`: `BodyInv` follows the body along its way. What
  the page has got, followed by the chunks still in `down`, is what the worker has
  sent without the chunks that lost their bytes or were rejected (`GotAt`, `DownAt`); an END is the last message and comes
  after the whole body; a request has reached the worker before anything comes
  back (`UpAt`); what was handed over is the beginning that was got (`HandedAt`).
* `AbortsStop`: an aborted fetch that has no headers waits for the Referer rule or is
  over; `ControllersLive`: a job leaves the table in the step that ends it.

and the one about `HeadStream`, from `DocumentAssumption`, for documents of any length, cut anywhere, and any limits:

* `HintsAreInTheHead`: `HeadSpec => []HintsFitTheHead`. The invariant `HeadInv` says that all that was written follows from
  one number, how much had arrived when the scanner decided (`DecidedAt`): its buffer with the hints, then the rest of
  the document, then once more the buffer if the stream has ended. The rest is about the scanner's functions.
  `WalkExists` and `Downward` (induction from the end of the document, from well-founded sets of numbers) give the equations of the
  recursion of `walkTagsFrom`, and `WalkIs` what it computes: from any place between two tags it meets the tags that are
  in no comment, as far as they have arrived. Hence `HeadEnds` and `HeadCloses` (the scanner and a browser agree on the head, as
  soon as enough has arrived), `HintsAreTheHeads`, and `PlaceIs`: where the hints go is in the head and between two
  tags, even when the limits were reached in the middle of a tag. Such a tag begins after the head's own, so what is
  parsed without it still has the whole `<head>`. TLC first checked `HeadInv` on all documents
  that begin in one of three ways and have up to five more lexemes, of eight kinds.

`PagePrefetchProofs`, from `PrefetchAssumption`, for any URLs, keys, players and limits:

* `OneFetchPerKey`: `Spec => []WireNamesFetch`; `WiresAreReleased`: `Spec => []SettledWireIsAwaited`.
  Both follow from `WireInv`, which is not about the queue at all: a running fetch is
  its key's unsettled wire or has lapsed; an unsettled wire is led by a running fetch;
  whoever awaits a fetch awaits a running one of its own key; and a wire's consumers are
  at most the players waiting for its key, a settled one having at least one.
* `NoWakeUpIsLost`: `Spec => []NoWorkerSleepsOnWork`, with the queue's own part of the type (`WakeInv`). What a
  cancellation or a purge leaves of the queue is `Only` of `Filtering`, a recursive function, since the prover has no
  rule for the library's `SelectSeq`.

`RefreshAndAnchorProofs`, its theorems about `ManifestRefresh` from `RefreshAssumption`, for any frames, retries, probes, objects and requests:

* `RefreshTypeCorrect`, `RefreshTimersEnd`, `ParkedOnlyForACause`. The inductive invariant `IInv` adds to
  the type and to `OwnTimersEnd` that objects not yet made hold no timer (`Unmade`), that the
  handle of a probe is only held by the object that set it (`HealIsOwn`), and, for each way a tab
  can stop, what is pending unless a cause is noted: in auth_expired a probe of the tab's
  generation (`Probed`; an earlier one may be refused for the cooldown), while it refreshes a
  retry, or the timeout of an object that takes itself to refresh (`Timed`). `TabKeeps`,
  `AdoptKeeps` and `ReplaceKeeps` prove each kind of step once for all actions that share it.

and those about `Anchor`, from `AnchorAssumption` (places are natural numbers, there is a first episode), for
playlists of any length, any places of the player and any number of episodes, shared places included:

* `NoOldVoiceMovesTheAnchor`: `AnchorSpec => []OldEpisodeIsLeftBehind`. The anchor alone is not inductive: what the
  predictor says, the segment observed, a scrub's velocity, a teleport's target, the snapshot, the number of the
  playlist, a pending streak and the two debounces may each become the anchor later. `AnchorInv` says of all of
  them that they are `Voices`: the start, a place of the episode that plays, or what its switch left. The
  reconciler takes the weighted median of four of them; `MedianIsHeard` shows that this is one of the four, so that
  no index is made up (weights are natural numbers, and of finitely many signals one has the greatest index, at
  which the weights below it are all of them).
* `FarSegmentsAreProven`: `AnchorSpec => JumpsAreProven`, from the other half of `AnchorInv`: a streak that waits for
  its second sample began with the last segment asked for, and neither a renewal's grace nor a mute is open
  (`StreakOf`). This is what would go wrong if a window opened in between and left the streak pending.
* A handler is a chain of helpers on the tab's object and the two timers; `Steady` and `Positions` are what the invariant
  says of these at any link of the chain, and each helper (`softCommitAnchor`, `commitAnchorFromAuthority`,
  `maybeReconcileAnchor`, `Teleported`, ...) is proved to keep them before the actions are put together.
  TLC checked `AnchorInv` on the states of `MCManifestRefresh` first. Both properties are stated as TLC corrected them: earlier
  forms, an action property about the episode and one without the reconciler, held for each kind of tab on its
  own but not for all handlers together.

`PageRequestProofs`, its theorems about `PageBridge` from `BridgeAssumption`, for any calls, flushes, keys and lengths
of the ladders:

* `TypeCorrect`; `ImplementsPromise`: `BridgeSpec => KeepsPromise`, the refinement of `StoreCalls`. The inductive
  invariant `BridgeInv` says what a message stands for: it belongs to a call that was made, and one that
  says "ok" or "hit" is under way only for a key that is stored (`WireSound`); a follower has the key of the call it
  joined (`JoinedShareKey`), so one answer may serve them all. Each kind of step maps to `Ask`, `Store`, `Answer` or a
  stutter (`AskIsStep`, `AnswerIsStep`, `StutterIsStep`); `BridgeStep` puts the actions together.
* `TablesAgree`: `BridgeSpec => []PendingAreAwaited`; `LeadersUnique`: `BridgeSpec => []OneLeaderPerKey`. Both are parts
  of the invariant: every entry of the request table is the present attempt of a call that waits for it, and
  `inflight` holds a call that leads its key.

and those about `PlayerRequests`, for any numbers of fetches and XHRs for one media object:

* `PlayerTypesKept`; `AnswersAreHeardOnce`: `PlayerSpec => []HeardOnce`. The invariant `HeardInv` adds that a request which is not
  done has heard nothing and was not told of an abort. Every step replaces one request's record or none
  (`StepsHear`), by one of four kinds of record (`GivenHeard`, `GoesHeard`, `LateHeard`, `HotServesHeard`).
* `AnswersAreRight`: `PlayerSpec => []RightBytes`, when `Orderly`: the server honours ranges and no fetch asks for an open range
  (run `slice_poisoning` shows what happens otherwise). The property is not about one request: an
  answer is written back under the key of its range and serves the next. `RightInv` says that hot bytes,
  disk, backfills and write-backs under way hold under a key the bytes of that key.

`HotBytesAndTabProofs`, its theorems about `HotBytes` from `LimitsAssumption`, for any keys, sizes, callers and limits in the order of the code's
(an entry's limit is at most the cache's, an entry is dead no sooner than it counts as old):

* `LimitsAreKept`: `Spec => []WithinLimits`; `SleepersAreWoken`: `Spec => []SleepersHaveNoBytes`;
  `AliasesAndSleepersAgree`: `Spec => []MapsAgree`. All follow from `HotInvariant`: `HotInv` says that the cache is
  `Sound` (each key has one entry and each name one alias, an alias leads to an entry that is there, the total is
  the sum of the entries), that the limits are kept (`Small`, and `SleepInv` for the table of sleepers), and that no
  name an entry or an alias has is slept on (`SleptIsUnnamed`).
  `WithinLimits` is not inductive: without keys apart and the exact sum, an entry replaced or dropped could leave bytes
  in the total; and without `AliasesLead` a key could be asleep under an alias whose entry comes back.
* What the code's loops leave is a recursive function here (`Only`, `Sum`), which the provers can use by its
  equations: `Recursion` shows that a function with such equations exists, `SumsAgree` that they determine it, both by
  counting members of finite sets (`Counting`, `LeastExists`) in place of induction. From that come `OnlyIs` (what is
  kept, in which order), `SumSplits` (what is kept and what is dropped add up) and `WithoutDrops`;
  `EvictOverflowEvicts` shows that the least number the eviction drops exists, as an empty cache fits.

and those about `TabPrefetch`, from `TabAssumption` (addresses of segments have keys, the urgent window is part of the
playlist, the blank value is no batch), for any segments, playlists, episodes, numbers of state objects and bounds:

* `TabTypeCorrect`; `PageIsNeverAhead`: `TabSpec => []GenerationsAgree`; `MarksAreWaitedFor`:
  `TabSpec => []MarksAreAccountedFor`. The inductive
  invariant `TabInv` adds to the types what each of them needs. The page only learns a generation from a message, so
  no message under way may be of a later one than its tab's object (`UpTo`); a replaced object keeps its timers, which
  may post again, so the generation may never fall when the object is replaced (`Succeeds`). An object nobody refers
  to is blank, since a replacement takes one of these. And a mark that no waiting batch holds and that is not known to be lost (`Loose`) is in a message
  or with the page. A handler goes through several steps, each from a pair of the tab and the messages it posts;
  `Answers` is the invariant of such a pair, with room for the marks about to be delegated, and each helper
  (`upsertPlaylistState`, `bumpPlaybackGeneration`, `schedulePrefetch`, ...) is proved to keep it before the actions are put together.
  TLC checked `TabInv` on the states of `MCHotBytes` first.

`QueueIsBounded`, `StreamsAreInOrder`, `ControllersLive` and `AliasesAndSleepersAgree` state invariants no run checks: they hold for
every value of the constants, and the runs' properties are about what a test would miss.

Model-checked only: the liveness properties (`ResumesWhileCalm`, `EveryCallIsAnswered`,
`EveryLookupEnds`, the two `EveryCallSettles`, `EveryRequestEnds`, `EveryQueuedUrlLeaves`, `RefreshEnds`):
fairness is about ENABLED, which the provers cannot reason about. Every other property of a passing run is a theorem.

## 5. Plan

1. An abstract cache that `ChunkLookup` implements.
2. The storage valve with its recovery; the page scope of the reads of waiting lookups
   (`message-router.js:490`, `:533`).
3. The coalescer's table of manifest fetches; live windows in `Anchor`.

Not modelled: the parsing of playlists and documents into names, URL heuristics and
site policy (text work: a model would restate it); telemetry and metrics (no effect on behaviour, but for
`resetStats`); the popup; layout assets and their browser rules; subtitles and
heartbeats of the relay; the guard ring's geometry and the lanes' timers, which are left open in
`ChunkStore`; master playlists and the table of the manifest coalescer; the arithmetic of windows, priorities and
congestion of the scheduler and the shares of several tabs.
