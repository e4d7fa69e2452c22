---------------------------- MODULE PlayerRequests ----------------------------
(***************************************************************************)
(* The player's requests for one media object, as window.fetch and         *)
(* XMLHttpRequest are wrapped by page/interceptors/fetch.js and xhr.js:    *)
(* the page's hot bytes, a lookup in the background raced with a timer,    *)
(* the collapse onto a prefetch under way, the ladder of belts before the  *)
(* native request, and the captures that write back what the network       *)
(* answered (page/media/hls-media.js).                                     *)
(*                                                                         *)
(* A request asks for the whole object, for a closed range of it           *)
(* (bytes=a-b), which has a cache key of its own, or for an open or suffix *)
(* range (bytes=a-), which has none. An action is one turn of the page's   *)
(* event loop; a reply read from the background is what its cache holds    *)
(* when the reply arrives, or a miss.                                      *)
(***************************************************************************)
EXTENDS Naturals, Sequences

CONSTANTS
    Fetches,       \* requests made with fetch
    Xhrs,          \* requests made with XMLHttpRequest
    FetchRanges,   \* what fetch requests may ask for
    XhrRanges,     \* what XHRs may ask for
    HonoursRanges, \* does the server honour the Range header?
    None

Requests == Fetches \cup Xhrs
CacheKeys == {"url", "range"}
Bytes == {"whole", "closed", "open"}
Ranges == {"none", "closed", "open"}

VARIABLES
    req,      \* one record per request
    hot,      \* the page's hot bytes
    disk,     \* what the background's cache answers
    capture,  \* the write-back of a network answer
    backfill  \* collapseBackfillScheduledKeys with the bytes to store

stores == <<hot, disk>>
playerVars == <<req, stores, capture, backfill>>

(* A faulty CacheKeyOf: every range is looked up under the object's URL. *)
CacheKeyOfUrl(range) == "url"

(* What the server answers a range with, and the key a request is cached under:
   only a closed range has one of its own (resolveByteRangeCacheKey). *)
Named(range) == IF range = "none" THEN "whole" ELSE range
Answers(range) == {Named(range)} \cup (IF HonoursRanges THEN {} ELSE {"whole"})
StatusOf(range, bytes) == IF bytes = Named(range) /\ range # "none" THEN 206 ELSE 200
CacheKeyOf(range) == IF range = "closed" THEN "range" ELSE "url"
Right(key) == IF key = "range" THEN "closed" ELSE "whole"

Pcs == {"new", "lookup", "lookup again", "collapse", "join", "ladder",
        "native", "extension", "native again", "done"}

(* out is what the request ended with, loads the number of times the page's code
   gave it an answer, asked whether the lookup of an XHR is still out, taps
   whether its answer may be written back. *)
Fresh == [pc |-> "new", range |-> "none", rung |-> 1, asked |-> FALSE, taps |-> FALSE,
          cut |-> "no", loads |-> 0, bytes |-> None, status |-> 0]
Idle == [key |-> None, bytes |-> None, read |-> FALSE]

Key(r) == CacheKeyOf(req[r].range)
Goes(r, pc) == req' = [req EXCEPT ![r].pc = pc]

(* The request is given its answer. *)
Served(r, bytes, status) ==
    req' = [req EXCEPT ![r].pc = "done", ![r].bytes = bytes, ![r].status = status,
                       ![r].loads = @ + 1]

Ends(r) == Goes(r, "done")
Put(store, key, bytes) == [store EXCEPT ![key] = bytes]

(* A 206 from a cache is the exact slice under the range's own key. *)
CachedStatus(r) == IF Key(r) = "range" THEN 206 ELSE 200

-----------------------------------------------------------------------------
(* A request is made. The hot bytes answer first, except an open range. *)

PassesThrough(r, range) ==
    /\ req' = [req EXCEPT ![r].pc = "native again", ![r].range = range]
    /\ UNCHANGED <<stores, capture, backfill>>

HotServes(r, range) ==
    /\ range # "open" /\ hot[CacheKeyOf(range)] # None
    /\ req' = [req EXCEPT ![r].pc = "done", ![r].range = range,
                          ![r].bytes = hot[CacheKeyOf(range)], ![r].loads = 1,
                          ![r].status = IF range = "closed" THEN 206 ELSE 200]
    /\ UNCHANGED <<stores, capture, backfill>>

FetchBegins(r, range) ==
    /\ r \in Fetches /\ range \in FetchRanges /\ req[r].pc = "new"
    /\ \/ PassesThrough(r, range)
       \/ HotServes(r, range)
       \/ /\ range = "open" \/ hot[CacheKeyOf(range)] = None
          /\ req' = [req EXCEPT ![r].pc = "lookup", ![r].range = range]
          /\ UNCHANGED <<stores, capture, backfill>>

(* An XHR whose key has a page wire joins it instead of asking the background. *)
XhrBegins(r, range) ==
    /\ r \in Xhrs /\ range \in XhrRanges /\ req[r].pc = "new"
    /\ \/ PassesThrough(r, range)
       \/ HotServes(r, range)
       \/ /\ range = "open" \/ hot[CacheKeyOf(range)] = None
          /\ \/ req' = [req EXCEPT ![r].pc = "join", ![r].range = range]
             \/ req' = [req EXCEPT ![r].pc = "lookup", ![r].range = range, ![r].asked = TRUE]
          /\ UNCHANGED <<stores, capture, backfill>>

-----------------------------------------------------------------------------
(* A lookup in the background. The relay drops the Range header, so a lookup for
   an open range is a miss ("unsupported-range"). *)

CacheHits(r) == req[r].range # "open" /\ disk[Key(r)] # None

(* lookupCachedChunk: the reply of a hit seeds the hot bytes. *)
FetchLookupHits(r) ==
    /\ r \in Fetches /\ req[r].pc \in {"lookup", "lookup again"}
    /\ CacheHits(r)
    /\ Served(r, disk[Key(r)], CachedStatus(r))
    /\ hot' = Put(hot, Key(r), disk[Key(r)])
    /\ UNCHANGED <<disk, capture, backfill>>

(* A miss, or the timer: a request with a Range header or a player's hint tries
   once more, then the collapse. *)
FetchLookupMisses(r) ==
    /\ r \in Fetches
    /\ \/ req[r].pc = "lookup" /\ Goes(r, "lookup again")
       \/ req[r].pc = "lookup" /\ req[r].range = "none" /\ Goes(r, "collapse")
       \/ req[r].pc = "lookup again" /\ Goes(r, "collapse")
    /\ UNCHANGED <<stores, capture, backfill>>

(* The ladder of an XHR: what may still answer it before the native request. The
   lookup's timer leads to rung 3, a failed join to rung 4, a miss to the first;
   a rung the code climbs only on a rotation, an intent or a promoted prefetch may
   be skipped. The waits for stores under way belong to the rung after them. *)
Rungs == <<"collapse", "collapse", "collapse", "collapse", "belt", "belt", "belt", "collapse">>
Skippable == {1, 2, 4, 6, 7}
Top == Len(Rungs) + 1
Above(rung) == {up \in rung .. Top : rung .. (up - 1) \subseteq Skippable}
On(r, stage) == req[r].pc = "ladder" /\ req[r].rung < Top /\ Rungs[req[r].rung] = stage

Climbs(r, rung, asked) ==
    \E up \in Above(rung) :
        req' = [req EXCEPT ![r].pc = "ladder", ![r].rung = up, ![r].asked = asked]
Misses(r) == Climbs(r, req[r].rung + 1, req[r].asked)

(* The reply to an XHR's lookup, in time: the first of the reply, the timer and
   an abort settles it. *)
XhrLookupHits(r) ==
    /\ r \in Xhrs /\ req[r].pc = "lookup"
    /\ CacheHits(r)
    /\ req' = [req EXCEPT ![r].pc = "done", ![r].asked = FALSE, ![r].bytes = disk[Key(r)],
                          ![r].status = CachedStatus(r), ![r].loads = @ + 1]
    /\ hot' = Put(hot, Key(r), disk[Key(r)])
    /\ UNCHANGED <<disk, capture, backfill>>

XhrLookupMisses(r) ==
    /\ r \in Xhrs /\ req[r].pc = "lookup"
    /\ Climbs(r, 1, FALSE)
    /\ UNCHANGED <<stores, capture, backfill>>

XhrLookupTimesOut(r) ==
    /\ r \in Xhrs /\ req[r].pc = "lookup"
    /\ Climbs(r, 3, TRUE)
    /\ UNCHANGED <<stores, capture, backfill>>

(* A faulty XhrLookupArrivesLate: a late hit is applied all the same. *)
XhrLateHitApplied(r) ==
    /\ r \in Xhrs /\ req[r].asked /\ req[r].pc # "lookup"
    /\ req' = [req EXCEPT ![r].asked = FALSE,
                          ![r].loads = @ + (IF CacheHits(r) THEN 1 ELSE 0)]
    /\ UNCHANGED <<stores, capture, backfill>>

(* The reply comes when the timer or an abort has settled the lookup. *)
XhrLookupArrivesLate(r) ==
    /\ r \in Xhrs /\ req[r].asked /\ req[r].pc # "lookup"
    /\ req' = [req EXCEPT ![r].asked = FALSE]
    /\ UNCHANGED <<stores, capture, backfill>>

-----------------------------------------------------------------------------
(* The collapse: hot bytes, a prefetch of the page that lands while the request
   waits for it, or the background's cache. The lookup is made without the Range
   header. *)

Collapsing(r) ==
    req[r].pc \in {"collapse", "join"} \/ On(r, "collapse")

CollapseSources(r) ==
    {[bytes |-> b, cached |-> TRUE] : b \in {hot[Key(r)], disk[Key(r)]} \ {None}}
    \cup {[bytes |-> Right(Key(r)), cached |-> FALSE]}

(* tryCollapseOntoInflightPrefetch: the answer is always a 200. *)
FetchCollapses(r) ==
    /\ r \in Fetches /\ Collapsing(r)
    /\ \E from \in CollapseSources(r) :
          /\ Served(r, from.bytes, 200)
          /\ hot' = Put(hot, Key(r), from.bytes)
    /\ UNCHANGED <<disk, capture, backfill>>

(* deliverCollapsedXhr: bytes that came over the wire are stored once per key,
   and none are kept for an open range. *)
XhrCollapses(r) ==
    /\ r \in Xhrs /\ Collapsing(r)
    /\ \E from \in CollapseSources(r) :
          /\ Served(r, from.bytes, CachedStatus(r))
          /\ IF req[r].range = "open"
             THEN hot' \in {hot, Put(hot, "url", from.bytes)} /\ UNCHANGED backfill
             ELSE /\ hot' = Put(hot, Key(r), from.bytes)
                  /\ backfill' = IF ~from.cached /\ backfill[Key(r)] = None
                                 THEN Put(backfill, Key(r), from.bytes) ELSE backfill
    /\ UNCHANGED <<disk, capture>>

(* No wire, an empty one, or the wait is over. A joined wire that failed leads to
   the ladder unless the XHR was aborted meanwhile. *)
CollapseEnds(r) ==
    /\ Collapsing(r)
    /\ \/ req[r].pc = "collapse" /\ Goes(r, "native")
       \/ /\ req[r].pc = "join" /\ req[r].cut = "no"
          /\ Climbs(r, 4, FALSE)
       \/ req[r].pc = "join" /\ req[r].cut # "no" /\ Ends(r)
       \/ req[r].pc = "ladder" /\ Misses(r)
    /\ UNCHANGED <<stores, capture, backfill>>

-----------------------------------------------------------------------------
(* The other stages of the ladder. *)

BeltHolds(r) ==
    /\ On(r, "belt")
    /\ CacheHits(r)
    /\ Served(r, disk[Key(r)], CachedStatus(r))
    /\ hot' = Put(hot, Key(r), disk[Key(r)])
    /\ UNCHANGED <<disk, capture, backfill>>

BeltMisses(r) ==
    /\ On(r, "belt")
    /\ Misses(r)
    /\ UNCHANGED <<stores, capture, backfill>>

(* A faulty LadderEnds: an aborted XHR is not sent, and nobody is told. *)
LadderEndsUncut(r) ==
    /\ req[r].pc = "ladder" /\ req[r].rung = Top /\ req[r].cut = "no"
    /\ req' = [req EXCEPT ![r].pc = "native", ![r].taps = TRUE]
    /\ UNCHANGED <<stores, capture, backfill>>

(* sendAuthorizedNativeNetwork. *)
LadderEnds(r) ==
    /\ req[r].pc = "ladder" /\ req[r].rung = Top
    /\ req' = [req EXCEPT ![r].pc = "native", ![r].taps = TRUE]
    /\ UNCHANGED <<stores, capture, backfill>>

(* xhr.abort while send is held back: while the lookup is out, or while a wire is
   joined, the events are made up; later the ladder goes on regardless. *)
XhrAborts(r) ==
    /\ r \in Xhrs /\ req[r].cut = "no"
    /\ \/ /\ req[r].pc = "lookup"
          /\ req' = [req EXCEPT ![r].pc = "done", ![r].cut = "lookup"]
       \/ /\ req[r].pc = "join"
          /\ req' = [req EXCEPT ![r].cut = "join"]
       \/ /\ req[r].pc = "ladder"
          /\ req' = [req EXCEPT ![r].cut = "ladder"]
       \/ /\ req[r].pc \in {"native", "native again"}
          /\ req' = [req EXCEPT ![r].pc = "done", ![r].cut = "native"]
    /\ UNCHANGED <<stores, capture, backfill>>

-----------------------------------------------------------------------------
(* The network. *)

(* What is written back: the tee of a fetch, whatever it answered; of an XHR what
   is complete under its key, once (captureXhrResponseSync, the load handler). *)
Captures(r, bytes) ==
    IF r \in Fetches \/ Key(r) = "range" \/ StatusOf(req[r].range, bytes) = 200
    THEN [capture EXCEPT ![r] = [key |-> Key(r), bytes |-> bytes, read |-> r \in Xhrs]]
    ELSE capture

NativeAnswers(r) ==
    /\ req[r].pc \in {"native", "extension"}
    /\ \E bytes \in Answers(req[r].range) :
          /\ Served(r, bytes, StatusOf(req[r].range, bytes))
          /\ capture' = IF r \in Fetches \/ req[r].taps THEN Captures(r, bytes) ELSE capture
    /\ UNCHANGED <<stores, backfill>>

(* Nothing is written back of a request the page let through, of the one retry of
   aegisFetch, and of an answer that is not ok. *)
AnswersUntapped(r) ==
    /\ req[r].pc = "native again"
    /\ \E bytes \in Answers(req[r].range) : Served(r, bytes, StatusOf(req[r].range, bytes))
    /\ UNCHANGED <<stores, capture, backfill>>

(* A failed fetch goes to the extension, whose metadata are awaited for 8 s, and
   at last to one native retry. *)
NativeFails(r) ==
    /\ \/ req[r].pc = "native" /\ r \in Fetches /\ Goes(r, "extension")
       \/ req[r].pc = "extension" /\ Goes(r, "native again")
       \/ req[r].pc = "native" /\ r \in Xhrs /\ Ends(r)
       \/ req[r].pc = "native again" /\ Ends(r)
    /\ UNCHANGED <<stores, capture, backfill>>

(* cacheNetworkStreamInBackground: the second stream is read, its bytes become
   hot and then go to the background; an XHR's bytes only do the latter. *)
CaptureReads(r) ==
    /\ capture[r] # Idle /\ ~capture[r].read
    /\ \/ /\ capture' = [capture EXCEPT ![r].read = TRUE]
          /\ hot' = Put(hot, capture[r].key, capture[r].bytes)
       \/ capture' = [capture EXCEPT ![r] = Idle] /\ UNCHANGED hot
    /\ UNCHANGED <<req, disk, backfill>>

CaptureStores(r) ==
    /\ capture[r] # Idle /\ capture[r].read
    /\ capture' = [capture EXCEPT ![r] = Idle]
    /\ disk' \in {disk, Put(disk, capture[r].key, capture[r].bytes)}
    /\ UNCHANGED <<req, hot, backfill>>

BackfillEnds(k) ==
    /\ backfill[k] # None
    /\ backfill' = Put(backfill, k, None)
    /\ disk' \in {disk, Put(disk, k, backfill[k])}
    /\ UNCHANGED <<req, hot, capture>>

-----------------------------------------------------------------------------
(* The prefetch queue, limits, expiry, eviction: what others do to the stores. *)

PrefetchLands(k) ==
    /\ hot' = Put(hot, k, Right(k))
    /\ disk' \in {disk, Put(disk, k, Right(k))}
    /\ UNCHANGED <<req, capture, backfill>>

Forgets(k) ==
    /\ \/ hot[k] # None /\ hot' = Put(hot, k, None) /\ UNCHANGED disk
       \/ disk[k] # None /\ disk' = Put(disk, k, None) /\ UNCHANGED hot
    /\ UNCHANGED <<req, capture, backfill>>

-----------------------------------------------------------------------------
PlayerInit ==
    /\ req = [r \in Requests |-> Fresh]
    /\ hot = [k \in CacheKeys |-> None]
    /\ disk \in [CacheKeys -> {None}] \cup {[k \in CacheKeys |-> Right(k)]}
    /\ capture = [r \in Requests |-> Idle]
    /\ backfill = [k \in CacheKeys |-> None]

(* Replies in time, timers and the network: what ends a request's wait. *)
Proceeds(r) ==
    \/ FetchLookupMisses(r) \/ XhrLookupTimesOut(r) \/ CollapseEnds(r)
    \/ BeltMisses(r) \/ LadderEnds(r) \/ NativeFails(r)

PlayerNext ==
    \/ \E r \in Requests :
          \/ \E range \in Ranges : FetchBegins(r, range) \/ XhrBegins(r, range)
          \/ Proceeds(r)
          \/ FetchLookupHits(r) \/ XhrLookupHits(r) \/ XhrLookupMisses(r) \/ XhrLookupArrivesLate(r)
          \/ FetchCollapses(r) \/ XhrCollapses(r) \/ BeltHolds(r) \/ XhrAborts(r)
          \/ NativeAnswers(r) \/ AnswersUntapped(r) \/ CaptureReads(r) \/ CaptureStores(r)
    \/ \E k \in CacheKeys :
          PrefetchLands(k) \/ Forgets(k) \/ BackfillEnds(k)

(* The page's timers run and the browser ends every request it has sent. *)
PlayerSpec ==
    /\ PlayerInit /\ [][PlayerNext]_playerVars
    /\ \A r \in Requests : WF_playerVars(Proceeds(r))

-----------------------------------------------------------------------------
(* The state stays in its declared sets. *)
PlayerTypeOK ==
    /\ req \in [Requests -> [pc : Pcs, range : Ranges, rung : 1 .. Top, asked : BOOLEAN,
                             taps : BOOLEAN, cut : {"no", "lookup", "join", "ladder", "native"},
                             loads : Nat, bytes : Bytes \cup {None}, status : {0, 200, 206}]]
    /\ hot \in [CacheKeys -> Bytes \cup {None}] /\ disk \in [CacheKeys -> Bytes \cup {None}]
    /\ capture \in [Requests -> [key : CacheKeys \cup {None}, bytes : Bytes \cup {None}, read : BOOLEAN]]
    /\ backfill \in [CacheKeys -> Bytes \cup {None}]

(* A request gets the bytes it asked for, or the whole object with a 200. *)
RightBytes ==
    \A r \in Requests :
        req[r].bytes # None =>
            \/ req[r].bytes = Named(req[r].range)
            \/ req[r].bytes = "whole" /\ req[r].status = 200

(* xhr.js:943-1080: reply, timer, abort, join and ladder compete for one XHR. It
   hears one answer at most, and none once it was aborted with its lookup out. *)
HeardOnce ==
    \A r \in Requests : req[r].loads <= (IF req[r].cut = "lookup" THEN 0 ELSE 1)

(* xhr.js:953-955: "so the player is never left hanging": every request ends,
   though no reply of the background and no wire is ever sure to come. *)
EveryRequestEnds ==
    \A r \in Requests : req[r].pc # "new" ~> req[r].pc = "done"
=============================================================================
