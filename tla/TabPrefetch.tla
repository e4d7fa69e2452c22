---------------------------- MODULE TabPrefetch ----------------------------
(* The prefetch scheduler of one tab (src/background/prefetch) and the page it       *)
(* delegates to. Every schedule first replaces the tab's state object by a new one   *)
(* built from the playlist it was given (upsertPlaylistState); timers keep the       *)
(* object they were armed on. Segments in flight are marked by the key they are      *)
(* coalesced under, and the marks outlive the objects.                               *)
(*                                                                                   *)
(* The playhead stays at the head of the playlist. Left out: entries a lookup keeps  *)
(* pinned, the settings toggle, the frame the player lives in and the shares of      *)
(* several tabs. The page's own queue is the module PagePrefetch; here the page is   *)
(* what it holds, the generation it is at and the skips it still has to report.      *)
EXTENDS Integers, FiniteSets, Sequences

CONSTANTS
    Urls, SegmentKeys,
    Playlists,       \* the media playlists the tab may be given
    KeyOf,           \* the key a URL is coalesced under, whatever its token
    Segs,            \* the segments of a playlist
    Near,            \* those of the urgent window
    Episode,         \* what a playlist plays: two may differ in tokens only
    Runways,         \* the runways the page may report
    Asking,          \* the sources that ask for a schedule
    Objects,         \* ids of tab state objects, 1 .. n: those that nothing holds are reused
    GlobalCap,       \* segments in flight at once
    BatchCap,        \* segments of one batch
    MaxGen,          \* bound: playback generations
    MaxLine,         \* bound: messages under way to the page
    MaxStrays,       \* bound: flush timers whose batch is gone
    None

ASSUME TabAssumption ==
    /\ Objects \subseteq Nat \ {0}
    /\ {MaxGen, MaxLine, MaxStrays} \subseteq Nat
    /\ KeyOf \in [Urls -> SegmentKeys]
    /\ Segs \in [Playlists -> SUBSET Urls]
    /\ \A pl \in Playlists : Near[pl] \subseteq Segs[pl]
    /\ None \notin [urls : SUBSET Urls, gen : 0 .. MaxGen]

VARIABLES
    bg,              \* the background
    page,            \* the page
    line             \* messages under way to the page, in order
tabVars == <<bg, page, line>>

Span(f) == {f[x] : x \in DOMAIN f}
KeysOf(us) == {KeyOf[u] : u \in us}

(* A delegation from these sources waits to be coalesced and never ends what the page
   is fetching; every other source, speculation included, is sent at once. *)
Soft(src) == src \in {"chunk-observed", "captured-playlist", "buffer-load-push",
                      "visibility-resume", "bridge-ready", "teleport-mode-retained"}

prefetchSourcePriority(src) ==
    CASE src = "buffer-load-push" -> 92
      [] src = "teleport-mode" -> 90
      [] src = "captured-playlist" -> 36
      [] src = "chunk-observed" -> 30
      [] OTHER -> 40

-----------------------------------------------------------------------------
(* The background's record: the live object, 0 for none; the objects; the flush timers
   that outlived their batch; the debounced request; the marks; keys in failure
   cooldown; cached keys; objects a completed fetch armed the depth timer on; and, as
   history, marked keys whose delegation is known to be gone. *)
Blank == [pl |-> None, gen |-> 0, asleep |-> "no", runway |-> "unknown",
          batch |-> None, cap |-> None, retry |-> None, holds |-> 0]

FreshBackground(cached) ==
    [live |-> 0, obj |-> [o \in Objects |-> Blank], strays |-> 0, debounce |-> None,
     marks |-> [k \in SegmentKeys |-> None], failed |-> {}, cached |-> cached, depth |-> {},
     lost |-> {}, forgot |-> FALSE]

FreshPage == [gen |-> 0, holds |-> {}, skips |-> {}]

TabInit ==
    /\ bg = FreshBackground({})
    /\ page = FreshPage
    /\ line = <<>>

TabTypeOK ==
    /\ bg.live \in Objects \cup {0}
    /\ bg.strays \in 0 .. MaxStrays
    /\ \A o \in Objects : bg.obj[o].gen \in 0 .. MaxGen
    /\ page.gen \in 0 .. MaxGen
    /\ Len(line) <= MaxLine

Marked(b) == {k \in SegmentKeys : b.marks[k] # None}
Inflight(b) == {k \in Marked(b) : b.marks[k].fresh}
Live(b) == b.obj[b.live]
Segments(b) == IF b.live = 0 \/ Live(b).pl = None THEN {} ELSE Segs[Live(b).pl]
Urgent(b) == IF b.live = 0 \/ Live(b).pl = None THEN {} ELSE Near[Live(b).pl]

Release(b, ks) ==
    [b EXCEPT !.marks = [k \in SegmentKeys |-> IF k \in ks THEN None ELSE @[k]],
              !.lost = @ \ ks]

(* Entries past their time to live go when somebody prunes; until then they only fill
   the cap. *)
Pruned(b) == Release(b, Marked(b) \ Inflight(b))

Lose(b, us) == [b EXCEPT !.lost = @ \cup (KeysOf(us) \cap Marked(b))]

(* An object is gone when no map, timer or message names it any more; of one that was
   replaced, only what its timers read matters. *)
Referenced(b, ms) ==
    {b.live} \cup b.depth
    \cup {o \in Objects : b.obj[o].cap # None \/ b.obj[o].retry # None}
    \cup {m.by : m \in {n \in Span(ms) : n.type = "prefetch"}}
Swept(b, ms) ==
    LET kept == Referenced(b, ms)
        handle(o) == LET t == b.obj[o].holds
                     IN  IF t # 0 /\ b.obj[t].retry # None THEN t ELSE 0
        timed(o) == b.obj[o].cap # None \/ b.obj[o].retry # None
        tidy(o) == CASE o = b.live -> [b.obj[o] EXCEPT !.holds = handle(o)]
                     [] o # b.live /\ timed(o) ->
                           [b.obj[o] EXCEPT !.holds = handle(o), !.batch = None,
                                            !.asleep = "no", !.runway = "unknown"]
                     [] o # b.live /\ o \in kept /\ ~timed(o) ->
                           [Blank EXCEPT !.gen = b.obj[o].gen, !.pl = b.obj[o].pl]
                     [] OTHER -> Blank
    IN  [b EXCEPT !.obj = [o \in Objects |-> tidy(o)]]

-----------------------------------------------------------------------------
(* Steps of the background within one handler. Each takes and gives a pair <<b, out>>:
   the record and the messages posted so far. *)
Cancel(gen) == [type |-> "cancel", gen |-> gen]
Prefetch(us, gen, counted, by, src) ==
    [type |-> "prefetch", urls |-> us, gen |-> gen, counted |-> counted, by |-> by,
     src |-> src]

(* A faulty bump: the page is told of a generation nobody keeps. *)
UnrecordedBump(s, o) == <<s[1], Append(s[2], Cancel(s[1].obj[o].gen + 1))>>
bumpPlaybackGeneration(s, o) ==
    LET next == s[1].obj[o].gen + 1
    IN  <<[s[1] EXCEPT !.obj[o].gen = next], Append(s[2], Cancel(next))>>

(* The bump, or none while a seek or scrub throttles it. *)
Bumps(s, o) ==
    {s} \cup (IF s[1].obj[o].gen < MaxGen THEN {bumpPlaybackGeneration(s, o)} ELSE {})

clearPrefetchCapRetry(b, o) == [b EXCEPT !.obj[o].cap = None]
clearPrefetchInflightRetry(b, o) ==
    LET t == b.obj[o].holds
    IN  IF t = 0 THEN b ELSE [b EXCEPT !.obj[t].retry = None, !.obj[o].holds = 0]
dropStalePrefetchWork(b, o) ==
    IF o = 0 THEN b ELSE clearPrefetchInflightRetry(clearPrefetchCapRetry(b, o), o)

Old(b) == IF b.live = 0 THEN Blank ELSE Live(b)

Retired(b) ==
    IF Old(b).batch = None THEN b
    ELSE [Lose(b, Old(b).batch.urls) EXCEPT !.strays = @ + 1, !.obj[b.live].batch = None]

Entered(b, n, pl) ==
    [Retired(b) EXCEPT
        !.live = n,
        !.obj[n] = [Blank EXCEPT !.pl = pl, !.gen = Old(b).gen, !.holds = Old(b).holds]]

(* The object is replaced. It takes the generation and the handle of the in-flight retry
   along; not the batch waiting to be coalesced, whose timer stays armed, nor the cap
   retry, the sleep of a hidden tab or the runway. Another episode ends what the page
   fetches; a rotated playlist is forgiven its failures, and its marks go with them,
   unless the refresh is routine. *)
upsertPlaylistState(s, pl) ==
    LET free == Objects \ Referenced(s[1], line \o s[2])
        n == CHOOSE o \in free : TRUE
        old == Old(s[1]).pl
        enter(t) == <<Entered(t[1], n, pl), t[2]>>
        forgiven(t, ks) ==
            <<Release([t[1] EXCEPT !.failed = @ \ KeysOf(Segs[old])], ks), t[2]>>
    IN  CASE free = {} -> {}
          [] free # {} /\ old \in {None, pl} -> {enter(s)}
          [] free # {} /\ old \notin {None, pl} /\ Episode[old] = Episode[pl] ->
                {enter(s), enter(forgiven(s, KeysOf(Segs[old])))}
          [] OTHER -> {enter(forgiven(t, SegmentKeys)) : t \in Bumps(s, s[1].live)}

(* The page is asked to fetch. What a soft source asks for waits to be merged with what
   comes next; any other is sent at once, and first clears what is waiting, unsent. *)
CoalesceDelegate(s, us) ==
    LET b == s[1]
        waiting == Live(b).batch
        merges == waiting # None /\ waiting.gen = Live(b).gen
        b1 == IF waiting = None \/ merges THEN b ELSE Lose(b, waiting.urls)
    IN  <<[b1 EXCEPT !.obj[b.live].batch =
                [urls |-> us \cup (IF merges THEN waiting.urls ELSE {}),
                 gen |-> Live(b).gen]], s[2]>>

DirectDelegates(s, us, counted, by, src) ==
    LET b == s[1]
        b1 == IF Live(b).batch = None THEN b
              ELSE [Lose(b, Live(b).batch.urls) EXCEPT !.obj[b.live].batch = None]
        aborted(t) == IF t[1].obj[b.live].gen = Live(b).gen THEN t
                      ELSE <<Release(t[1], SegmentKeys), t[2]>>
        send(t) == <<t[1], Append(t[2], Prefetch(us, Live(t[1]).gen, counted, by, src))>>
    IN  {send(aborted(t)) : t \in Bumps(<<b1, s[2]>>, b.live)}

ArmCapRetry(b, o, src) == [b EXCEPT !.obj[o].cap = [src |-> src, gen |-> b.obj[o].gen]]
ArmInflightRetry(b, o, src) ==
    LET b1 == clearPrefetchInflightRetry(b, o)
    IN  [b1 EXCEPT !.obj =
            [x \in Objects |->
                IF x = o THEN [b1.obj[o] EXCEPT !.retry = [src |-> src, gen |-> b1.obj[o].gen],
                                                !.holds = o]
                ELSE IF b1.obj[x].holds = o THEN [b1.obj[x] EXCEPT !.holds = 0]
                ELSE b1.obj[x]]]

-----------------------------------------------------------------------------
(* A pass over the playlist of the object just made: what is neither cached, nor in
   flight, nor cooling down is cut to the slots left, marked and delegated. A delegation
   that waits counts as done, so what was left over is retried; one sent at once is
   retried when the page has answered. *)
Targets(b, src) == IF src = "depth-fill" THEN Segments(b) ELSE Urgent(b)
Uncached(b, src) == {u \in Targets(b, src) : KeyOf[u] \notin b.cached}
Busy(b, src) == {u \in Uncached(b, src) : KeyOf[u] \in Inflight(b)}
Open(b, src) ==
    {u \in Uncached(b, src) : KeyOf[u] \notin Inflight(b) /\ KeyOf[u] \notin b.failed}

Slots(b) ==
    LET left == GlobalCap - Cardinality(Marked(b))
    IN  IF left < 0 THEN 0 ELSE IF left < BatchCap THEN left ELSE BatchCap

Batches(b, src) ==
    LET open == Open(b, src)
        n == IF Slots(b) < Cardinality(open) THEN Slots(b) ELSE Cardinality(open)
    IN  {us \in SUBSET open : Cardinality(us) = n}

MarkInflight(b, us, src) ==
    [b EXCEPT !.marks = [k \in SegmentKeys |->
                            IF k \in KeysOf(us) THEN [deep |-> src = "depth-fill", fresh |-> TRUE] ELSE @[k]],
              !.lost = @ \ KeysOf(us)]

Pass(s, src, isRetry) ==
    LET b == s[1]
        o == b.live
        scheduled(us) ==
            LET b1 == MarkInflight(clearPrefetchInflightRetry(b, o), us, src)
                more == us # Open(b, src)
                t == CoalesceDelegate(<<b1, s[2]>>, us)
            IN  IF Soft(src)
                THEN {<<IF more THEN ArmCapRetry(t[1], o, src) ELSE t[1], t[2]>>}
                ELSE DirectDelegates(<<b1, s[2]>>, us, TRUE, IF more THEN o ELSE 0, src)
        nothing == IF Busy(b, src) # {} /\ Open(b, src) # {} /\ ~isRetry
                   THEN {<<ArmInflightRetry(b, o, src), s[2]>>} ELSE {s}
    IN  UNION {IF us = {} THEN nothing ELSE scheduled(us) : us \in Batches(b, src)}

(* The depth lane's two licences: every urgent segment is held and nothing is in flight;
   and the runway, as the object knows it, is healthy. *)
Deeper(b) == Segments(b) # {} /\ Urgent(b) # Segments(b)
StandingStart(b) == Deeper(b) /\ Uncached(b, "schedule") = {} /\ Marked(b) = {}

maybeScheduleDepthFill(s) ==
    IF /\ Deeper(s[1])
       /\ Live(s[1]).runway = "healthy"
       /\ Marked(s[1]) = {}
    THEN UNION {Pass(e, "depth-fill", FALSE) : e \in upsertPlaylistState(s, Live(s[1]).pl)}
    ELSE {}

(* A tab asleep schedules nothing, nor does one that warms up; any other replaces its
   object before the remaining gates may refuse. *)
schedulePrefetch(s, pl, src, isRetry) ==
    LET entered == upsertPlaylistState(s, pl)
    IN  IF s[1].live # 0 /\ Live(s[1]).asleep = "sleeping" THEN {s}
        ELSE {s} \cup entered
             \cup UNION {Pass(e, src, isRetry)
                         \cup (IF src # "depth-fill" /\ StandingStart(e[1])
                               THEN maybeScheduleDepthFill(e) ELSE {}) : e \in entered}

(* A request waits out a debounce; one of lower priority than what waits is dropped.
   Found stale, it ends the timer of what waits but not its entry, and the retries. *)
requestPrefetchForTab(b, src) ==
    LET d == b.debounce
        asks == [pl |-> Live(b).pl, gen |-> Live(b).gen, src |-> src, armed |-> TRUE]
        stale == [b EXCEPT !.debounce = IF d = None THEN None ELSE [d EXCEPT !.armed = FALSE]]
        outranked == d # None /\ prefetchSourcePriority(src) < prefetchSourcePriority(d.src)
    IN  IF src \notin Asking \/ Segments(b) = {} \/ Live(b).asleep = "sleeping" \/ outranked
        THEN {b}
        ELSE {b, [b EXCEPT !.debounce = asks],
              dropStalePrefetchWork(stale, b.live)}

updatePrefetchOutcome(b, u, ok) ==
    LET done == Release(b, {KeyOf[u]})
    IN  IF ok THEN [done EXCEPT !.failed = @ \ {KeyOf[u]}]
        ELSE [done EXCEPT !.failed = @ \cup {KeyOf[u]}]

-----------------------------------------------------------------------------
(* What a handler leaves behind. *)
Becomes(outcomes, rest) ==
    \E s \in outcomes :
        /\ Len(rest \o s[2]) <= MaxLine
        /\ s[1].strays <= MaxStrays
        /\ line' = rest \o s[2]
        /\ bg' = Swept(s[1], line')

Quietly(bs) == Becomes({<<b, <<>>>> : b \in bs}, line)

(* A playlist is captured: the object is replaced, and more is asked for, from the
   playhead when it is known and at once when it is not. *)
Capture(pl, src) ==
    /\ Becomes(UNION {{<<b, e[2]>> : b \in requestPrefetchForTab(e[1], src)} :
                      e \in upsertPlaylistState(<<bg, <<>>>>, pl)}, line)
    /\ UNCHANGED page

ChunkObserved ==
    /\ bg.live # 0
    /\ Quietly(requestPrefetchForTab(bg, "chunk-observed"))
    /\ UNCHANGED page

(* A jump of the playhead schedules at once. A far one first ends what is under way,
   unless it has just done so. *)
enterTeleportMode(src) ==
    LET forgiven(b) == [b EXCEPT !.failed = @ \ KeysOf(Segments(b)), !.debounce = None]
        purge(t) == <<Release(dropStalePrefetchWork(forgiven(t[1]), bg.live), SegmentKeys), t[2]>>
        ended == IF src = "teleport-mode" THEN {purge(t) : t \in Bumps(<<bg, <<>>>>, bg.live)} ELSE {}
    IN  /\ Segments(bg) # {}
        /\ Becomes(UNION {schedulePrefetch(t, Live(bg).pl, src, FALSE) : t \in {<<bg, <<>>>>} \cup ended}, line)
        /\ UNCHANGED page

(* The rung the player may switch to is fetched ahead; nothing is marked. *)
Speculate ==
    /\ Segments(bg) # {}
    /\ Live(bg).asleep # "sleeping"
    /\ Becomes(DirectDelegates(<<bg, <<>>>>, {}, FALSE, 0, "speculative-rung"), line)
    /\ UNCHANGED page

(* The page reports its runway; a low one asks for more, and may ask at once. *)
updateTabBufferHealth(r) ==
    LET n == CHOOSE o \in Objects \ Referenced(bg, line) : TRUE
        b == IF bg.live # 0 THEN bg ELSE [bg EXCEPT !.live = n]
        known == [b EXCEPT !.obj[b.live].runway = r]
        pushed == IF r = "low" THEN requestPrefetchForTab(known, "buffer-load-push") ELSE {known}
        rescued == IF r = "low" /\ Segments(b) # {}
                   THEN {CoalesceDelegate(<<p, <<>>>>, Urgent(p)) : p \in pushed} ELSE {}
    IN  /\ bg.live # 0 \/ Objects \ Referenced(bg, line) # {}
        /\ Becomes({<<p, <<>>>> : p \in pushed} \cup rescued, line)
        /\ UNCHANGED page

DebounceFires ==
    LET d == bg.debounce
        b == [bg EXCEPT !.debounce = None]
        stale == b.live # 0 /\ d.gen # Live(b).gen
    IN  /\ d # None /\ d.armed
        /\ Becomes({<<dropStalePrefetchWork(b, b.live), <<>>>>}
                   \cup (IF stale THEN {} ELSE schedulePrefetch(<<b, <<>>>>, d.pl, d.src, FALSE)), line)
        /\ UNCHANGED page

(* A retry fires for the object it was armed on, replaced or not, and schedules the
   playlist of that object, unless its generation moved on or it waited too long. *)
RetryFires(o, timer, b, isRetry) ==
    /\ timer # None
    /\ Becomes({<<dropStalePrefetchWork(b, o), <<>>>>}
               \cup (IF timer.gen # bg.obj[o].gen THEN {}
                     ELSE schedulePrefetch(<<b, <<>>>>, bg.obj[o].pl, timer.src, isRetry)), line)
    /\ UNCHANGED page

CapRetryFires(o) == RetryFires(o, bg.obj[o].cap, [bg EXCEPT !.obj[o].cap = None], FALSE)
InflightRetryFires(o) ==
    RetryFires(o, bg.obj[o].retry, [bg EXCEPT !.obj[o].retry = None], TRUE)

(* A flush sends what waits on the live object, whichever batch it was armed for; whether
   the page got it is nobody's business. *)
flushPendingDelegatePrefetch(b) ==
    IF b.live = 0 \/ Live(b).batch = None THEN <<b, <<>>>>
    ELSE <<[b EXCEPT !.obj[b.live].batch = None],
           <<Prefetch(Live(b).batch.urls, Live(b).gen, FALSE, 0, "flush")>>>>

FlushFires ==
    /\ bg.live # 0 /\ Live(bg).batch # None
    /\ Becomes({flushPendingDelegatePrefetch(bg)}, line)
    /\ UNCHANGED page

StrayFlushFires ==
    /\ bg.strays > 0
    /\ Becomes({flushPendingDelegatePrefetch([bg EXCEPT !.strays = @ - 1])}, line)
    /\ UNCHANGED page

(* The timer a completed fetch armed: a tab whose object was replaced since is left
   alone. *)
DepthTimerFires(o) ==
    LET b == [bg EXCEPT !.depth = @ \ {o}]
    IN  /\ o \in bg.depth
        /\ Becomes({<<b, <<>>>>} \cup (IF b.live # o THEN {}
                                       ELSE maybeScheduleDepthFill(<<b, <<>>>>)), line)
        /\ UNCHANGED page

-----------------------------------------------------------------------------
(* The page. *)
(* A message and the background's handling of its reply are one step: nothing the page
   does later depends on the reply, and what the background does in between only adds to
   what the reply finds. *)
CancelDelivered ==
    /\ line # <<>> /\ Head(line).type = "cancel"
    /\ \E keep \in SUBSET page.holds :
          page' = [page EXCEPT !.gen = IF Head(line).gen = None THEN @ ELSE Head(line).gen,
                               !.holds = keep,
                               !.skips = @ \cup (page.holds \ keep)]
    /\ Becomes({<<bg, <<>>>>}, Tail(line))

Delegated(m) == IF m.by = 0 THEN bg ELSE ArmCapRetry(bg, m.by, m.src)

(* A batch of an older generation is refused without a word. A newer one first ends what
   the page fetches, save what others wait for. *)
prefetchSegmentsFromPage ==
    LET m == Head(line)
    IN  /\ line # <<>> /\ m.type = "prefetch"
        /\ IF m.gen < page.gen
           THEN /\ UNCHANGED page
                /\ Becomes({<<Lose(Delegated(m), m.urls), <<>>>>}, Tail(line))
           ELSE /\ \E keep \in IF m.gen > page.gen THEN SUBSET page.holds ELSE {page.holds},
                      visible \in BOOLEAN, active \in SUBSET (page.holds \cap m.urls) :
                      /\ active \subseteq keep
                      /\ page' = [page EXCEPT
                            !.gen = m.gen,
                            !.holds = IF visible THEN keep \cup m.urls ELSE keep,
                            !.skips = @ \cup (page.holds \ keep)
                                        \cup (IF visible THEN active ELSE m.urls)]
                /\ Becomes({<<Delegated(m), <<>>>>}, Tail(line))

(* A faulty failure: what the tab did not get stays marked. *)
LostUnnoticed ==
    /\ line # <<>>
    /\ Becomes({<<IF Head(line).type = "cancel" \/ Head(line).counted THEN bg
                  ELSE Lose(bg, Head(line).urls), <<>>>>}, Tail(line))
    /\ UNCHANGED page

(* The tab has nobody listening. *)
MessageLost ==
    LET m == Head(line)
        failed == [Release(bg, KeysOf(m.urls)) EXCEPT !.failed = @ \cup KeysOf(m.urls)]
    IN  /\ line # <<>>
        /\ Becomes({<<CASE m.type = "cancel" -> bg
                       [] m.type = "prefetch" /\ m.counted -> failed
                       [] OTHER -> Lose(bg, m.urls), <<>>>>}, Tail(line))
        /\ UNCHANGED page

PageReports(u) ==
    /\ u \in page.skips
    /\ page' = [page EXCEPT !.skips = @ \ {u}]
    /\ Quietly({updatePrefetchOutcome(bg, u, TRUE)})

(* What the page stops holding without a word: a URL trimmed off its queue, one whose
   fetch threw, which the coalescer turns into a settled wire before any catch of the
   page's own could report it, or one that joined a wire and is not the URL it reports. *)
PageDrops(u) ==
    /\ u \in page.holds
    /\ page' = [page EXCEPT !.holds = @ \ {u}]
    /\ Quietly({Lose(bg, {u})})

(* A fetch ends and its result reaches the background, which forgets it when the page is
   at another generation. A segment fetched by anything but a depth pass arms the depth
   timer on the object of the moment; where there is nothing beyond the urgent window the
   timer would decline and is left out. *)
PageFinishes(u, ok) ==
    LET k == KeyOf[u]
        stale == bg.live # 0 /\ page.gen # Live(bg).gen
        done == updatePrefetchOutcome(bg, u, ok \/ stale \/ k \in bg.cached)
        held == IF ok THEN [done EXCEPT !.cached = @ \cup {k}] ELSE done
        deepens == /\ ok /\ ~stale /\ Deeper(bg) /\ k \in KeysOf(Segments(bg))
                   /\ bg.marks[k] = None \/ ~bg.marks[k].deep
    IN  /\ u \in page.holds
        /\ page' = [page EXCEPT !.holds = @ \ {u}]
        /\ Quietly((IF deepens THEN {[held EXCEPT !.depth = @ \cup {bg.live}]} ELSE {})
                   \cup (IF deepens /\ bg.marks[k] # None THEN {} ELSE {held}))

-----------------------------------------------------------------------------
(* Time and the tab. *)
Age(k) ==
    /\ k \in Inflight(bg)
    /\ Quietly({[bg EXCEPT !.marks[k].fresh = FALSE]})
    /\ UNCHANGED page

pruneStaleInflightForTab ==
    /\ Marked(bg) # Inflight(bg)
    /\ Quietly({Pruned(bg)})
    /\ UNCHANGED page

CoolDown(k) ==
    /\ k \in bg.failed
    /\ Quietly({[bg EXCEPT !.failed = @ \ {k}]})
    /\ UNCHANGED page

pauseTabPrefetchForVisibility(sleep) ==
    LET b == [bg EXCEPT !.obj[bg.live].asleep = sleep, !.debounce = None]
    IN  /\ bg.live # 0 /\ Live(bg).asleep = "no"
        /\ sleep \in {"sleeping", "playing"}
        /\ Quietly({dropStalePrefetchWork(Pruned(b), bg.live)})
        /\ UNCHANGED page

resumeTabPrefetchForVisibility ==
    LET b == Pruned([bg EXCEPT !.obj[bg.live].asleep = "no"])
    IN  /\ bg.live # 0 /\ Live(bg).asleep # "no"
        /\ Quietly({b} \cup requestPrefetchForTab(b, "visibility-resume"))
        /\ UNCHANGED page

(* A fresh document: what was under way to the old one is lost first. *)
PageReloads ==
    /\ line = <<>> /\ page # FreshPage
    /\ page' = FreshPage
    /\ Quietly({[Lose(bg, page.holds \cup page.skips) EXCEPT !.forgot = FALSE]})

BridgeReady ==
    LET b == [bg EXCEPT !.debounce = None]
    IN  /\ bg.live # 0
        /\ Quietly({b} \cup requestPrefetchForTab(b, "bridge-ready"))
        /\ UNCHANGED page

(* The tab's state goes: the tab was left, not touched for ten minutes, or the cache is
   cleared. The page keeps its generation, the next object begins at none. *)
Forgotten(b) ==
    LET flushed == IF b.live = 0 \/ Live(b).batch = None THEN b
                   ELSE [Lose(b, Live(b).batch.urls) EXCEPT !.strays = @ + 1]
    IN  [flushed EXCEPT !.live = 0, !.debounce = None, !.forgot = TRUE]

handleTabNavigation ==
    LET b == [Release(bg, SegmentKeys) EXCEPT !.obj[bg.live].batch = None]
    IN  /\ bg.live # 0
        /\ Becomes({<<Forgotten(b), <<Cancel(None)>>>>}, line)
        /\ UNCHANGED page

pruneRuntimeState ==
    /\ bg.live # 0
    /\ Quietly({Forgotten(Pruned(bg))})
    /\ UNCHANGED page

ClearCache ==
    /\ Quietly({[Forgotten(Release(bg, SegmentKeys)) EXCEPT !.failed = {}, !.cached = {}]})
    /\ UNCHANGED page

(* The worker starts again: what it knew is gone, but the cache; replies still to come
   find nobody. *)
Restart ==
    /\ bg # FreshBackground(bg.cached)
    /\ line' = [i \in DOMAIN line |->
                   IF line[i].type = "cancel" THEN line[i]
                   ELSE [line[i] EXCEPT !.counted = FALSE, !.by = 0]]
    /\ bg' = [FreshBackground(bg.cached) EXCEPT !.forgot = TRUE]
    /\ UNCHANGED page

TabNext ==
    \/ \E pl \in Playlists, src \in {"captured-playlist", "captured-playlist-prime"} :
          Capture(pl, src)
    \/ ChunkObserved \/ Speculate
    \/ \E src \in {"teleport-mode", "teleport-mode-retained"} : enterTeleportMode(src)
    \/ \E r \in Runways : updateTabBufferHealth(r)
    \/ DebounceFires \/ FlushFires \/ StrayFlushFires
    \/ \E o \in Objects : CapRetryFires(o) \/ InflightRetryFires(o) \/ DepthTimerFires(o)
    \/ CancelDelivered \/ prefetchSegmentsFromPage \/ MessageLost
    \/ \E u \in Urls : PageReports(u) \/ PageDrops(u)
                     \/ PageFinishes(u, TRUE) \/ PageFinishes(u, FALSE)
    \/ \E k \in SegmentKeys : Age(k) \/ CoolDown(k)
    \/ \E sleep \in {"sleeping", "playing"} : pauseTabPrefetchForVisibility(sleep)
    \/ resumeTabPrefetchForVisibility \/ PageReloads \/ BridgeReady
    \/ pruneStaleInflightForTab \/ handleTabNavigation \/ pruneRuntimeState
    \/ ClearCache \/ Restart

TabSpec == TabInit /\ [][TabNext]_tabVars

-----------------------------------------------------------------------------
(* The page is never ahead of the background: a page ahead refuses every batch without a
   word (video.js:902), and the segments stay marked. Only a background that forgot the
   tab while its page lives on falls behind. *)
GenerationsAgree ==
    bg.live = 0 \/ bg.forgot \/ page.gen <= Live(bg).gen

(* A mark blocks its segment until it ages, so each is waited for: the segment waits to
   be delegated, is under way to the page, is held by it or about to be reported; or its
   delegation ended in one of the few ways nobody tells the background of: not sent,
   lost under way, refused as old, forgotten with the document or dropped by the page. *)
MarksAreAccountedFor ==
    Inflight(bg) \subseteq
        (IF bg.live = 0 \/ Live(bg).batch = None THEN {} ELSE KeysOf(Live(bg).batch.urls))
        \cup KeysOf(page.holds \cup page.skips) \cup bg.lost
        \cup UNION {KeysOf(m.urls) : m \in {n \in Span(line) : n.type = "prefetch"}}
=============================================================================
