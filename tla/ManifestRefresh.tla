-------------------------- MODULE ManifestRefresh ---------------------------
(***************************************************************************)
(* The refresh of one tab's playlist: when segment fetches are refused,    *)
(* background/prefetch/playlist/manifest-refresh.js asks the page for a    *)
(* fresh playlist, falls back on a fetch of its own (playlist-fetcher.js), *)
(* retries with a backoff, and after the last retry declares the tab       *)
(* auth_expired, from where a few probes try again. While it refreshes the *)
(* tab prefetches nothing.                                                 *)
(*                                                                         *)
(* The state of a tab is an object, state.playlistByTab.get(tabId), and    *)
(* upsertPlaylistState (playlist-state.js) replaces it by a new one, also  *)
(* in the middle of a refresh: every schedulePrefetch does. The callbacks  *)
(* of timers and the code after an await keep the object they began with.  *)
(***************************************************************************)
EXTENDS Naturals, FiniteSets

CONSTANTS
    Frames,      \* frames of the tab that fetch the playlist when asked
    MaxRetries,  \* MANIFEST_REFRESH_MAX_RETRIES
    MaxProbes,   \* AUTH_EXPIRED_SELF_HEAL_MAX_ATTEMPTS
    Target,      \* REFRESH_RECOVERY_SUCCESS_TARGET
    MaxObjects,  \* bound: state objects made
    MaxRequests  \* bound: requests for a refresh by the rest of the program

ASSUME RefreshAssumption ==
    /\ MaxRetries \in Nat \ {0} /\ Target \in Nat \ {0}
    /\ {MaxProbes, MaxObjects, MaxRequests} \subseteq Nat

VARIABLES
    made,        \* the state objects made are 1..made
    tab,         \* the one in playlistByTab, 0 if there is none
    obj,         \* the fields of each state object
    handle,      \* the timer each object has of each kind: the object that set it, or 0
    calls,       \* attempts awaiting the delegation: object and generation
    answers,     \* frames still fetching the playlist: generation and frame
    requests,    \* requests made
    causes       \* history: what may have stopped the tab since its last attempt

vars == <<made, tab, obj, handle, calls, answers, requests, causes>>

Objects == 1..MaxObjects
Kinds == {"timeout", "retry", "heal"}  \* manifestRefreshTimer, refreshRetryTimer, authSelfHealTimer

(* gen is both manifestGeneration and pendingManifestGeneration, which are bumped
   and carried together; charged: lastRetriedManifestGeneration is gen; warm:
   refreshRecoveryUntil lies ahead; wait: 2 while authBlockedUntil lies ahead,
   else 1 while lastManifestRefreshAt is less than the cooldown ago. *)
Fresh == [st |-> "healthy", gen |-> 0, attempt |-> 0, charged |-> FALSE, heal |-> 0,
          successes |-> 0, warm |-> FALSE, wait |-> 0]

(* Of an object that is no longer the tab's, nothing reads the other fields. *)
Retired(r) == [Fresh EXCEPT !.st = r.st, !.gen = r.gen, !.attempt = r.attempt, !.heal = r.heal]

Fields == [st : {"healthy", "refreshing", "recovering", "auth_expired"},
           gen : Nat, attempt : Nat, charged : BOOLEAN, heal : 0..MaxProbes,
           successes : 0..Target, warm : BOOLEAN, wait : 0..2]
Handles == [Kinds -> [Objects -> 0..MaxObjects]]

TypeOK ==
    /\ made \in 0..MaxObjects /\ tab \in 0..made
    /\ obj \in [Objects -> Fields]
    /\ handle \in Handles
    /\ calls \subseteq [by : Objects, gen : Nat]
    /\ answers \subseteq Nat \X Frames
    /\ requests \in 0..MaxRequests
    /\ causes \subseteq {"budget", "scrubbing", "replaced"}

Init ==
    /\ made = 0 /\ tab = 0
    /\ obj = [o \in Objects |-> Fresh]
    /\ handle = [k \in Kinds |-> [o \in Objects |-> 0]]
    /\ calls = {} /\ answers = {}
    /\ requests = 0 /\ causes = {}

-----------------------------------------------------------------------------
(* Timers. The object that set a timer holds its handle until the timer fires or
   is cleared, an object copied from it may hold the same handle. *)
Pending(k, o) == handle[k][o] = o

(* The timers of kinds K whose handles o holds, cleared. *)
Cleared(h, K, o) ==
    [k \in Kinds |-> IF k \in K
                     THEN [x \in Objects |-> IF h[k][x] = h[k][o] THEN 0 ELSE h[k][x]]
                     ELSE h[k]]

Armed(h, k, o) == [Cleared(h, {k}, o) EXCEPT ![k][o] = o]

(* transitionRefreshState of an object with the fields r. *)
Entered(r, s) ==
    CASE r.st = s -> r
      [] r.st # s /\ s = "healthy" ->
            [r EXCEPT !.st = s, !.attempt = 0, !.successes = 0, !.warm = FALSE]
      [] r.st # s /\ s = "recovering" ->
            [r EXCEPT !.st = s, !.attempt = 0, !.heal = 0, !.successes = 0, !.warm = TRUE]
      [] r.st # s /\ s = "auth_expired" -> [r EXCEPT !.st = s, !.wait = 2]
      [] r.st # s /\ s = "refreshing" -> [r EXCEPT !.st = s]

(* A faulty ClearedBy: the retry goes on. *)
ClearedByButRetry(r, s) ==
    IF r.st = s \/ s = "refreshing" THEN {}
    ELSE IF s = "auth_expired" THEN {"timeout"} ELSE {"timeout", "heal"}

(* The timers it clears. *)
ClearedBy(r, s) ==
    IF r.st = s \/ s = "refreshing" THEN {}
    ELSE IF s = "auth_expired" THEN {"timeout", "retry"} ELSE Kinds

(* A faulty MayProbe: one probe too few. *)
MayProbeLess(r) == r.heal + 1 < MaxProbes

MayProbe(r) == r.heal < MaxProbes

(* The retries are used up: auth_expired, and a probe while there are some left. *)
Expire(o, r, h) ==
    LET expired == [Entered(r, "auth_expired") EXCEPT !.attempt = @ + 1]
        stopped == Cleared(h, Kinds, o)
    IN
    /\ IF MayProbe(r)
       THEN /\ obj' = [obj EXCEPT ![o] = [expired EXCEPT !.heal = @ + 1]]
            /\ handle' = Armed(stopped, "heal", o)
       ELSE /\ obj' = [obj EXCEPT ![o] = expired]
            /\ handle' = stopped
    /\ causes' = causes \cup (IF o # tab THEN {"replaced"} ELSE {})
                        \cup (IF r.heal = MaxProbes THEN {"budget"} ELSE {})

(* scheduleRefreshRetry on the object o, given the fields r it has and the timers h. *)
Charge(o, r, h) ==
    CASE r.st # "refreshing" ->
            /\ obj' = [obj EXCEPT ![o] = r]
            /\ handle' = h
            /\ UNCHANGED causes
      [] r.st = "refreshing" /\ r.attempt < MaxRetries ->
            /\ obj' = [obj EXCEPT ![o] = [r EXCEPT !.attempt = @ + 1]]
            /\ handle' = Armed(h, "retry", o)
            /\ UNCHANGED causes
      [] r.st = "refreshing" /\ r.attempt >= MaxRetries -> Expire(o, r, h)

(* A faulty Attempt: the timeout is not armed. *)
AttemptUntimed(r, h) ==
    LET g == r.gen + 1 IN
    /\ obj' = [obj EXCEPT ![tab] = [Entered(r, "refreshing") EXCEPT !.gen = g, !.charged = FALSE,
                                                               !.wait = IF @ = 2 THEN 2 ELSE 1]]
    /\ handle' = Cleared(h, {"timeout"}, tab)
    /\ calls' = calls \cup {[by |-> tab, gen |-> g]}
    /\ causes' = {}

(* executeManifestRefreshAttempt up to its await, on the tab's object with fields
   r and timers h. *)
Attempt(r, h) ==
    LET g == r.gen + 1 IN
    /\ obj' = [obj EXCEPT ![tab] = [Entered(r, "refreshing") EXCEPT !.gen = g, !.charged = FALSE,
                                                               !.wait = IF @ = 2 THEN 2 ELSE 1]]
    /\ handle' = Armed(h, "timeout", tab)
    /\ calls' = calls \cup {[by |-> tab, gen |-> g]}
    /\ causes' = {}

(* noteManifestRefreshFailed: frames answer one attempt several times, so only the
   first failure of a generation is charged. *)
NoteFailure(g) ==
    LET r == obj[tab] IN
    IF tab # 0 /\ r.st = "refreshing" /\ r.gen = g /\ ~r.charged
    THEN Charge(tab, [r EXCEPT !.charged = TRUE], handle)
    ELSE UNCHANGED <<obj, handle, causes>>

(* What upsertPlaylistState carries over from the object it replaces. *)
Carried(r) == [r EXCEPT !.charged = FALSE, !.heal = 0, !.wait = IF @ = 2 THEN 1 ELSE @]

(* upsertPlaylistState: the new object has the fields r (made from the carried
   ones), and of the timers h the handles of the old one but for the probe's. *)
Replace(r, h, K) ==
    LET n == made + 1
        copied == [k \in Kinds |->
            [h[k] EXCEPT ![n] = IF tab = 0 \/ k = "heal" THEN 0 ELSE h[k][tab]]]
    IN
    /\ made < MaxObjects
    /\ made' = n /\ tab' = n
    /\ obj' = [o \in Objects |-> IF o = n THEN r ELSE IF o = tab THEN Retired(obj[o]) ELSE obj[o]]
    /\ handle' = Cleared(copied, K, n)

Previous == IF tab = 0 THEN Fresh ELSE Carried(obj[tab])

(* A playlist is adopted: upsertPlaylistState, then finishManifestRefreshIfPending,
   whose own test of the generation shouldAcceptPlaylistCapture has made. *)
Adopt ==
    LET s == IF Previous.st = "refreshing" THEN "recovering" ELSE Previous.st IN
    Replace(Entered(Previous, s), handle, ClearedBy(Previous, s))

(* shouldAcceptPlaylistCapture of a capture for generation g. *)
Accepts(g) ==
    tab # 0 => IF obj[tab].st = "refreshing" THEN g = obj[tab].gen ELSE g >= obj[tab].gen

-----------------------------------------------------------------------------
(* The rest of the program asks for a refresh: refused segment fetches, a tab
   that becomes visible, a miss. The debounce of a healthy tab's requests is left
   out, a request is refused for the block and the cooldown of auth_expired only. *)
Refused == obj[tab].wait = 2 \/ (obj[tab].st = "auth_expired" /\ obj[tab].wait = 1)

(* The code from the guards to the attempt, on fields r and timers h of the tab. *)
Refresh(r, h) ==
    IF r.st = "auth_expired"
    THEN Attempt(Entered(r, "healthy"), Cleared(h, Kinds, tab))
    ELSE Attempt(r, h)

Request ==
    /\ tab # 0 /\ requests < MaxRequests
    /\ ~Refused /\ obj[tab].st # "refreshing"
    /\ Refresh(obj[tab], handle)
    /\ requests' = requests + 1
    /\ UNCHANGED <<made, tab, answers>>

(* The delegation returns: the frames F have the request, or none has. *)
Delegated(c, F) ==
    /\ c \in calls
    /\ calls' = calls \ {c}
    /\ answers' = answers \cup ({c.gen} \X F)
    /\ IF F = {} THEN Charge(c.by, obj[c.by], handle)
                 ELSE UNCHANGED <<obj, handle, causes>>
    /\ UNCHANGED <<made, tab, requests>>

PageCaptures(a) ==
    /\ a \in answers
    /\ answers' = answers \ {a}
    /\ IF Accepts(a[1]) THEN Adopt ELSE UNCHANGED <<made, tab, obj, handle>>
    /\ UNCHANGED <<calls, requests, causes>>

PageFails(a) ==
    /\ a \in answers
    /\ answers' = answers \ {a}
    /\ NoteFailure(a[1])
    /\ UNCHANGED <<made, tab, calls, requests>>

(* The frame goes away, or captures a master playlist or an empty one. *)
PageIsSilent(a) ==
    /\ a \in answers
    /\ answers' = answers \ {a}
    /\ UNCHANGED <<made, tab, obj, handle, calls, requests, causes>>

(* The player fetches a playlist itself; in a refresh one of other URLs counts. *)
PlayerCaptures ==
    /\ Adopt
    /\ UNCHANGED <<calls, answers, requests, causes>>

(* The playlist is that of another episode: abortManifestRefreshForEpisode on the
   old object, and a new one in health. *)
EpisodeSwitches ==
    LET r == obj[tab]
        old == IF r.st = "refreshing" THEN Entered(r, "healthy") ELSE [r EXCEPT !.attempt = 0]
        K == IF r.st = "refreshing" THEN Kinds ELSE {"timeout", "retry"}
        n == made + 1
        stopped == Cleared(handle, K, tab)
    IN
    /\ tab # 0 /\ made < MaxObjects
    /\ made' = n /\ tab' = n
    /\ obj' = [obj EXCEPT ![tab] = Retired(old), ![n] = [Carried(old) EXCEPT !.st = "healthy"]]
    /\ handle' = [k \in Kinds |-> [stopped[k] EXCEPT ![n] = 0]]
    /\ UNCHANGED <<calls, answers, requests, causes>>

(* schedulePrefetch begins with upsertPlaylistState, whatever the tab's state: a
   seek, a scrub or a boost does so at any moment. *)
Schedule ==
    /\ tab # 0
    /\ Replace(Previous, handle, {})
    /\ UNCHANGED <<calls, answers, requests, causes>>

(* A synthesized segment list replaces the playlist. *)
LadderAdopted ==
    LET s == IF Previous.st = "auth_expired" THEN "healthy" ELSE Previous.st IN
    /\ Replace(Entered(Previous, s), handle, ClearedBy(Previous, s))
    /\ UNCHANGED <<calls, answers, requests, causes>>

(* The object is dropped, and no timer is cleared: the tab is closed, the cache is
   cleared, the object was not touched for ten minutes, or the tab navigates. A
   navigation whose page has a host drops nothing: the new page's URL is noted before
   it is compared with the one before (chrome-events.js:167). *)
Navigate ==
    /\ tab # 0
    /\ tab' = 0
    /\ obj' = [obj EXCEPT ![tab] = Retired(@)]
    /\ UNCHANGED <<made, handle, calls, answers, requests, causes>>

-----------------------------------------------------------------------------
(* A background fetch of the playlist ends with one, or fails: it reports with the
   generation of the moment. The fallback an attempt arms starts one, and so does any
   playlist URL found in the page's markup, so one may be under way at any time. *)
BackgroundCaptures ==
    /\ Adopt
    /\ UNCHANGED <<calls, answers, requests, causes>>

BackgroundFails ==
    /\ tab # 0
    /\ NoteFailure(obj[tab].gen)
    /\ UNCHANGED <<made, tab, calls, answers, requests>>

TimeoutFires(o) ==
    /\ Pending("timeout", o)
    /\ Charge(o, obj[o], Cleared(handle, {"timeout"}, o))
    /\ UNCHANGED <<made, tab, calls, answers, requests>>

(* The retry is an attempt on the tab's present object, whatever its state. *)
RetryFires(o) ==
    /\ Pending("retry", o)
    /\ IF tab = 0
       THEN /\ handle' = Cleared(handle, {"retry"}, o)
            /\ UNCHANGED <<obj, calls, causes>>
       ELSE Attempt(obj[tab], Cleared(handle, {"retry"}, o))
    /\ UNCHANGED <<made, tab, answers, requests>>

(* The probe, at least twice the cooldown after o expired: it is refused while the
   user scrubs, and nothing schedules it again. *)
ProbeFires(o, scrubbing) ==
    LET h == Cleared(handle, {"heal"}, o)
        expired == tab # 0 /\ obj[tab].st = "auth_expired"
    IN
    /\ Pending("heal", o)
    /\ tab # 0 => obj[tab].wait = 0 \/ obj[tab].gen > obj[o].gen
    /\ IF expired /\ ~Refused /\ ~scrubbing
       THEN Refresh(obj[tab], h)
       ELSE /\ handle' = h
            /\ causes' = IF expired /\ scrubbing THEN causes \cup {"scrubbing"} ELSE causes
            /\ UNCHANGED <<obj, calls>>
    /\ UNCHANGED <<made, tab, answers, requests>>

-----------------------------------------------------------------------------
(* A segment was stored or fetched: noteRefreshRecoverySuccess. *)
SegmentArrives ==
    LET r == obj[tab]
        n == IF r.successes < Target THEN r.successes + 1 ELSE Target
        s == IF n = Target THEN "healthy" ELSE r.st
        counted == [r EXCEPT !.successes = n]
    IN
    /\ tab # 0
    /\ r.warm \/ r.st = "recovering"
    /\ obj' = [obj EXCEPT ![tab] = Entered(counted, s)]
    /\ handle' = Cleared(handle, ClearedBy(r, s), tab)
    /\ UNCHANGED <<made, tab, calls, answers, requests, causes>>

(* The player reports a full buffer. *)
RunwayRestored ==
    /\ tab # 0 /\ obj[tab].st = "recovering"
    /\ obj' = [obj EXCEPT ![tab] = Entered(@, "healthy")]
    /\ handle' = Cleared(handle, Kinds, tab)
    /\ UNCHANGED <<made, tab, calls, answers, requests, causes>>

(* Time passes: REFRESH_RECOVERY_MAX_MS ends, or the block or the cooldown. *)
WarmEnds ==
    /\ tab # 0 /\ obj[tab].warm
    /\ obj' = [obj EXCEPT ![tab].warm = FALSE]
    /\ UNCHANGED <<made, tab, handle, calls, answers, requests, causes>>

WaitEnds ==
    /\ tab # 0 /\ obj[tab].wait > 0
    /\ obj' = [obj EXCEPT ![tab].wait = @ - 1]
    /\ UNCHANGED <<made, tab, handle, calls, answers, requests, causes>>

Environment ==
    \/ Request \/ PlayerCaptures \/ EpisodeSwitches \/ Schedule \/ LadderAdopted \/ Navigate
    \/ BackgroundCaptures \/ BackgroundFails \/ SegmentArrives \/ RunwayRestored
    \/ WarmEnds \/ WaitEnds

Program ==
    \/ \E c \in calls, F \in SUBSET Frames : Delegated(c, F)
    \/ \E a \in answers : PageCaptures(a) \/ PageFails(a) \/ PageIsSilent(a)
    \/ \E o \in Objects : TimeoutFires(o) \/ RetryFires(o)
    \/ \E o \in Objects, scrubbing \in BOOLEAN : ProbeFires(o, scrubbing)

Next == Environment \/ Program
Spec == Init /\ [][Next]_vars

(* Timers fire. Nothing is assumed of the page, the network or the user: no message
   need be answered, no playlist captured. *)
Fairness ==
    \A o \in Objects : WF_vars(TimeoutFires(o)) /\ WF_vars(RetryFires(o))

LiveSpec == Spec /\ Fairness

-----------------------------------------------------------------------------
(* A refresh that is over leaves none of its own timers: a tab that is healthy or
   recovers holds no handle of a pending timer, and one in auth_expired only that of
   its probe, so none of them starts what nobody asked for. *)
OwnTimersEnd ==
    tab # 0 =>
        /\ obj[tab].st # "refreshing" => handle["timeout"][tab] = 0 /\ handle["retry"][tab] = 0
        /\ obj[tab].st \in {"healthy", "recovering"} => handle["heal"][tab] = 0

(* Something will take the tab out of a state that stops or limits prefetching. *)
Driven ==
    IF obj[tab].st = "auth_expired" THEN \E o \in Objects : Pending("heal", o)
    ELSE obj[tab].st = "refreshing" =>
            \E o \in Objects : Pending("timeout", o) \/ Pending("retry", o)

(* manifest-refresh.js:51-60 says why probes were added: a tab must not sit in
   auth_expired with nothing to take it out. The only ways it gets there: the
   probes are spent, or one fell into a scrub; and a refresh loses its timers only
   if an object that was replaced meanwhile has used up its retries. *)
ParkedForACause ==
    tab # 0 =>
        \/ Driven
        \/ obj[tab].st = "auth_expired" /\ causes # {}
        \/ obj[tab].st = "refreshing" /\ "replaced" \in causes

(* A refresh ends, by a playlist or by running out of retries, without help from
   the user, unless a replaced object ran out of them. *)
RefreshEnds ==
    (tab # 0 /\ obj[tab].st = "refreshing") ~>
        (tab = 0 \/ obj[tab].st # "refreshing" \/ "replaced" \in causes)
=============================================================================
