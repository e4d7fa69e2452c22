------------------------------- MODULE Anchor -------------------------------
(***************************************************************************)
(* The anchor of a tab: the index of the segment the background believes   *)
(* the player to be at, from which every window of prefetch is counted     *)
(* (background/prefetch/anchor, seek, scrub and scheduler/chunk-observer). *)
(* Four voices move it: the player's seeks as the DOM reports them, the    *)
(* predictor, the segments the player asks for, and the renewal of the     *)
(* playlist; a reconciler promotes what most of the fresh ones agree on.   *)
(*                                                                         *)
(* A playlist has a number of segments. Where the player may be in it is   *)
(* in Places[episode]; no two episodes share a place but 0, so that an     *)
(* index tells the episode it was taken in. Live windows, playlists that   *)
(* change their length and the disabled predictor are left out, and so is  *)
(* what a commit does to the prefetches of the tab (TabPrefetch has that). *)
(***************************************************************************)
EXTENDS Integers, FiniteSets, FiniteSetsExt

CONSTANTS
    Segments,   \* the number of segments of a playlist
    Places,     \* where the player may be, by episode
    None        \* no index

ASSUME AnchorAssumption ==
    /\ Segments \in Nat /\ None \notin Int
    /\ 1 \in DOMAIN Places /\ \A e \in DOMAIN Places : Places[e] \subseteq Nat

VARIABLES
    tabState,   \* the tab's playlist object
    dom,        \* pendingDomAnchorByTab: the seek to commit, or None
    tele,       \* teleportDebounceByTab: the teleport to start, or None
    episode,    \* the episode of the playlist
    seen,       \* history: the last segment the player asked for
    left        \* history: the indices of old episodes that a switch left behind

anchorVars == <<tabState, dom, tele, episode, seen, left>>

(* anchor       anchorIndex; hasAnchor is whether there is one
   vouched      anchorSource is DOM_SEEKED or SEEK_PREDICTION
   retained     anchorRetainedByRefresh
   predicted, fresh   predictedAnchorIndex, and whether it is under three seconds old
   observed, velocity the two other signals, None once they are older than that
   target, switched, before, counted, seq, numbered
                teleportTargetIndex, variantSwitchAnchorIndex, lastAnchorBeforeRefresh,
                whether its number is known too, anchorMediaSequence counted from the
                first segment, and whether mediaSequence is known
   pending      anchorPendingIndex, of a streak that has one sample
   since, held  how long the signals have diverged from the anchor, and whether the last
                promotion is under 800 ms ago
   on           the windows that are open: the "until" fields in the future *)
Windows == {"passenger", "scrub", "recent", "churn", "mute", "rest", "teleport",
            "variant", "grace"}

NewTab == [anchor |-> None, vouched |-> FALSE, retained |-> FALSE, predicted |-> None,
           fresh |-> FALSE, observed |-> None, velocity |-> None, target |-> None,
           switched |-> None, before |-> None, counted |-> FALSE,
           seq |-> None, numbered |-> TRUE,
           pending |-> None, since |-> "no", held |-> FALSE, on |-> {"grace"}]

Lower(i, j) == IF i < j THEN i ELSE j
Higher(i, j) == IF i > j THEN i ELSE j
Dist(i, j) == IF i < j THEN j - i ELSE i - j
Open(t, ws) == t.on \cap ws # {}

-----------------------------------------------------------------------------
(* Where the player is thought to be. *)

Predictor(t) == IF t.fresh THEN t.predicted ELSE None

getEffectiveAnchorIndex(t) ==
    LET p == Predictor(t)
    IN  IF /\ p # None
           /\ \/ t.anchor = None \/ Open(t, {"churn", "scrub"})
              \/ p - t.anchor \in 0..3
        THEN p
        ELSE IF t.anchor # None THEN t.anchor ELSE t.target

anchorJump(t, i) ==
    LET current == getEffectiveAnchorIndex(t)
    IN  IF current = None THEN 0 ELSE Dist(i, current)

(* What the player asked for counts unless it is far ahead of the predictor (or else
   of the anchor), or far behind it in a churn of seeks. *)
IncludesObserved(t) ==
    LET reference == IF Predictor(t) # None THEN Predictor(t) ELSE t.anchor
    IN  /\ t.observed # None
        /\ reference # None =>
             /\ t.observed <= reference + 10
             /\ ~(t.observed < reference - 10 /\ Open(t, {"churn"}))

collectAnchorSignals(t) ==
    {s \in {[of |-> "anchor", at |-> t.anchor, weight |-> 2],
            [of |-> "predictor", at |-> Predictor(t), weight |-> 3],
            [of |-> "observed", at |-> t.observed, weight |-> 4],
            [of |-> "velocity", at |-> t.velocity, weight |-> 2]} :
        /\ s.at # None
        /\ s.of = "predictor" => ~(t.anchor # None /\ t.anchor > 10 /\ s.at <= 2)
        /\ s.of = "observed" => IncludesObserved(t)}

Weight(signals) == Cardinality(UNION {{s.of} \X (1..s.weight) : s \in signals})

weightedMedianIndex(signals) ==
    Min({s.at : s \in {m \in signals :
        2 * Weight({l \in signals : l.at <= m.at}) >= Weight(signals)}})

resolveReconcileTargetIndex(t) ==
    LET signals == collectAnchorSignals(t)
    IN  IF \A s \in signals : s.of = "anchor" THEN None ELSE weightedMedianIndex(signals)

-----------------------------------------------------------------------------
(* What may not move the anchor. *)

High(t) == \/ getEffectiveAnchorIndex(t) # None /\ getEffectiveAnchorIndex(t) > 10
           \/ t.switched # None /\ t.switched > 10

(* An index at the start of the timeline while the playhead is far ahead. *)
shouldBlockStaleTimelineSeekTarget(t, i) ==
    LET consensus == resolveReconcileTargetIndex(t)
    IN  /\ i <= 2
        /\ \/ consensus # None /\ consensus - i > 5
           \/ High(t) /\ Open(t, {"variant", "scrub", "churn"})

shouldBlockDomAnchorDuringVariantGrace(t, i) ==
    /\ Open(t, {"variant"}) /\ t.switched # None
    /\ i < t.switched - 2
    /\ i <= Higher(2, t.switched \div 10)

(* playlistRefreshedAt and anchorRotationGraceUntil are set together, and the grace of
   both is ten seconds. *)
Rotating(t) == Open(t, {"grace"}) \/ t.retained

shouldBlockStaleSeekPredictionTeleport(t, i, late) ==
    LET current == getEffectiveAnchorIndex(t)
        consensus == resolveReconcileTargetIndex(t)
    IN  \/ /\ Rotating(t) /\ i <= 10
           /\ High(t) \/ (t.anchor # None /\ t.anchor > 20)
           /\ consensus = None \/ consensus - i > 5
        \/ /\ High(t) /\ ~late
           /\ \/ current # None /\ i < current - 10
              \/ t.switched # None /\ i < t.switched - 10 /\ Open(t, {"variant"})
              \/ shouldBlockStaleTimelineSeekTarget(t, i)

(* The last check of a scrub, of an index at the start against the consensus, has been
   made by shouldBlockStaleTimelineSeekTarget already. *)
evaluateAuthorityCommit(t, i, authority) ==
    IF authority = "DOM_SEEKED"
    THEN \/ getEffectiveAnchorIndex(t) = None
         \/ /\ ~shouldBlockStaleTimelineSeekTarget(t, i)
            /\ \/ Open(t, {"scrub"})
               \/ /\ ~shouldBlockDomAnchorDuringVariantGrace(t, i)
                  /\ anchorJump(t, i) >= 2
                  /\ ~Open(t, {"rest"})
    ELSE /\ ~shouldBlockStaleTimelineSeekTarget(t, i)
         /\ ~shouldBlockDomAnchorDuringVariantGrace(t, i)

-----------------------------------------------------------------------------
(* The handlers, as what they make of x: the tab's object and the two timers. up says
   whether the schedulePrefetch calls of the handler get as far as their upsert, which
   puts a new object in the place of the tab's. *)

Now == [tab |-> tabState, dom |-> dom, tele |-> tele]
Becomes(x) == tabState' = x.tab /\ dom' = x.dom /\ tele' = x.tele

(* The upsert of a schedule knows the segments and nothing else: the streak is not
   among the fields it copies, and mediaSequence is unknown. *)
Upserted(t) == [t EXCEPT !.pending = None, !.numbered = FALSE]
Scheduled(t, up) == IF up THEN Upserted(t) ELSE t

AnchorAt(t, i) == [t EXCEPT !.anchor = i, !.seq = IF t.numbered THEN i ELSE @]

markSeekChurnAggressive(t) == [t EXCEPT !.on = @ \cup {"churn"}]

softCommitAnchor(t, i, up) ==
    Scheduled(markSeekChurnAggressive(
        [AnchorAt(t, i) EXCEPT !.pending = None, !.retained = FALSE]), up)

isStaleTimelineDomReset(from, i) == 10 * from >= 7 * Segments /\ 100 * i <= 12 * Segments

(* A commit by a seek of the DOM or by the predictor. Without an anchor and without a
   guess there is nothing to jump from, and nothing is committed. A jump of twenty
   segments or more is a teleport, unless the player scrubs or starts over. *)
commitAnchorFromAuthority(x, i, authority, source, up) ==
    LET t == x.tab
        current == getEffectiveAnchorIndex(t)
        from == IF t.anchor # None /\ (source = "anchor-reconciliation" \/ current = None)
                THEN t.anchor ELSE current
        hard == /\ ~Open(t, {"scrub"}) /\ source # "anchor-reconciliation"
                /\ Dist(i, from) >= 20
                /\ ~(i <= 2 /\ from > 10)
                /\ ~(authority = "DOM_SEEKED" /\ isStaleTimelineDomReset(current, i))
        opened == IF authority # "DOM_SEEKED" THEN {}
                  ELSE {"rest"} \cup (IF hard \/ Open(t, {"scrub"}) THEN {"mute"} ELSE {})
        moved == [AnchorAt(t, i) EXCEPT !.vouched = TRUE, !.pending = None, !.on = @ \cup opened]
    IN  IF ~evaluateAuthorityCommit(t, i, authority) \/ from \in {None, i} THEN x
        ELSE IF hard THEN [x EXCEPT !.tab = moved, !.tele = i]
        ELSE [x EXCEPT !.tab = softCommitAnchor(moved, i, up)]

-----------------------------------------------------------------------------
(* The reconciler. *)

RefusesBack(t, c) ==
    /\ c < t.anchor - 3
    /\ Open(t, {"churn", "scrub"}) \/ (t.anchor > 10 /\ c <= 2)

Diverges(t, c) == c # None /\ t.anchor # None /\ Dist(c, t.anchor) > 3 /\ ~RefusesBack(t, c)

(* What evaluateAnchorReconciliation leaves in the object it looks at ... *)
Evaluated(t) ==
    LET c == resolveReconcileTargetIndex(t)
    IN  [t EXCEPT !.since = IF Diverges(t, c) THEN (IF @ = "no" THEN "young" ELSE @)
                            ELSE IF c # None /\ t.anchor = None THEN @ ELSE "no"]

(* ... and whether it says to promote. *)
Promotes(t) ==
    LET c == resolveReconcileTargetIndex(t)
    IN  /\ c # None
        /\ t.anchor # None => Diverges(t, c) /\ t.since = "ripe" /\ ~t.held

(* The commit of what t agrees on, t being an object the tab has or had. *)
Promoted(x, t, up) ==
    commitAnchorFromAuthority(x, resolveReconcileTargetIndex(t), "SEEK_PREDICTION",
                              "anchor-reconciliation", up)

(* The commit puts another object in the place of the one the handler began with when
   its schedule gets that far. *)
Replaces(x, up) == up /\ Promotes(x.tab) /\ Promoted(x, x.tab, up) # x

(* markAnchorReconciliationPromoted marks the object the handler began with. *)
maybeReconcileAnchor(x, up) ==
    IF ~Promotes(x.tab) THEN [x EXCEPT !.tab = Evaluated(@)]
    ELSE IF Replaces(x, up) THEN Promoted(x, x.tab, up)
    ELSE [Promoted(x, x.tab, up) EXCEPT !.tab.since = "no", !.tab.held = TRUE]

(* The same of an object that is not the tab's any more. *)
ReconcileReplaced(x, t, up) == IF Promotes(t) THEN Promoted(x, t, up) ELSE x

(* enterTeleportModeImmediate, on the object the tab has when the debounce ends. *)
Teleported(x, i, up) ==
    LET t == x.tab
        consensus == resolveReconcileTargetIndex(t)
        deferred == /\ t.anchor # None /\ Rotating(t)
                    /\ t.anchor - i >= 10 /\ t.anchor > 20
                    /\ i <= Higher(10, t.anchor \div 4)
                    /\ consensus = None \/ Dist(consensus, i) > 5
    IN  IF deferred THEN maybeReconcileAnchor(x, up)
        ELSE [x EXCEPT !.tab = Scheduled(
                 [AnchorAt(t, i) EXCEPT !.on = @ \cup {"teleport", "churn"},
                                        !.target = i, !.retained = FALSE], up)]

SnapBack(t, i) == [t EXCEPT !.on = @ \cup {"churn", "teleport"}, !.target = i]

-----------------------------------------------------------------------------
(* What the player asks for. *)

remapChunkIndexViaMediaSequence(t, i) ==
    IF i = 0 /\ t.numbered /\ t.seq # None /\ t.seq > 10 THEN t.seq ELSE i

shouldRejectAnchorRegression(t, i) ==
    /\ t.anchor # None
    /\ \/ i <= 2 /\ t.anchor > 10 /\ shouldBlockStaleTimelineSeekTarget(t, i)
       \/ i < t.anchor - 16 /\ t.anchor > 15 /\ Open(t, {"churn", "variant"})

(* A renewal vouches for a jump, but for one to the start that a guard knows as stale. *)
VouchedByRenewal(t, i) ==
    LET consensus == resolveReconcileTargetIndex(t)
        low == /\ t.anchor - i >= 10 /\ t.anchor > 20
               /\ i <= Higher(10, t.anchor \div 4)
    IN  /\ ~(i = 0 /\ t.anchor > 10 /\ shouldBlockStaleTimelineSeekTarget(t, i))
        /\ low => /\ consensus = None \/ consensus - i <= 5
                  /\ ~shouldBlockStaleTimelineSeekTarget(t, Lower(i, 2))
                  /\ ~Open(t, {"churn"})

evaluatePassiveAnchorSignal(t, i) == t.pending \in {i, i - 1}

(* "near" and "streak" end the streak of far segments, "renewal" leaves it. *)
evaluateAnchorCommit(t, i) ==
    CASE t.anchor = None -> "near"
      [] t.anchor # None /\ Open(t, {"mute"}) ->
            IF Dist(i, t.anchor) <= 2 THEN "near" ELSE "muted"
      [] OTHER ->
            IF \/ Open(t, {"teleport"}) /\ t.target # None /\ Dist(i, t.target) <= 7
               \/ Dist(i, t.anchor) <= 5
            THEN "near"
            ELSE IF Rotating(t)
            THEN IF VouchedByRenewal(t, i) THEN "renewal" ELSE "stale"
            ELSE IF evaluatePassiveAnchorSignal(t, i) THEN "streak" ELSE "far"

(* A faulty resetPassiveAnchorDeferral: a segment nearby does not end the streak. *)
KeepsStreak(t, how) == IF how \in {"near", "renewal"} THEN t.pending ELSE None

resetPassiveAnchorDeferral(t, how) == IF how = "renewal" THEN t.pending ELSE None

(* An accepted segment moves the anchor. A long way back it is put back at once if a
   guard then finds the segment stale; a long way on it is a teleport. busy is whether
   the anchor has changed five times in two seconds. *)
Observed(x, i, how, busy, up) ==
    LET t == x.tab
        at == [AnchorAt(t, i) EXCEPT
                  !.observed = i, !.retained = FALSE,
                  !.pending = resetPassiveAnchorDeferral(t, how),
                  !.on = IF busy /\ t.anchor \notin {None, i} THEN @ \cup {"churn"} ELSE @]
        stale == /\ t.anchor > 10 /\ i < t.anchor - 10
                 /\ \/ shouldBlockStaleTimelineSeekTarget(at, i)
                    \/ Open(at, {"variant", "churn"})
    IN  IF t.anchor = None \/ t.retained \/ Dist(i, t.anchor) <= 16
        THEN [x EXCEPT !.tab = at]
        ELSE IF stale
        THEN maybeReconcileAnchor([x EXCEPT !.tab = [at EXCEPT !.anchor = t.anchor]], up)
        ELSE IF Dist(i, t.anchor) >= 20 THEN [x EXCEPT !.tab = at, !.tele = i]
        ELSE [x EXCEPT !.tab = markSeekChurnAggressive(at)]

handleChunkObserved(asked, busy, up) ==
    LET i == remapChunkIndexViaMediaSequence(tabState, asked)
        how == evaluateAnchorCommit(tabState, i)
    IN  IF shouldRejectAnchorRegression(tabState, i) THEN UNCHANGED anchorVars
        ELSE /\ Becomes(CASE how \in {"near", "renewal", "streak"} ->
                               Observed(Now, i, how, busy, up)
                          [] how = "far" -> [Now EXCEPT !.tab.pending = i]
                          [] OTHER -> Now)
             /\ seen' = i
             /\ UNCHANGED <<episode, left>>

-----------------------------------------------------------------------------
(* What the page says of seeks. *)

isSeekPredictionPassengerPhase(t) ==
    Open(t, {"passenger", "scrub"}) \/ {"churn", "recent"} \subseteq t.on

Predicted(t, i) == [t EXCEPT !.predicted = i, !.fresh = TRUE]

(* late: the player is past the first twenty seconds. *)
SeekPrediction(x, i, late, up) ==
    LET p == [x EXCEPT !.tab = Predicted(@, i)]
        t == p.tab
        moved == Scheduled(AnchorAt(t, i), up)
    IN  IF isSeekPredictionPassengerPhase(t) THEN maybeReconcileAnchor(p, up)
        ELSE IF t.anchor = None THEN [p EXCEPT !.tab = moved]
        ELSE IF \/ shouldBlockStaleSeekPredictionTeleport(t, i, late)
                \/ shouldBlockStaleTimelineSeekTarget(t, i)
        THEN maybeReconcileAnchor(p, up)
        ELSE IF Dist(i, t.anchor) >= 20
        THEN commitAnchorFromAuthority(p, i, "SEEK_PREDICTION", "seek-prediction", up)
        ELSE IF Dist(i, t.anchor) > 1 THEN [p EXCEPT !.tab = markSeekChurnAggressive(moved)]
        ELSE p

(* An index the page does not know is an empty field of the wire, and an empty field
   is the number 0. *)
OnTheWire(i, known) == IF known THEN i ELSE 0

applyUnifiedSeekPassengerLock(t) ==
    [t EXCEPT !.on = @ \cup {"scrub", "passenger", "recent", "churn"}]
clearSeekPassengerLock(t) == [t EXCEPT !.on = @ \ {"scrub", "passenger"}]

(* A sample of the seeking controller: at is where the player is, says what the page
   makes of it, ahead the place its filter predicts. Once a schedule of the handler has
   put a new object in the tab's place, what the handler writes is lost. prewarm: the
   sample is not too close to the one before it. *)
UnifiedSeek(at, says, flag, ahead, prewarm, low, late, up) ==
    LET scrubbing == flag \in {"scrub", "scrub-release"}
        release == flag \in {"release", "scrub-release"}
        snaps == /\ flag = "end" /\ Open(tabState, {"scrub", "passenger"})
                 /\ tabState.anchor # None
        locked == IF scrubbing THEN applyUnifiedSeekPassengerLock(tabState)
                  ELSE IF flag = "end" THEN clearSeekPassengerLock(tabState) ELSE tabState
        own == IF snaps THEN SnapBack(locked, tabState.anchor) ELSE locked
        phase == isSeekPredictionPassengerPhase(own)
        sampled == IF phase THEN [Predicted(own, says) EXCEPT
                                     !.velocity = IF scrubbing THEN ahead ELSE says]
                   ELSE Predicted(own, says)
        replaced == up /\ (snaps \/ (phase /\ prewarm))
        now == [Now EXCEPT !.tab = IF snaps /\ up THEN Upserted(own)
                                   ELSE IF replaced THEN Upserted(sampled) ELSE sampled]
        reconciled == IF replaced THEN ReconcileReplaced(now, sampled, up)
                      ELSE maybeReconcileAnchor(now, up)
        unlocked == IF replaced \/ Replaces(now, up) THEN reconciled
                    ELSE [reconciled EXCEPT !.tab = clearSeekPassengerLock(@)]
    IN  /\ IF ~phase
           THEN Becomes(IF release THEN now ELSE SeekPrediction(now, at, late, up))
           ELSE IF release /\ ~scrubbing /\ low /\ ~Open(sampled, {"scrub"})
           THEN Becomes(SeekPrediction(unlocked, at, late, up))
           ELSE Becomes(reconciled)
        /\ UNCHANGED <<episode, seen, left>>

handleSeekPrediction(i, late, up) ==
    /\ Becomes(SeekPrediction(Now, i, late, up))
    /\ UNCHANGED <<episode, seen, left>>

handleScrubbingTrainState(active, up) ==
    LET off == [tabState EXCEPT !.on = @ \ {"scrub"}]
    IN  /\ tabState' = IF active THEN [tabState EXCEPT !.on = @ \cup {"scrub", "recent", "churn"}]
                        ELSE IF tabState.anchor = None THEN off
                        ELSE Scheduled(SnapBack(off, tabState.anchor), up)
        /\ UNCHANGED <<dom, tele, episode, seen, left>>

(* A seek of the DOM waits until no other has come for a moment. soon: before the
   player is twenty seconds in. *)
handleForceTeleportAnchor(i, soon, up) ==
    /\ IF /\ Open(tabState, {"variant"}) /\ soon
          /\ tabState.switched # None /\ i < tabState.switched - 2
       THEN Becomes([Now EXCEPT !.tab = Scheduled(markSeekChurnAggressive(@), up)])
       ELSE IF shouldBlockStaleTimelineSeekTarget(tabState, i)
       THEN Becomes(maybeReconcileAnchor(Now, up))
       ELSE Becomes([Now EXCEPT !.dom = i])
    /\ UNCHANGED <<episode, seen, left>>

flushPendingDomAnchorCommit(up) ==
    /\ dom # None
    /\ Becomes(commitAnchorFromAuthority([Now EXCEPT !.dom = None], dom, "DOM_SEEKED",
                                         "dom-seeked", up))
    /\ UNCHANGED <<episode, seen, left>>

TeleportFires(up) ==
    /\ tele # None
    /\ Becomes(Teleported([Now EXCEPT !.tele = None], tele, up))
    /\ UNCHANGED <<episode, seen, left>>

-----------------------------------------------------------------------------
(* The playlist is renewed, switched or replaced (upsertPlaylistState). *)

(* refreshManifest takes a snapshot of the anchor before it asks. A snapshot that has the
   number of the segment is preferred to a later one that has not. *)
snapshotAnchorBeforeRefresh ==
    LET t == tabState
        old == t.counted /\ ~t.numbered
    IN  /\ t.anchor # None
        /\ tabState' = [t EXCEPT !.before = IF old THEN @ ELSE t.anchor,
                                 !.counted = @ \/ t.numbered]
        /\ UNCHANGED <<dom, tele, episode, seen, left>>

(* The anchor is found again by the signature of its segment or by the matrix, or else
   kept (retain), or taken from the snapshot, or kept because a seek vouches for it. *)
Kept(t, found, retain) ==
    CASE t.anchor # None /\ (found \/ retain) -> [at |-> t.anchor, retained |-> ~found]
      [] ~(t.anchor # None /\ (found \/ retain)) /\ t.before # None ->
            [at |-> t.before, retained |-> TRUE]
      [] OTHER -> [at |-> IF t.vouched THEN t.anchor ELSE None,
                   retained |-> t.vouched /\ t.anchor # None]

(* An anchor at the start gives way to a playhead that is further on ... *)
RaisedByPlayhead(t, c) ==
    LET signals == {Predictor(t), t.observed, t.anchor} \ {None}
    IN  IF c.at # None /\ c.at <= 2 /\ t.anchor # None /\ Max(signals) > c.at + 3
        THEN [at |-> Max(signals), retained |-> TRUE] ELSE c

(* ... and no renewal moves it back. *)
RaisedByFloor(t, c) ==
    IF c.at # None /\ t.anchor # None /\ c.at < t.anchor - 1
    THEN [at |-> IF t.predicted = None THEN t.anchor ELSE Higher(t.anchor, t.predicted),
          retained |-> TRUE]
    ELSE c

Renewed(t, c) ==
    [t EXCEPT !.anchor = c.at, !.retained = c.retained \/ @, !.pending = None,
              !.seq = IF c.at = None THEN @ ELSE c.at, !.numbered = TRUE,
              !.on = @ \cup {"grace"}]

AfterRenewal(t, found, retain) ==
    LET c == RaisedByFloor(t, RaisedByPlayhead(t, Kept(t, found, retain)))
    IN  Renewed(t, c)

upsertPlaylistState(found, retain) ==
    /\ tabState' = AfterRenewal(tabState, found, retain)
    /\ UNCHANGED <<dom, tele, episode, seen, left>>

(* In a churn of seeks a change of quality is taken for a renewal. *)
SwitchQuality(found, retain) ==
    LET t == AfterRenewal(tabState, found, retain)
    IN  /\ ~Open(tabState, {"churn", "scrub"})
        /\ tabState' = [t EXCEPT
               !.on = @ \cup {"variant"},
               !.switched = IF t.anchor # None THEN t.anchor ELSE tabState.anchor]
        /\ UNCHANGED <<dom, tele, episode, seen, left>>

(* A faulty OfNewEpisode: the prediction is carried over. *)
KeepingPredicted(t) ==
    [Renewed(t, [at |-> None, retained |-> FALSE]) EXCEPT
        !.observed = None, !.velocity = None,
        !.target = None, !.since = "no", !.held = FALSE, !.on = @ \ {"teleport", "churn"}]

(* The object of another episode: the signals go, and the commits that wait stay. *)
OfNewEpisode(t) ==
    [Renewed(t, [at |-> None, retained |-> FALSE]) EXCEPT
        !.predicted = None, !.fresh = FALSE, !.observed = None, !.velocity = None,
        !.target = None, !.since = "no", !.held = FALSE, !.on = @ \ {"teleport", "churn"}]

SwitchEpisode ==
    /\ tabState' = OfNewEpisode(tabState)
    /\ episode' \in DOMAIN Places \ {episode}
    /\ left' = {dom, tele, tabState.before, tabState.seq} \ {None}
    /\ UNCHANGED <<dom, tele, seen>>

(* Any other schedule. *)
schedulePrefetch ==
    /\ tabState' = Upserted(tabState)
    /\ UNCHANGED <<dom, tele, episode, seen, left>>

-----------------------------------------------------------------------------
(* Time. The windows of a scrub are opened together and lapse in this order, and the
   grace of a switch is shorter than that of a renewal, which it implies. *)
LapsesAfter(w) == CASE w = "scrub" -> {"passenger"}
                    [] w = "recent" -> {"passenger", "scrub"}
                    [] w = "grace" -> {"variant"}
                    [] OTHER -> {}

TimePasses ==
    /\ \/ \E w \in tabState.on : /\ ~Open(tabState, LapsesAfter(w))
                                  /\ tabState' = [tabState EXCEPT !.on = @ \ {w}]
       \/ tabState.fresh /\ tabState' = [tabState EXCEPT !.fresh = FALSE]
       \/ tabState.observed # None /\ tabState' = [tabState EXCEPT !.observed = None]
       \/ tabState.velocity # None /\ tabState' = [tabState EXCEPT !.velocity = None]
       \/ tabState.since = "young" /\ tabState' = [tabState EXCEPT !.since = "ripe"]
       \/ tabState.held /\ tabState' = [tabState EXCEPT !.held = FALSE]
    /\ UNCHANGED <<dom, tele, episode, seen, left>>

AnchorInit ==
    /\ tabState = NewTab /\ dom = None /\ tele = None /\ episode = 1
    /\ seen = None /\ left = {}

Here == Places[episode]

AnchorNext ==
    \/ \E up \in BOOLEAN :
         \/ \E i \in Here, busy \in BOOLEAN : handleChunkObserved(i, busy, up)
         \/ \E at \in Here, known, prewarm, low, late \in BOOLEAN, ahead \in Here \cup {0},
               flag \in {"sample", "scrub", "scrub-release", "release", "end"} :
               UnifiedSeek(at, OnTheWire(at, known), flag, ahead, prewarm, low, late, up)
         \/ \E i \in Here, late \in BOOLEAN : handleSeekPrediction(i, late, up)
         \/ \E active \in BOOLEAN : handleScrubbingTrainState(active, up)
         \/ \E i \in Here, known, soon \in BOOLEAN :
               handleForceTeleportAnchor(OnTheWire(i, known), soon, up)
         \/ flushPendingDomAnchorCommit(up) \/ TeleportFires(up)
    \/ \E found, retain \in BOOLEAN :
         upsertPlaylistState(found, retain) \/ SwitchQuality(found, retain)
    \/ snapshotAnchorBeforeRefresh \/ SwitchEpisode \/ schedulePrefetch \/ TimePasses

AnchorSpec == AnchorInit /\ [][AnchorNext]_anchorVars

-----------------------------------------------------------------------------
(* A segment far from the anchor moves it only where the player asked for it, or for the
   one before it, just before: "unless the player proves the new neighborhood with
   monotonic consecutive segment requests" (anchor-hysteresis.js:8). A renewal and a
   teleport vouch for it too, and a segment that is put back as stale may set off the
   reconciler, when the signals have diverged long enough. *)
JumpIsProven ==
    \/ None \in {tabState.anchor, tabState'.anchor}
    \/ Rotating(tabState) \/ Open(tabState, {"teleport"}) \/ tabState.since = "ripe"
    \/ Dist(tabState'.anchor, tabState.anchor) <= 5
    \/ seen \in {tabState'.anchor - 1, tabState'.anchor}

JumpsAreProven ==
    [][JumpIsProven \/ ~\E i \in Here, busy, up \in BOOLEAN :
                           handleChunkObserved(i, busy, up)]_anchorVars

(* After a switch of episode, no voice of the old one moves the anchor, but for what the
   switch leaves: a seek or a teleport that waits, the snapshot of a refresh and the number
   of the old anchor, by which the first segment of the new episode may be remapped ("stale
   data from a previous episode/session must not linger", playlist-state.js:334). *)
OldEpisodeIsLeftBehind == tabState.anchor \in {None, 0} \cup Here \cup left
=============================================================================
