------------------------- MODULE MCManifestRefresh --------------------------
(* What is renewed for a tab, of kinds that share no state: its playlist, for a tab
   whose state object is replaced once, with one frame, one retry and one probe; or its
   anchor, in a playlist of forty segments, moved by what the player asks for and the
   DOM says ("streaks": places that are close to one another, and "far": two places),
   by the predictor, by scrubs or across renewals, with one switch of episode. *)
EXTENDS ManifestRefresh, Anchor, TLC

CONSTANT f1

VARIABLE kind

MCPlaces == (1 :> {0, 12, 13, 30}) @@ (2 :> {1})

\* The places of a kind, by episode.
Close == {0, 12, 13}
Far == IF episode = 1 THEN {0, 30} ELSE Here
One == IF episode = 1 THEN {30} ELSE Here

StreaksNext ==
    \/ \E up \in BOOLEAN :
         \/ \E i \in Close, busy \in BOOLEAN : handleChunkObserved(i, busy, up)
         \/ \E i \in Close : handleForceTeleportAnchor(i, FALSE, up)
         \/ flushPendingDomAnchorCommit(up)
    \/ schedulePrefetch \/ TimePasses
FarNext ==
    \/ \E up \in BOOLEAN :
         \/ \E i \in Far, busy \in BOOLEAN : handleChunkObserved(i, busy, up)
         \/ \E i \in Far : handleForceTeleportAnchor(i, FALSE, up)
         \/ flushPendingDomAnchorCommit(up) \/ TeleportFires(up)
    \/ schedulePrefetch \/ TimePasses
PredictionsNext ==
    \/ \E up \in BOOLEAN :
         \/ \E i \in Far : \/ handleChunkObserved(i, FALSE, up)
                           \/ \E late \in BOOLEAN : handleSeekPrediction(i, late, up)
         \/ TeleportFires(up)
    \/ upsertPlaylistState(TRUE, TRUE)
    \/ (episode = 1 /\ SwitchEpisode) \/ TimePasses
ScrubsNext ==
    \/ \E up \in BOOLEAN :
         \/ \E i \in One, says, ahead \in One \cup {0}, prewarm, low \in BOOLEAN,
               flag \in {"sample", "scrub", "scrub-release", "release", "end"} :
               /\ flag \in {"scrub", "scrub-release"} \/ ahead = 0
               /\ flag = "release" \/ ~low
               /\ UnifiedSeek(i, says, flag, ahead, prewarm, low, TRUE, up)
         \/ \E active \in BOOLEAN : handleScrubbingTrainState(active, up)
         \/ TeleportFires(up)
    \/ (episode = 1 /\ SwitchEpisode) \/ TimePasses
RenewalsNext ==
    \/ \E up \in BOOLEAN :
         \/ \E i \in One : \/ handleChunkObserved(i, FALSE, up)
                           \/ handleForceTeleportAnchor(i, TRUE, up)
         \/ flushPendingDomAnchorCommit(up) \/ TeleportFires(up)
    \/ \E found, retain \in BOOLEAN :
         upsertPlaylistState(found, retain) \/ SwitchQuality(found, retain)
    \/ snapshotAnchorBeforeRefresh \/ (episode = 1 /\ SwitchEpisode) \/ TimePasses

MCInit ==
    /\ Init /\ AnchorInit
    /\ kind \in {"refresh", "streaks", "far", "predictions", "scrubs", "renewals"}
MCNext ==
    /\ \/ kind = "refresh" /\ Next /\ UNCHANGED anchorVars
       \/ /\ \/ kind = "streaks" /\ StreaksNext
             \/ kind = "far" /\ FarNext
             \/ kind = "predictions" /\ PredictionsNext
             \/ kind = "scrubs" /\ ScrubsNext
             \/ kind = "renewals" /\ RenewalsNext
          /\ UNCHANGED vars
    /\ UNCHANGED kind
MCSpec == MCInit /\ [][MCNext]_<<kind, vars, anchorVars>> /\ Fairness
=============================================================================
