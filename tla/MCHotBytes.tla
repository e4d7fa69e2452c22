----------------------------- MODULE MCHotBytes -----------------------------
(* The bytes a page keeps at hand, and what is prefetched for its tab, in kinds that
   share no state: three keys, room for two entries, two aliases and one caller that waits;
   or one segment and a tab that may be forgotten; or a playlist taken for another
   episode; or two segments where one at a time may be fetched; or a second segment
   beyond the urgent window and a playlist renewed. *)
EXTENDS HotBytes, TabPrefetch, TLC

CONSTANTS k1, k2, k3, w1, w2

VARIABLE kind

MCKeys == {k1, k2, k3}
MCCallers == {w1, w2}

\* "p", "q": two episodes; "two": one at a time; "deep", "renewed": one episode, twice.
MCPlaylists == {"p", "q", "two", "deep", "renewed"}
MCKeyOf == ("a" :> "ka") @@ ("b" :> "ka") @@ ("c" :> "kc")
MCSegs == ("p" :> {"a"}) @@ ("q" :> {"b"}) @@ ("two" :> {"a", "c"})
            @@ ("deep" :> {"a", "c"}) @@ ("renewed" :> {"b", "c"})
MCNear == [pl \in MCPlaylists |-> IF pl \in {"deep", "renewed"} THEN MCSegs[pl] \ {"c"}
                                  ELSE MCSegs[pl]]
MCEpisode == [pl \in MCPlaylists |-> IF pl = "q" THEN 2 ELSE 1]

OneMessage == Len(line') <= 1
OneGeneration == \A o \in Objects : bg'.obj[o].gen = 0

KnownNext ==
    \/ Capture("p", "captured-playlist")
    \/ ChunkObserved \/ Speculate
    \/ \E src \in {"teleport-mode", "teleport-mode-retained"} : enterTeleportMode(src)
    \/ DebounceFires \/ FlushFires \/ StrayFlushFires
    \/ CancelDelivered \/ prefetchSegmentsFromPage \/ MessageLost
    \/ PageReports("a") \/ PageDrops("a") \/ PageFinishes("a", TRUE)
    \/ PageReloads
    \/ handleTabNavigation \/ pruneRuntimeState
    \/ ClearCache \/ Restart
EpisodesNext ==
    \/ \E pl \in {"p", "q"} : Capture(pl, "captured-playlist")
    \/ ChunkObserved \/ BridgeReady \/ updateTabBufferHealth("low")
    \/ DebounceFires \/ FlushFires \/ StrayFlushFires
    \/ CancelDelivered \/ prefetchSegmentsFromPage \/ MessageLost
    \/ \E u \in {"a", "b"} : PageReports(u) \/ \E ok \in BOOLEAN : PageFinishes(u, ok)
    \/ CoolDown("ka")
    \/ pauseTabPrefetchForVisibility("sleeping")
    \/ resumeTabPrefetchForVisibility
CrowdedNext ==
    \/ Capture("two", "captured-playlist") \/ ChunkObserved
    \/ DebounceFires \/ FlushFires \/ StrayFlushFires
    \/ \E o \in Objects : CapRetryFires(o) \/ InflightRetryFires(o)
    \/ prefetchSegmentsFromPage \/ MessageLost
    \/ \E u \in {"a", "c"} : PageReports(u) \/ PageDrops(u) \/ PageFinishes(u, TRUE)
    \/ \E k \in SegmentKeys : Age(k)
    \/ pruneStaleInflightForTab
DeepNext ==
    \/ \E pl \in {"deep", "renewed"} : Capture(pl, "captured-playlist")
    \/ ChunkObserved
    \/ updateTabBufferHealth("healthy")
    \/ DebounceFires \/ FlushFires \/ StrayFlushFires
    \/ \E o \in Objects : DepthTimerFires(o)
    \/ prefetchSegmentsFromPage \/ MessageLost
    \/ \E u \in Urls : PageReports(u) \/ PageFinishes(u, TRUE)
    \/ \E k \in SegmentKeys : Age(k)
    \/ pruneStaleInflightForTab

MCInit ==
    /\ Init /\ TabInit
    /\ kind \in {"bytes", "known", "episodes", "crowded", "deep"}
MCNext ==
    /\ \/ kind = "bytes" /\ Next /\ UNCHANGED tabVars
       \/ /\ \/ kind = "known" /\ KnownNext
             \/ kind = "episodes" /\ EpisodesNext /\ OneMessage
             \/ kind = "crowded" /\ CrowdedNext /\ OneMessage /\ OneGeneration
             \/ kind = "deep" /\ DeepNext /\ OneMessage /\ OneGeneration
          /\ UNCHANGED vars
    /\ UNCHANGED kind
MCSpec == MCInit /\ [][MCNext]_<<kind, vars, tabVars>>
=============================================================================
