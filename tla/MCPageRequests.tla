--------------------------- MODULE MCPageRequests ---------------------------
(* The page's requests, of two kinds that share no state in a behaviour: calls
   of storeChunkFromPage over the bridge, or one fetch and one XHR of the
   player for the same media object, each for all of it or for a range. *)
EXTENDS PageBridge, PlayerRequests

CONSTANTS k1, f1, x1

VARIABLE kind

TheAttempts == [l \in Ladders |-> IF l = "invalidated" THEN 2 ELSE 1]

MCInit ==
    /\ BridgeInit /\ PlayerInit
    /\ \/ kind = "store" /\ disk = hot
       \/ kind = "player" /\ deferred = <<>> /\ ~active
MCNext ==
    /\ \/ kind = "store" /\ BridgeNext /\ UNCHANGED playerVars
       \/ kind = "player" /\ PlayerNext /\ UNCHANGED vars
    /\ UNCHANGED kind
MCSpec ==
    /\ MCInit /\ [][MCNext]_<<kind, vars, playerVars>>
    /\ BridgeFairness
    /\ \A r \in Requests : WF_playerVars(Proceeds(r))
=============================================================================
