-------------------------- MODULE MCExtensionFetch --------------------------
(* What the worker does on the network, of two kinds that share no state: a
   fetch, one of four, or a document whose head is patched as it arrives. The
   fetches are a speculative prefetch and a player's stream of Twitch media,
   whose chunks keep their bytes on the way to the page; and a warm-up for a
   buffered result and the stream of a clip, whose chunks lose them. *)
EXTENDS ExtensionFetch, MCHeadStream, TLC

CONSTANTS prefetch, warmup, player, clip

VARIABLE kind

MCBody == (prefetch :> 2) @@ (warmup :> 2) @@ (player :> 3) @@ (clip :> 2)

MCInit ==
    /\ Init /\ HeadInit
    /\ \/ kind = "fetch" /\ doc = <<"<a", ">", "text">>
       \/ kind = "document"
MCNext ==
    /\ \/ kind = "fetch" /\ Next /\ UNCHANGED headVars
       \/ kind = "document" /\ HeadNext /\ UNCHANGED vars
    /\ UNCHANGED kind
MCSpec == MCInit /\ [][MCNext]_<<kind, vars, headVars>> /\ Fairness
=============================================================================
