--------------------------- MODULE MCPlayerRequests ---------------------------
(* The player's requests for model checking: one fetch and one XHR for the same
   media object, each for all of it or for a range. *)
EXTENDS PlayerRequests

CONSTANTS f1, x1
=============================================================================
