------------------------------ MODULE StoreCalls ------------------------------
(***************************************************************************)
(* What a page is promised about storeChunkFromPage (page/bridge/core.js): *)
(* every call is answered at most once and the answer never changes, a     *)
(* chunk is stored only because a call asked for it, and a call is         *)
(* answered ok only for a chunk that was stored. PageBridge implements it  *)
(* over a relay that loses, delays and repeats requests.                   *)
(***************************************************************************)
EXTENDS Naturals

CONSTANTS
    Calls,  \* calls of storeChunkFromPage
    Keys,   \* what a call stores: a URL and its byte length
    Nil

VARIABLES
    answer,  \* what the caller's promise resolved to
    asked,   \* the key a call was made with, or Nil
    stored   \* keys the background has ever stored for the page

promise == <<answer, asked, stored>>

PromiseInit ==
    /\ answer = [c \in Calls |-> "none"]
    /\ asked = [c \in Calls |-> Nil]
    /\ stored = {}

Ask(c, k, now) ==
    /\ answer[c] = "none"
    /\ asked' = [asked EXCEPT ![c] = k]
    /\ answer' = [answer EXCEPT ![c] = now]
    /\ UNCHANGED stored

Store(k) ==
    /\ \E c \in Calls : asked[c] = k
    /\ stored' = stored \cup {k}
    /\ UNCHANGED <<answer, asked>>

Answer(S, how) ==
    /\ \A c \in S : answer[c] = "open"
    /\ how = "ok" => \A c \in S : asked[c] \in stored
    /\ answer' = [c \in Calls |-> IF c \in S THEN how ELSE answer[c]]
    /\ UNCHANGED <<asked, stored>>

PromiseNext ==
    \/ \E c \in Calls, k \in Keys, now \in {"open", "failed"} : Ask(c, k, now)
    \/ \E k \in Keys : Store(k)
    \/ \E S \in SUBSET Calls, how \in {"ok", "failed"} : Answer(S, how)

PromiseSpec == PromiseInit /\ [][PromiseNext]_promise
=============================================================================
