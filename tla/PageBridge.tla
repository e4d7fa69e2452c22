------------------------------ MODULE PageBridge ------------------------------
(***************************************************************************)
(* The path of a captured chunk from the page to the background worker:    *)
(* storeChunkFromPage with its retry ladders, its in-flight table and the  *)
(* queue of stores deferred to a reconnect (page/bridge/core.js), the      *)
(* table of pending requests that a reply, a timer or an abort settles     *)
(* (core.js, message-bridge.js), and the content script that relays the    *)
(* requests and may be superseded, orphaned or unable to reach a worker    *)
(* that is not running (content/relay.js).                                 *)
(*                                                                         *)
(* An action is one turn of one event loop: the page's, the relay's or the *)
(* background's. Messages may overtake each other.                         *)
(***************************************************************************)
EXTENDS Naturals, Sequences, FiniteSets

CONSTANTS
    Calls,       \* calls of storeChunkFromPage, numbered in order; a model's bound
    Flushers,    \* concurrent runs of flushPendingStoresAfterReconnect
    Keys,        \* storeInflightKey: a URL and the payload's byte length
    Attempts,    \* [Ladders -> Nat], the attempts of each retry ladder
    MaxDeferred, \* MAX_PENDING_STORE_AFTER_RECONNECT
    Nil

Ladders == {"plain", "invalidated", "pressure"}

(* How a request can end: stored, turned down for good, a worker that is not
   running ("Receiving end does not exist"), a context that is gone, a full
   store queue, any other transient failure; a lookup hits or misses. *)
Failures == {"refused", "unreachable", "invalidated", "pressure", "transient"}
Results == Failures \cup {"ok"}

ASSUME BridgeAssumption ==
    /\ Calls \subseteq Nat
    /\ Attempts \in [Ladders -> Nat \ {0}]
    /\ MaxDeferred \in Nat \ {0}
    /\ Nil \notin Calls /\ Nil \notin Keys

MaxAttempts == Attempts["plain"] + Attempts["invalidated"] + Attempts["pressure"]

VARIABLES
    call,      \* one record per call of storeChunkFromPage
    inflight,  \* inflightChunkStores: key -> the call that stores it, or Nil
    pending,   \* the table of pending requests
    storeIds,  \* pendingStoreRequestIds
    wire,      \* requests and replies under way
    deferred,  \* pendingStoreAfterReconnect
    flusher,   \* one record per run of the flush
    active,    \* ns.isMediaBridgeActive()
    relay,     \* the content script's instance in this page's isolated world
    orphaned,  \* the extension was reloaded: the relay's runtime is gone
    stored     \* keys the background has stored at some time

page == <<call, inflight, pending, storeIds, deferred, flusher, active>>
world == <<relay, orphaned, stored>>
vars == <<page, wire, world>>

(* A request's id: the call and the attempt; 0 is the recovery lookup. *)
Ids == Calls \X (0..MaxAttempts)
Message == [at : {"relay", "background"}, id : Ids, res : {Nil}]
    \cup [at : {"page"}, id : Ids, res : Results \cup {"hit", "miss"}]

Request(id) == [at |-> "relay", id |-> id, res |-> Nil]
Reply(id, res) == [at |-> "page", id |-> id, res |-> res]

CallRec == [pc : {"unasked", "joined", "waiting", "delay", "lookup", "done"},
            key : Keys \cup {Nil}, by : Calls \cup {Nil}, n : 0..MaxAttempts,
            last : Failures \cup {Nil}, cut : BOOLEAN,
            out : {"none", "open", "ok", "failed", "aborted", "skipped"}]
CallState(pc, k, by, n, out) ==
    [pc |-> pc, key |-> k, by |-> by, n |-> n, last |-> Nil, cut |-> FALSE, out |-> out]
FreshCall == CallState("unasked", Nil, Nil, 0, "none")
FlusherRec == [batch : Seq(Keys), cur : Calls \cup {Nil}]
IdleFlusher == [batch |-> <<>>, cur |-> Nil]

KeyOf(id) == call[id[1]].key

(* message-bridge.js: a reply whose id is no longer pending changes nothing, so
   it is dropped as soon as that is so. *)
Live(messages, open) == {m \in messages : m.at = "page" => m.id \in open}

-----------------------------------------------------------------------------
(* storeRetryPlan and isTransientStoreFailure. The regular expression of the
   latter matches no part of "Receiving end does not exist". *)
Ladder(res) ==
    CASE res \in {"invalidated", "unreachable"} -> "invalidated"
      [] res = "pressure" -> "pressure"
      [] OTHER -> "plain"
Transient(res) == res \in {"invalidated", "pressure", "transient"}
Retries(res, n) == Transient(res) /\ n < Attempts[Ladder(res)]

-----------------------------------------------------------------------------
(* What the page does with its records; the actions combine these. *)

Posted(c, n) ==
    /\ pending' = pending \cup {<<c, n>>}
    /\ storeIds' = storeIds \cup {<<c, n>>}
    /\ wire' = wire \cup {Request(<<c, n>>)}

(* The call returns at once: the bridge is idle, or the bytes are detached. *)
Declined(c, k, out) ==
    /\ call' = [call EXCEPT ![c] = CallState("done", k, Nil, 0, out)]
    /\ UNCHANGED <<inflight, pending, storeIds, wire>>

(* The call shares the promise of the store of the same key under way. *)
Joined(c, k) ==
    /\ call' = [call EXCEPT ![c] = CallState("joined", k, inflight[k], 0, "open")]
    /\ UNCHANGED <<inflight, pending, storeIds, wire>>

Started(c, k) ==
    /\ call' = [call EXCEPT ![c] = CallState("waiting", k, Nil, 1, "open")]
    /\ inflight' = [inflight EXCEPT ![k] = c]
    /\ Posted(c, 1)

(* storeChunkFromPage up to its first await. *)
Asked(c, k) ==
    /\ call[c].pc = "unasked"
    /\ \A d \in Calls : d < c => call[d].pc # "unasked"
    /\ \/ ~active /\ Declined(c, k, "skipped")
       \/ active /\ Declined(c, k, "failed")
       \/ active /\ inflight[k] # Nil /\ Joined(c, k)
       \/ active /\ inflight[k] = Nil /\ Started(c, k)

(* The run of c ends: its promise and that of every call that shares it. *)
Ended(c, res, out) ==
    [d \in Calls |->
        IF d = c THEN [call[d] EXCEPT !.pc = "done", !.last = res, !.out = out]
        ELSE IF call[d].pc = "joined" /\ call[d].by = c
        THEN [call[d] EXCEPT !.pc = "done", !.out = out]
        ELSE call[d]]

(* A faulty Released: the finally block forgets to compare the promise. *)
ReleasedAny(c) == [inflight EXCEPT ![call[c].key] = Nil]

(* The finally block: the entry is dropped if it is still this run's. *)
Released(c) == [k \in Keys |-> IF inflight[k] = c THEN Nil ELSE inflight[k]]

Deferred(c) ==
    Append(IF Len(deferred) < MaxDeferred THEN deferred ELSE Tail(deferred), call[c].key)

-----------------------------------------------------------------------------
(* A call that a script makes (an interceptor captured a chunk). *)
Ask(c, k) ==
    /\ Asked(c, k)
    /\ UNCHANGED <<deferred, flusher, active, world>>

(* The request <<c, n>> settles with res: a reply, the 30 s timer. *)
AttemptEnds(c, res) ==
    LET n == call[c].n
        closed == pending \ {<<c, n>>}
    IN  /\ storeIds' = storeIds \ {<<c, n>>}
        /\ \/ /\ res = "ok" \/ ~Transient(res)
              /\ call' = Ended(c, IF res = "ok" THEN Nil ELSE res, IF res = "ok" THEN "ok" ELSE "failed")
              /\ inflight' = Released(c)
              /\ pending' = closed
              /\ wire' = Live(wire, closed)
           \/ /\ Retries(res, n)
              /\ call' = [call EXCEPT ![c].pc = "delay", ![c].last = res]
              /\ pending' = closed
              /\ wire' = Live(wire, closed)
              /\ UNCHANGED inflight
           \/ /\ Transient(res) /\ ~Retries(res, n)
              /\ call' = [call EXCEPT ![c].pc = "lookup", ![c].last = res]
              /\ pending' = closed \cup {<<c, 0>>}
              /\ wire' = Live(wire, closed) \cup {Request(<<c, 0>>)}
              /\ UNCHANGED inflight
        /\ UNCHANGED deferred

(* A faulty LookupEnds: any answer to the lookup counts as a recovery. *)
LookupEndsTrusting(c, hit) ==
    /\ call' = Ended(c, call[c].last, "ok")
    /\ inflight' = Released(c)
    /\ pending' = pending \ {<<c, 0>>}
    /\ wire' = Live(wire, pending')
    /\ UNCHANGED <<storeIds, deferred>>

(* recoverStoreFromCache settles: a hit proves the chunk is there; a store
   whose context is gone is put off to the reconnect. *)
LookupEnds(c, hit) ==
    /\ call' = Ended(c, call[c].last, IF hit THEN "ok" ELSE "failed")
    /\ inflight' = Released(c)
    /\ pending' = pending \ {<<c, 0>>}
    /\ deferred' = IF ~hit /\ call[c].last = "invalidated" THEN Deferred(c) ELSE deferred
    /\ wire' = Live(wire, pending')
    /\ UNCHANGED storeIds

Settles(id, res) ==
    /\ id \in pending
    /\ \/ id[2] # 0 /\ AttemptEnds(id[1], res)
       \/ id[2] = 0 /\ LookupEnds(id[1], res = "hit")
    /\ UNCHANGED <<flusher, active, world>>

(* message-bridge.js: a reply settles the request it names. *)
PageHears(m) ==
    /\ m.at = "page"
    /\ Settles(m.id, m.res)

(* requestRuntime's own timer. *)
RequestTimesOut(id) == Settles(id, IF id[2] = 0 THEN "miss" ELSE "transient")

(* delayWithAbortSignal ends: the next attempt is posted. *)
RetryPosts(c) ==
    /\ call[c].pc = "delay"
    /\ call' = [call EXCEPT ![c].pc = "waiting", ![c].n = @ + 1]
    /\ Posted(c, call[c].n + 1)
    /\ UNCHANGED <<inflight, deferred, flusher, active, world>>

(* A faulty Teardown: the requests are forgotten, their promises not settled. *)
TeardownSilent ==
    /\ \E k \in Keys : inflight[k] # Nil
    /\ inflight' = [k \in Keys |-> Nil]
    /\ pending' = pending \ storeIds
    /\ storeIds' = {}
    /\ wire' = Live(wire, pending')
    /\ UNCHANGED <<call, deferred, flusher, active, world>>

(* A faulty Teardown: the abort resolves the promises and leaves the table. *)
TeardownKeepsIds ==
    LET leaders == {inflight[k] : k \in Keys} \ {Nil}
        stopped == {c \in leaders : call[c].pc \in {"waiting", "delay"}}
    IN  /\ leaders # {}
        /\ call' = [d \in Calls |->
               IF d \in stopped \/ (call[d].pc = "joined" /\ call[d].by \in stopped)
               THEN [call[d] EXCEPT !.pc = "done", !.out = "aborted"]
               ELSE IF d \in leaders THEN [call[d] EXCEPT !.cut = TRUE]
               ELSE call[d]]
        /\ inflight' = [k \in Keys |-> Nil]
        /\ storeIds' = {}
        /\ UNCHANGED <<pending, wire, deferred, flusher, active, world>>

(* cancelInflightChunkStores: every store in the table is aborted, whether it
   waits for a reply or for its next attempt; one that is in its recovery
   lookup goes on, for the lookup does not take the signal. *)
Teardown ==
    LET leaders == {inflight[k] : k \in Keys} \ {Nil}
        stopped == {c \in leaders : call[c].pc \in {"waiting", "delay"}}
    IN  /\ leaders # {}
        /\ call' = [d \in Calls |->
               IF d \in stopped \/ (call[d].pc = "joined" /\ call[d].by \in stopped)
               THEN [call[d] EXCEPT !.pc = "done", !.out = "aborted"]
               ELSE IF d \in leaders THEN [call[d] EXCEPT !.cut = TRUE]
               ELSE call[d]]
        /\ inflight' = [k \in Keys |-> Nil]
        /\ pending' = pending \ storeIds
        /\ storeIds' = {}
        /\ wire' = Live(wire, pending')
        /\ UNCHANGED <<deferred, flusher, active, world>>

Activate ==
    /\ ~active
    /\ active' = TRUE
    /\ UNCHANGED <<call, inflight, pending, storeIds, deferred, flusher, wire, world>>

-----------------------------------------------------------------------------
(* flushPendingStoresAfterReconnect: one store after the other. *)

Reachable == relay = "active" /\ ~orphaned

(* SETTINGS_UPDATED or EXTENSION_RECOVERED reaches the page. *)
FlushBegins(f) ==
    /\ Reachable
    /\ deferred # <<>>
    /\ flusher[f] = IdleFlusher
    /\ \E c \in Calls :
          /\ Asked(c, Head(deferred))
          /\ flusher' = [flusher EXCEPT ![f] = [batch |-> Tail(deferred), cur |-> c]]
    /\ deferred' = <<>>
    /\ UNCHANGED <<active, world>>

FlushGoesOn(f) ==
    /\ flusher[f].cur # Nil
    /\ call[flusher[f].cur].pc = "done"
    /\ \/ /\ flusher[f].batch = <<>>
          /\ flusher' = [flusher EXCEPT ![f] = IdleFlusher]
          /\ UNCHANGED <<call, inflight, pending, storeIds, wire>>
       \/ /\ flusher[f].batch # <<>>
          /\ \E c \in Calls :
                /\ Asked(c, Head(flusher[f].batch))
                /\ flusher' = [flusher EXCEPT ![f] = [batch |-> Tail(flusher[f].batch), cur |-> c]]
    /\ UNCHANGED <<deferred, active, world>>

-----------------------------------------------------------------------------
(* The relay. A message stays on the wire until its receiver has taken it. *)

Answered(m, res) ==
    wire' = Live((wire \ {m}) \cup {Reply(m.id, res)}, pending)

(* dispatchToBackgroundWorker gives up or sendMessage fails. *)
Unsent(m, res) == Answered(m, IF m.id[2] = 0 THEN "miss" ELSE res)

RelayTakes(m) ==
    /\ m.at = "relay"
    /\ \/ /\ relay \in {"absent", "superseded"}              \* nobody listens
          /\ wire' = wire \ {m}
          /\ UNCHANGED relay
       \/ /\ relay \in {"active", "dead"} /\ m.id[2] # 0     \* bytes too large or gone
          /\ Unsent(m, "refused") /\ UNCHANGED relay
       \/ /\ relay = "dead"
          /\ Unsent(m, "invalidated") /\ UNCHANGED relay
       \/ /\ relay = "active" /\ orphaned
          /\ \/ Unsent(m, "transient") /\ UNCHANGED relay     \* chrome.runtime.id is gone
             \/ Unsent(m, "invalidated") /\ relay' = "dead"
       \/ /\ relay = "active" /\ ~orphaned
          /\ \/ Unsent(m, "unreachable")                      \* the worker is stopped
             \/ wire' = (wire \ {m}) \cup {[m EXCEPT !.at = "background"]}
          /\ UNCHANGED relay
    /\ UNCHANGED <<page, orphaned, stored>>

(* The script runs in the page's isolated world: its first statement counts the
   generation up, which retires the instance before it, whatever comes of it. A
   second copy asks the background for an answer to its Ping, which only content
   scripts give: it installs itself when the ping throws because the context is
   gone, and otherwise returns. *)
Inject ==
    /\ \/ relay = "absent" /\ relay' = "active"
       \/ relay # "absent" /\ relay' = "superseded"
       \/ relay # "absent" /\ orphaned /\ relay' = "active"
    /\ UNCHANGED <<page, wire, orphaned, stored>>

(* The extension is reloaded, which leaves this world's runtime behind for good. *)
Reload ==
    /\ ~orphaned
    /\ orphaned' = TRUE
    /\ UNCHANGED <<page, wire, relay, stored>>

-----------------------------------------------------------------------------
(* The background's answers, and its silence: the worker dies with the message
   port open, before the store or after it. *)

BackgroundStores(m) ==
    /\ m.at = "background" /\ m.id[2] # 0
    /\ stored' = stored \cup {KeyOf(m.id)}
    /\ \E res \in {"ok", "transient"} : Answered(m, res)
    /\ UNCHANGED <<page, relay, orphaned>>

BackgroundFails(m) ==
    /\ m.at = "background" /\ m.id[2] # 0
    /\ \E res \in {"refused", "pressure", "transient"} : Answered(m, res)
    /\ UNCHANGED <<page, world>>

(* What was stored may be evicted by now, so a miss is always possible. *)
BackgroundLooksUp(m) ==
    /\ m.at = "background" /\ m.id[2] = 0
    /\ \/ KeyOf(m.id) \in stored /\ Answered(m, "hit")
       \/ Answered(m, "miss")
    /\ UNCHANGED <<page, world>>

-----------------------------------------------------------------------------
(* Stores of calls that were over before the first of Calls may be deferred. *)
BridgeInit ==
    /\ call = [c \in Calls |-> FreshCall]
    /\ inflight = [k \in Keys |-> Nil]
    /\ pending = {} /\ storeIds = {} /\ wire = {}
    /\ deferred \in UNION {[1..n -> Keys] : n \in 0..MaxDeferred}
    /\ flusher = [f \in Flushers |-> IdleFlusher]
    /\ active \in BOOLEAN
    /\ relay = "absent"
    /\ orphaned = FALSE
    /\ stored = {}

BridgeNext ==
    \/ \E c \in Calls, k \in Keys : Ask(c, k)
    \/ \E m \in wire : PageHears(m) \/ RelayTakes(m)
                        \/ BackgroundStores(m) \/ BackgroundFails(m) \/ BackgroundLooksUp(m)
    \/ \E id \in pending : RequestTimesOut(id)
    \/ \E c \in Calls : RetryPosts(c)
    \/ Teardown \/ Activate \/ Inject \/ Reload
    \/ \E f \in Flushers : FlushBegins(f) \/ FlushGoesOn(f)

(* The page's timers run; nothing is assumed of the relay or the worker. *)
BridgeFairness ==
    /\ \A id \in Ids : WF_vars(RequestTimesOut(id))
    /\ \A c \in Calls : WF_vars(RetryPosts(c))

BridgeSpec == BridgeInit /\ [][BridgeNext]_vars /\ BridgeFairness

-----------------------------------------------------------------------------
(* The state stays in its declared sets. *)
BridgeTypeOK ==
    /\ call \in [Calls -> CallRec]
    /\ inflight \in [Keys -> Calls \cup {Nil}]
    /\ pending \subseteq Ids /\ storeIds \subseteq Ids
    /\ wire \subseteq Message
    /\ deferred \in Seq(Keys)
    /\ flusher \in [Flushers -> FlusherRec]
    /\ active \in BOOLEAN
    /\ relay \in {"absent", "active", "dead", "superseded"}
    /\ orphaned \in BOOLEAN
    /\ stored \subseteq Keys

Running(c) == call[c].pc \in {"waiting", "delay", "lookup"}

(* core.js:163-186, 233-300: three tables describe the requests under way (the
   resolvers, the ids of stores, the in-flight promises), and replies, timers,
   aborts and retries each update some of them. A request is in the table
   exactly while its call waits for it, and the store ids are the stores
   among them: no resolver is lost, and none is left to answer a later one. *)
PendingAreAwaited ==
    /\ pending = {<<c, call[c].n>> : c \in {d \in Calls : call[d].pc = "waiting"}}
                 \cup {<<c, 0>> : c \in {d \in Calls : call[d].pc = "lookup"}}
    /\ storeIds = {id \in pending : id[2] # 0}

(* core.js:458-462, 524-529: at most one run of a key is under way, except for
   a run that a teardown cut off in its recovery lookup: the end of that one
   must not release the entry of the run that has taken its place. *)
OneLeaderPerKey ==
    \A c \in Calls :
        Running(c) /\ ~call[c].cut => inflight[call[c].key] = c

(* core.js:270-283, 424-533: whatever the relay and the worker lose, every call
   of storeChunkFromPage settles, joined ones with the run they share. *)
EveryCallSettles ==
    \A c \in Calls : call[c].pc # "unasked" ~> call[c].pc = "done"

Verdict(c) == IF call[c].out \in {"aborted", "skipped"} THEN "failed" ELSE call[c].out

Promise == INSTANCE StoreCalls
    WITH answer <- [c \in Calls |-> Verdict(c)], asked <- [c \in Calls |-> call[c].key]

(* core.js:408-533: the ladders, the shared promises and the recovery lookup
   together keep the promise of StoreCalls: one answer per call, and ok only
   for a chunk the background has stored. *)
KeepsPromise == Promise!PromiseSpec
=============================================================================
