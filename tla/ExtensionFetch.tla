--------------------------- MODULE ExtensionFetch ---------------------------
(***************************************************************************)
(* Extension fetches: the page asks the worker to fetch a URL for it       *)
(* (page/bridge/extension-fetch-client.js), either for a buffered result   *)
(* (the prefetcher) or for a stream (a player whose own fetch failed). The *)
(* content relay passes the messages on; the worker                        *)
(* (background/network/extension-fetch.js, message-router.js) races the    *)
(* fetch, replies with the status and headers, and pumps the body as chunk *)
(* messages closed by an END.                                              *)
(*                                                                         *)
(* The reply and the body travel on two channels of the browser, so body   *)
(* messages may overtake the reply; each channel keeps its order. A send   *)
(* the browser rejects is swallowed, and the worker may be stopped. A      *)
(* chunk is an ArrayBuffer in a message of chrome.tabs: what the browser   *)
(* makes of it is outside this code, which treats it as uncertain (the     *)
(* comment on neutered buffers in content/relay.js). Where messages travel *)
(* as JSON, as the manifest has it, no chunk keeps its bytes.              *)
(***************************************************************************)
EXTENDS Naturals, FiniteSets, SequencesExt

CONSTANTS
    Requests,     \* request ids, each used for one call
    Streams,      \* the requests made by requestExtensionFetchStream
    Speculative,  \* the requests whose source matches SPECULATIVE_SOURCE_RE
    TwitchMedia,  \* the requests for Twitch media
    Intact,       \* the requests whose chunks keep their bytes on the way
    Body,         \* [Requests -> Nat], chunks of STREAM_CHUNK_SIZE in the body
    MaxCalls,     \* bound: calls made
    MaxLost,      \* bound: rejected sends of body messages
    MaxStops,     \* bound: stops of the worker
    MaxResets     \* bound: resets of the statistics

ASSUME FetchAssumption ==
    /\ IsFiniteSet(Requests)
    /\ Streams \subseteq Requests
    /\ Speculative \subseteq Requests /\ TwitchMedia \subseteq Requests
    /\ Intact \subseteq Requests
    /\ Body \in [Requests -> Nat]
    /\ {MaxCalls, MaxLost, MaxStops, MaxResets} \subseteq Nat

VARIABLES
    table,    \* streamingByRequestId: entry with its caller, without one, or none
    got,      \* the chunks of the entry
    hasMeta,  \* the entry's meta is set
    timer,    \* requests whose one-shot timeout has not fired
    caller,   \* what the calling code has
    stream,   \* state of the ReadableStream of a streaming request
    data,     \* the chunks handed to the calling code
    up,       \* page to worker: REQUEST and ABORT
    reply,    \* worker to page: the response to the REQUEST
    down,     \* worker to page: CHUNK and END messages
    job,      \* how far handleExtensionFetch has come
    sent,     \* body chunks the worker has sent
    retried,  \* requests fetched again with fresh Twitch credentials
    active,   \* activeFetchControllers
    aborted,  \* requests whose controller was aborted
    lost,     \* history: chunks whose bytes do not arrive
    counts    \* how often each bounded fault has happened

pageVars == <<table, got, hasMeta, timer, caller, stream, data>>
workVars == <<job, sent, retried, active, aborted>>
vars == <<pageVars, up, reply, down, workVars, lost, counts>>

Fetching == {"rule", "race", "single"}
Working == Fetching \cup {"pump", "ending"}

Chunk(i) == [type |-> "CHUNK", index |-> i]
EndOk == [type |-> "OK", index |-> 0]
EndFail == [type |-> "FAIL", index |-> 0]
Messages == [type : {"CHUNK", "OK", "FAIL"}, index : Nat]

TypeOK ==
    /\ table \in [Requests -> {"none", "open", "callerless"}]
    /\ got \in [Requests -> Seq(Nat)] /\ data \in [Requests -> Seq(Nat)]
    /\ hasMeta \in [Requests -> BOOLEAN]
    /\ timer \subseteq Requests
    /\ caller \in [Requests -> {"idle", "waiting", "answered", "failed"}]
    /\ stream \in [Requests -> {"none", "readable", "closed", "errored", "cancelled"}]
    /\ up \in [Requests -> Seq({"REQUEST", "ABORT"})]
    /\ reply \in [Requests -> {"none", "meta", "fail"}]
    /\ down \in [Requests -> Seq(Messages)]
    /\ job \in [Requests -> Working \cup {"none", "done", "killed"}]
    /\ sent \in [Requests -> Nat]
    /\ retried \subseteq Requests /\ active \subseteq Requests /\ aborted \subseteq Requests
    /\ lost \in [Requests -> SUBSET Nat]
    /\ counts \in [{"lost", "stops", "resets"} -> Nat]

Init ==
    /\ table = [r \in Requests |-> "none"]
    /\ got = [r \in Requests |-> <<>>] /\ data = [r \in Requests |-> <<>>]
    /\ hasMeta = [r \in Requests |-> FALSE]
    /\ timer = {}
    /\ caller = [r \in Requests |-> "idle"]
    /\ stream = [r \in Requests |-> "none"]
    /\ up = [r \in Requests |-> <<>>]
    /\ reply = [r \in Requests |-> "none"]
    /\ down = [r \in Requests |-> <<>>]
    /\ job = [r \in Requests |-> "none"]
    /\ sent = [r \in Requests |-> 0]
    /\ retried = {} /\ active = {} /\ aborted = {}
    /\ lost = [r \in Requests |-> {}]
    /\ counts = [lost |-> 0, stops |-> 0, resets |-> 0]

-----------------------------------------------------------------------------
(* The page. *)

(* The entry of r leaves the table. *)
Dropped(r) ==
    /\ table' = [table EXCEPT ![r] = "none"]
    /\ got' = [got EXCEPT ![r] = <<>>]
    /\ hasMeta' = [hasMeta EXCEPT ![r] = FALSE]

StreamEnds(r, how) ==
    stream' = IF stream[r] = "readable" THEN [stream EXCEPT ![r] = how] ELSE stream

CallerFails(r) ==
    caller' = IF caller[r] = "waiting" THEN [caller EXCEPT ![r] = "failed"] ELSE caller

(* settleStreamError: everyone who waits on the entry is told. A player whose
   meta promise is rejected cancels a stream that has already errored, which
   reaches nobody. *)
SettleStreamError(r, how) ==
    /\ Dropped(r)
    /\ IF table[r] = "open" THEN StreamEnds(r, how) /\ CallerFails(r)
                            ELSE UNCHANGED <<stream, caller>>
    /\ UNCHANGED data

(* A faulty OnMeta: the reply settles the call whether or not it is still open. *)
OnMetaAnyway(r) ==
    /\ table' = IF table[r] = "none" THEN [table EXCEPT ![r] = "callerless"] ELSE table
    /\ hasMeta' = [hasMeta EXCEPT ![r] = TRUE]
    /\ caller' = IF r \in Streams THEN [caller EXCEPT ![r] = "answered"] ELSE caller
    /\ UNCHANGED <<got, timer, stream, data>>

(* onExtensionFetchStreamMeta. An entry that is gone is made anew, with nobody
   to call back. *)
OnMeta(r) ==
    /\ table' = IF table[r] = "none" THEN [table EXCEPT ![r] = "callerless"] ELSE table
    /\ hasMeta' = [hasMeta EXCEPT ![r] = TRUE]
    /\ caller' = IF table[r] = "open" /\ r \in Streams
                 THEN [caller EXCEPT ![r] = "answered"] ELSE caller
    /\ UNCHANGED <<got, timer, stream, data>>

(* onExtensionFetchChunk, for a chunk with bytes: the index is not looked at. *)
OnChunk(r, i) ==
    /\ table[r] # "none"
    /\ got' = [got EXCEPT ![r] = Append(@, i)]
    /\ data' = IF stream[r] = "readable" /\ table[r] = "open"
               THEN [data EXCEPT ![r] = Append(@, i)] ELSE data
    /\ UNCHANGED <<table, hasMeta, timer, caller, stream>>

(* A faulty OnEndFail: a buffered call is not resolved. *)
OnEndFailSilent(r) ==
    /\ table[r] # "none"
    /\ Dropped(r)
    /\ IF table[r] = "open" THEN StreamEnds(r, "errored") ELSE UNCHANGED stream
    /\ UNCHANGED <<timer, caller, data>>

(* onExtensionFetchEnd with ok: false. A meta promise stays as it is. *)
OnEndFail(r) ==
    /\ table[r] # "none"
    /\ Dropped(r)
    /\ IF table[r] = "open"
       THEN /\ StreamEnds(r, "errored")
            /\ IF r \in Streams THEN UNCHANGED caller ELSE CallerFails(r)
       ELSE UNCHANGED <<stream, caller>>
    /\ UNCHANGED <<timer, data>>

(* fetchPrefetchBytesWithExtension takes a result with a status and with bytes. *)
Usable(r) == hasMeta[r] /\ got[r] # <<>>

(* onExtensionFetchEnd with ok: true, and what the prefetcher makes of it *)
OnEndOk(r) ==
    /\ table[r] # "none"
    /\ Dropped(r)
    /\ IF table[r] = "open" THEN StreamEnds(r, "closed") ELSE UNCHANGED stream
    /\ IF table[r] = "open" /\ r \notin Streams
       THEN IF Usable(r)
            THEN /\ caller' = [caller EXCEPT ![r] = "answered"]
                 /\ data' = [data EXCEPT ![r] = got[r]]
            ELSE CallerFails(r) /\ UNCHANGED data
       ELSE UNCHANGED <<caller, data>>
    /\ UNCHANGED timer

(* requestExtensionFetchBuffered, requestExtensionFetchStream *)
Call(r) ==
    /\ caller[r] = "idle" /\ Cardinality({q \in Requests : caller[q] # "idle"}) < MaxCalls
    /\ caller' = [caller EXCEPT ![r] = "waiting"]
    /\ table' = [table EXCEPT ![r] = "open"]
    /\ stream' = IF r \in Streams THEN [stream EXCEPT ![r] = "readable"] ELSE stream
    /\ timer' = timer \cup {r}
    /\ up' = [up EXCEPT ![r] = Append(@, "REQUEST")]
    /\ UNCHANGED <<got, hasMeta, data, reply, down, workVars, lost, counts>>

(* stream.cancel(): the cancel callback runs only while the stream is readable. *)
Cancel(r) ==
    IF stream[r] = "readable"
    THEN /\ Dropped(r)
         /\ stream' = [stream EXCEPT ![r] = "cancelled"]
         /\ up' = [up EXCEPT ![r] = Append(@, "ABORT")]
    ELSE UNCHANGED <<table, got, hasMeta, stream, up>>

(* The player and the copy for the cache have both given up on the response. *)
CancelResponse(r) ==
    /\ caller[r] = "answered" /\ stream[r] = "readable"
    /\ Cancel(r)
    /\ UNCHANGED <<timer, caller, data, reply, down, workVars, lost, counts>>

(* EXTENSION_STREAM_META_TIMEOUT_MS: the interceptor waited 8 s for the meta. *)
MetaTimeout(r) ==
    /\ r \in Streams /\ caller[r] = "waiting"
    /\ caller' = [caller EXCEPT ![r] = "failed"]
    /\ Cancel(r)
    /\ UNCHANGED <<timer, data, reply, down, workVars, lost, counts>>

(* A faulty Deadline: an entry that has received a chunk is spared. *)
DeadlineIfEmpty(r) ==
    /\ r \in timer
    /\ ~ (r \in Streams /\ caller[r] = "waiting")
    /\ timer' = timer \ {r}
    /\ IF got[r] = <<>> THEN SettleStreamError(r, "errored")
       ELSE UNCHANGED <<table, got, hasMeta, caller, stream, data>>
    /\ UNCHANGED <<up, reply, down, workVars, lost, counts>>

(* armFetchTimeout's 15 s; the 8 s of an interceptor pass first. *)
Deadline(r) ==
    /\ r \in timer
    /\ ~ (r \in Streams /\ caller[r] = "waiting")
    /\ timer' = timer \ {r}
    /\ SettleStreamError(r, "errored")
    /\ UNCHANGED <<up, reply, down, workVars, lost, counts>>

(* sweepOrphanedStreams, for one of the entries it finds old and empty *)
Sweep(r) ==
    /\ table[r] # "none" /\ got[r] = <<>>
    /\ SettleStreamError(r, "errored")
    /\ UNCHANGED <<timer, up, reply, down, workVars, lost, counts>>

(* The relay posts the response; the bridge looks at its kind. *)
ReceiveReply(r) ==
    /\ reply[r] # "none"
    /\ reply' = [reply EXCEPT ![r] = "none"]
    /\ \/ reply[r] = "meta" /\ OnMeta(r)
       \/ reply[r] = "fail" /\ OnEndFail(r)
       \/ reply[r] = "fail" /\ table[r] = "none" /\ UNCHANGED pageVars
    /\ UNCHANGED <<up, down, workVars, lost, counts>>

(* relayExtensionFetchStreamToPage, and the bridge *)
ReceiveBody(r) ==
    /\ down[r] # <<>>
    /\ down' = [down EXCEPT ![r] = Tail(@)]
    /\ LET m == Head(down[r]) IN
       \/ m.type = "CHUNK" /\ OnChunk(r, m.index)
       \/ m.type = "OK" /\ OnEndOk(r)
       \/ m.type = "FAIL" /\ OnEndFail(r)
       \/ table[r] = "none" /\ UNCHANGED pageVars
    /\ UNCHANGED <<up, reply, workVars, lost, counts>>

-----------------------------------------------------------------------------
(* The worker. *)

(* fetchOnce: a race of two credential modes, or one fetch with a timeout *)
FirstLeg(r) == IF r \in Speculative THEN "single" ELSE "race"

(* The catch block for an AbortError, and the finally block. The relay learns
   of the missing response when the browser collects the channel, if at all. *)
AbortExit(r) ==
    /\ job' = [job EXCEPT ![r] = "done"]
    /\ active' = active \ {r}
    /\ reply' \in {reply, [reply EXCEPT ![r] = "fail"]}

(* handleExtensionFetch up to its first await: that of the Referer rule when a
   player referer is known, that of the fetch otherwise *)
ReceiveRequest(r) ==
    /\ up[r] # <<>> /\ Head(up[r]) = "REQUEST"
    /\ up' = [up EXCEPT ![r] = Tail(@)]
    /\ active' = active \cup {r}
    /\ \E first \in {"rule", FirstLeg(r)} : job' = [job EXCEPT ![r] = first]
    /\ UNCHANGED <<pageVars, reply, down, sent, retried, aborted, lost, counts>>

(* dispatchToBackgroundWorker finds no runtime to send to. *)
RelayRefuses(r) ==
    /\ up[r] # <<>> /\ Head(up[r]) = "REQUEST"
    /\ up' = [up EXCEPT ![r] = Tail(@)]
    /\ reply' = [reply EXCEPT ![r] = "fail"]
    /\ UNCHANGED <<pageVars, down, workVars, lost, counts>>

(* abortActiveExtensionFetch. The signal reaches a fetch that still waits for
   its headers; by the time the body is read it has been unlinked. *)
ReceiveAbort(r) ==
    /\ up[r] # <<>> /\ Head(up[r]) = "ABORT"
    /\ up' = [up EXCEPT ![r] = Tail(@)]
    /\ aborted' = IF r \in active THEN aborted \cup {r} ELSE aborted
    /\ IF r \in active /\ job[r] \in {"race", "single"}
       THEN AbortExit(r)
       ELSE active' = active \ {r} /\ UNCHANGED <<job, reply>>
    /\ UNCHANGED <<pageVars, down, sent, retried, lost, counts>>

(* A faulty StartFetch: an aborted signal is not looked at before the fetch. *)
StartFetchUnchecked(r) ==
    /\ job[r] = "rule"
    /\ job' = [job EXCEPT ![r] = FirstLeg(r)]
    /\ UNCHANGED <<active, reply>>
    /\ UNCHANGED <<pageVars, up, down, sent, retried, aborted, lost, counts>>

(* The Referer rule is in place (or was refused): the fetch begins. *)
StartFetch(r) ==
    /\ job[r] = "rule"
    /\ IF r \in aborted THEN AbortExit(r)
       ELSE /\ job' = [job EXCEPT ![r] = FirstLeg(r)]
            /\ UNCHANGED <<active, reply>>
    /\ UNCHANGED <<pageVars, up, down, sent, retried, aborted, lost, counts>>

(* A response with a good status: sendResponse, and the body is next. *)
Headers(r) ==
    /\ job' = [job EXCEPT ![r] = "pump"]
    /\ reply' = [reply EXCEPT ![r] = "meta"]
    /\ UNCHANGED <<active, retried>>

(* The fetch is given up: the catch block before metaSent, and the finally. *)
FetchFails(r) ==
    /\ job' = [job EXCEPT ![r] = "done"]
    /\ reply' = [reply EXCEPT ![r] = "fail"]
    /\ active' = active \ {r}
    /\ UNCHANGED retried

(* raceExtensionFetch: the first leg to settle decides; unless it is a good
   response, one more fetch with credentials is made. *)
RaceSettles(r) ==
    /\ job[r] = "race"
    /\ \/ Headers(r)
       \/ job' = [job EXCEPT ![r] = "single"] /\ UNCHANGED <<reply, active, retried>>
    /\ UNCHANGED <<pageVars, up, down, sent, aborted, lost, counts>>

(* fetchWithTimeout settles: a good response; 401 or 403 from Twitch, fetched
   again once when the session gives another URL; a failure; its own timeout. *)
SingleSettles(r) ==
    /\ job[r] = "single"
    /\ \/ Headers(r)
       \/ /\ r \in TwitchMedia \ retried
          /\ retried' = retried \cup {r}
          /\ job' = [job EXCEPT ![r] = FirstLeg(r)]
          /\ UNCHANGED <<reply, active>>
       \/ FetchFails(r)
       \/ AbortExit(r) /\ UNCHANGED retried
    /\ UNCHANGED <<pageVars, up, down, sent, aborted, lost, counts>>

(* The bytes of m do not reach the page. *)
Loses(r, m) ==
    /\ lost' = IF m.type = "CHUNK" THEN [lost EXCEPT ![r] = @ \cup {m.index}] ELSE lost
    /\ UNCHANGED down

(* A message of the body. The browser may reject the send; or it carries the
   message and not the bytes of its chunk, of which the relay makes a chunk
   without bytes, and the page nothing at all: that message is left out here. *)
Send(r, m) ==
    \/ /\ m.type = "CHUNK" => r \in Intact
       /\ down' = [down EXCEPT ![r] = Append(@, m)]
       /\ UNCHANGED <<lost, counts>>
    \/ /\ m.type = "CHUNK" /\ r \notin Intact
       /\ Loses(r, m)
       /\ UNCHANGED counts
    \/ /\ counts["lost"] < MaxLost
       /\ counts' = [counts EXCEPT !["lost"] = @ + 1]
       /\ Loses(r, m)

(* A faulty PumpChunk: a chunk may be sent again. *)
PumpChunkAgain(r) ==
    /\ job[r] = "pump" /\ sent[r] < Body[r]
    /\ sent' \in {sent, [sent EXCEPT ![r] = @ + 1]}
    /\ Len(down[r]) < 4
    /\ Send(r, Chunk(sent[r] + 1))
    /\ UNCHANGED <<pageVars, up, reply, job, retried, active, aborted>>

(* pumpResponseBody: the next chunk is complete. *)
PumpChunk(r) ==
    /\ job[r] = "pump" /\ sent[r] < Body[r]
    /\ sent' = [sent EXCEPT ![r] = @ + 1]
    /\ Send(r, Chunk(sent[r] + 1))
    /\ UNCHANGED <<pageVars, up, reply, job, retried, active, aborted>>

(* A faulty PumpEnds: what is left below a full chunk is not flushed. *)
PumpEndsUnflushed(r) ==
    /\ job[r] = "pump"
    /\ \/ sent[r] + 1 >= Body[r] /\ Send(r, EndOk)
       \/ Send(r, EndFail)
    /\ job' = [job EXCEPT ![r] = "ending"]
    /\ UNCHANGED <<pageVars, up, reply, sent, retried, active, aborted>>

(* The body is read to its end, or reading it fails. *)
PumpEnds(r) ==
    /\ job[r] = "pump"
    /\ \/ sent[r] = Body[r] /\ Send(r, EndOk)
       \/ Send(r, EndFail)
    /\ job' = [job EXCEPT ![r] = "ending"]
    /\ UNCHANGED <<pageVars, up, reply, sent, retried, active, aborted>>

(* A faulty Finish: no finally block. *)
FinishOnly(r) ==
    /\ job[r] = "ending"
    /\ job' = [job EXCEPT ![r] = "done"]
    /\ UNCHANGED <<pageVars, up, reply, down, sent, retried, active, aborted, lost, counts>>

(* The send of the END has returned. *)
Finish(r) ==
    /\ job[r] = "ending"
    /\ job' = [job EXCEPT ![r] = "done"]
    /\ active' = active \ {r}
    /\ UNCHANGED <<pageVars, up, reply, down, sent, retried, aborted, lost, counts>>

(* resetExtensionFetchMetrics forgets the controllers of running fetches. *)
ResetMetrics ==
    /\ counts["resets"] < MaxResets
    /\ counts' = [counts EXCEPT !["resets"] = @ + 1]
    /\ active' = {}
    /\ UNCHANGED <<pageVars, up, reply, down, job, sent, retried, aborted, lost>>

(* The worker is stopped: its memory is gone, and the relay's callbacks for
   requests without a reply run with an error. *)
StopWorker ==
    /\ counts["stops"] < MaxStops
    /\ counts' = [counts EXCEPT !["stops"] = @ + 1]
    /\ job' = [r \in Requests |-> IF job[r] \in Working THEN "killed" ELSE job[r]]
    /\ reply' = [r \in Requests |-> IF job[r] \in Fetching THEN "fail" ELSE reply[r]]
    /\ active' = {} /\ aborted' = {}
    /\ UNCHANGED <<pageVars, up, down, sent, retried, lost>>

PageStep(r) ==
    \/ Call(r) \/ CancelResponse(r) \/ MetaTimeout(r) \/ Deadline(r) \/ Sweep(r)
    \/ ReceiveReply(r) \/ ReceiveBody(r)

WorkerStep(r) ==
    \/ ReceiveRequest(r) \/ RelayRefuses(r) \/ ReceiveAbort(r) \/ StartFetch(r)
    \/ RaceSettles(r) \/ SingleSettles(r) \/ PumpChunk(r) \/ PumpEnds(r) \/ Finish(r)

Next == ResetMetrics \/ StopWorker \/ \E r \in Requests : PageStep(r) \/ WorkerStep(r)

(* The page's timers fire. The network, the worker and the messages between
   them promise nothing. *)
Fairness == \A r \in Requests : WF_vars(MetaTimeout(r)) /\ WF_vars(Deadline(r))

Spec == Init /\ [][Next]_vars /\ Fairness

-----------------------------------------------------------------------------
(* Properties. *)

(* The sequence holds, in order and each once, the first chunks of the body up
   to the one numbered last, without those whose bytes did not arrive. *)
HoldsUpTo(chunks, r, last) ==
    /\ \A i, j \in 1..Len(chunks) : i < j => chunks[i] < chunks[j]
    /\ {chunks[i] : i \in 1..Len(chunks)} = (1..last) \ lost[r]

(* Nobody waits without a clock: an entry with a caller has its timeout armed,
   and whoever still expects bytes (a buffered call, the reader of a stream)
   has such an entry, whichever of the reply, the body, the timeouts, the
   sweep, a cancel and a stop of the worker come first. *)
NobodyForgotten ==
    \A r \in Requests :
        /\ table[r] = "open" => r \in timer
        /\ table[r] = "open" <=> IF r \in Streams THEN stream[r] = "readable"
                                                  ELSE caller[r] = "waiting"

(* Bytes that count as the whole body (a buffered result, a stream closed
   without error) are every chunk that arrived with its bytes, each once and in
   order, up to the last chunk of the body; and a buffered call whose chunks
   have all lost theirs is not answered with nothing, as a stream is. *)
WholeBody ==
    \A r \in Requests :
        (IF r \in Streams THEN stream[r] = "closed" ELSE caller[r] = "answered")
            => /\ HoldsUpTo(data[r], r, Body[r])
               /\ r \notin Streams => data[r] # <<>>

(* What a stream has handed to the player is a beginning of the body. *)
StreamInOrder ==
    \A r \in Streams : \E last \in 0..sent[r] : HoldsUpTo(data[r], r, last)

(* activeFetchControllers holds controllers of running fetches only, whichever
   way a fetch ends. *)
ControllersAreLive == \A r \in active : job[r] \in Working

(* An abort that arrives before the headers ends the fetch: no further leg, no
   reply with headers, no body. *)
AbortStopsFetch ==
    [][\A r \in Requests : r \in aborted' /\ job[r] \in Fetching =>
           job'[r] \in {"rule", "done", "killed"}]_vars

(* What a call was given does not change afterwards: a late reply, chunk, END
   or timeout alters neither its outcome nor the bytes of a settled call. *)
SettledStays ==
    [][\A r \in Requests :
           /\ caller[r] \in {"answered", "failed"} => caller'[r] = caller[r]
           /\ caller[r] # "waiting" /\ stream[r] # "readable" => data'[r] = data[r]
              ]_vars

(* Every call settles, and every stream ends, by the page's timers alone. *)
EveryCallSettles ==
    \A r \in Requests :
        /\ caller[r] = "waiting" ~> caller[r] \in {"answered", "failed"}
        /\ stream[r] = "readable" ~> stream[r] # "readable"
=============================================================================
