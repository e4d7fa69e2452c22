------------------------ MODULE FetchAndHeadProofs ------------------------
(***************************************************************************)
(* What TLAPS proves of ExtensionFetch and of HeadStream, which            *)
(* MCExtensionFetch puts together: for every set of requests, every        *)
(* length of their bodies and any number of faults, no call is forgotten   *)
(* and no body misses a chunk; and for every document that closes its tags *)
(* and any limits, the hints are those of its head and stand in it.        *)
(***************************************************************************)
EXTENDS ExtensionFetch, HeadStream, FiniteSetTheorems, SequenceTheorems,
        WellFoundedInduction, TLAPS


-----------------------------------------------------------------------------
(* Types *)

LEMMA TailOf ==
    ASSUME NEW S, NEW q \in Seq(S), q # <<>>
    PROVE  Head(q) \in S /\ Tail(q) \in Seq(S)
<1>1. Len(q) > 0
  OBVIOUS
<1> QED BY <1>1

(* What the handlers of the page's messages leave. *)
PageTypes ==
    /\ table \in [Requests -> {"none", "open", "callerless"}]
    /\ got \in [Requests -> Seq(Nat)] /\ data \in [Requests -> Seq(Nat)]
    /\ hasMeta \in [Requests -> BOOLEAN]
    /\ timer \subseteq Requests
    /\ caller \in [Requests -> {"idle", "waiting", "answered", "failed"}]
    /\ stream \in [Requests -> {"none", "readable", "closed", "errored", "cancelled"}]

LEMMA DroppedType ==
    ASSUME PageTypes, NEW r \in Requests, Dropped(r)
    PROVE  /\ table' \in [Requests -> {"none", "open", "callerless"}]
           /\ got' \in [Requests -> Seq(Nat)]
           /\ hasMeta' \in [Requests -> BOOLEAN]
BY DEF PageTypes, Dropped

LEMMA MetaType ==
    ASSUME PageTypes, NEW r \in Requests, OnMeta(r) PROVE PageTypes'
BY DEF PageTypes, OnMeta

LEMMA ChunkType ==
    ASSUME PageTypes, NEW r \in Requests, NEW i \in Nat, OnChunk(r, i) PROVE PageTypes'
<1>1. Append(got[r], i) \in Seq(Nat) /\ Append(data[r], i) \in Seq(Nat)
  BY DEF PageTypes
<1> QED BY <1>1 DEF PageTypes, OnChunk

LEMMA EndFailType ==
    ASSUME PageTypes, NEW r \in Requests, OnEndFail(r) PROVE PageTypes'
<1>1. /\ stream' \in [Requests -> {"none", "readable", "closed", "errored", "cancelled"}]
      /\ caller' \in [Requests -> {"idle", "waiting", "answered", "failed"}]
  BY DEF PageTypes, OnEndFail, StreamEnds, CallerFails
<1> QED BY <1>1, DroppedType DEF PageTypes, OnEndFail

LEMMA EndOkType ==
    ASSUME PageTypes, NEW r \in Requests, OnEndOk(r) PROVE PageTypes'
<1>1. stream' \in [Requests -> {"none", "readable", "closed", "errored", "cancelled"}]
  BY DEF PageTypes, OnEndOk, Usable, StreamEnds
<1>2. /\ caller' \in [Requests -> {"idle", "waiting", "answered", "failed"}]
      /\ data' \in [Requests -> Seq(Nat)]
  <2>1. \/ UNCHANGED <<caller, data>>
        \/ caller' = [caller EXCEPT ![r] = "answered"] /\ data' = [data EXCEPT ![r] = got[r]]
        \/ CallerFails(r) /\ UNCHANGED data
    BY DEF OnEndOk, Usable
  <2>2. caller' \in [Requests -> {"idle", "waiting", "answered", "failed"}]
    BY <2>1 DEF PageTypes, CallerFails
  <2>3. got[r] \in Seq(Nat) /\ data \in [Requests -> Seq(Nat)]
    BY DEF PageTypes
  <2>4. data' = data \/ data' = [data EXCEPT ![r] = got[r]]
    BY <2>1
  <2> QED BY <2>2, <2>3, <2>4
<1> QED BY <1>1, <1>2, DroppedType DEF PageTypes, OnEndOk, Usable

LEMMA SettleType ==
    ASSUME PageTypes, NEW r \in Requests,
           NEW how \in {"errored", "cancelled"}, SettleStreamError(r, how),
           timer' \subseteq Requests
    PROVE  PageTypes'
<1>1. /\ stream' \in [Requests -> {"none", "readable", "closed", "errored", "cancelled"}]
      /\ caller' \in [Requests -> {"idle", "waiting", "answered", "failed"}]
  BY DEF PageTypes, SettleStreamError, StreamEnds, CallerFails
<1> QED BY <1>1, DroppedType DEF PageTypes, SettleStreamError

LEMMA CancelType ==
    ASSUME TypeOK, NEW r \in Requests, Cancel(r)
    PROVE  /\ table' \in [Requests -> {"none", "open", "callerless"}]
           /\ got' \in [Requests -> Seq(Nat)]
           /\ hasMeta' \in [Requests -> BOOLEAN]
           /\ stream' \in [Requests -> {"none", "readable", "closed", "errored", "cancelled"}]
           /\ up' \in [Requests -> Seq({"REQUEST", "ABORT"})]
<1>1. Append(up[r], "ABORT") \in Seq({"REQUEST", "ABORT"})
  BY DEF TypeOK
<1>2. CASE stream[r] = "readable"
  <2>1. up' \in [Requests -> Seq({"REQUEST", "ABORT"})]
    <3>1. up' = [up EXCEPT ![r] = Append(@, "ABORT")]
      BY <1>2 DEF Cancel
    <3>2. up \in [Requests -> Seq({"REQUEST", "ABORT"})]
      BY DEF TypeOK
    <3> QED BY ONLY <1>1, <3>1, <3>2
  <2>2. /\ table' \in [Requests -> {"none", "open", "callerless"}]
        /\ got' \in [Requests -> Seq(Nat)]
        /\ hasMeta' \in [Requests -> BOOLEAN]
    <3>1. PageTypes /\ Dropped(r)
      BY <1>2 DEF TypeOK, PageTypes, Cancel
    <3> QED BY <3>1, DroppedType
  <2>3. stream' \in [Requests -> {"none", "readable", "closed", "errored", "cancelled"}]
    <3>1. stream' = [stream EXCEPT ![r] = "cancelled"]
      BY <1>2 DEF Cancel
    <3> QED BY <3>1 DEF TypeOK
  <2> QED BY <2>1, <2>2, <2>3
<1>3. CASE stream[r] # "readable"
  BY <1>3 DEF TypeOK, Cancel
<1> QED BY <1>2, <1>3

LEMMA SendType ==
    ASSUME TypeOK, NEW r \in Requests, NEW m \in Messages, Send(r, m)
    PROVE  /\ down' \in [Requests -> Seq(Messages)]
           /\ lost' \in [Requests -> SUBSET Nat]
           /\ counts' \in [{"lost", "stops", "resets"} -> Nat]
<1>1. Append(down[r], m) \in Seq(Messages) /\ m.index \in Nat
  BY DEF TypeOK, Messages
<1>2. counts["lost"] + 1 \in Nat
  BY DEF TypeOK
<1>3. lost[r] \cup {m.index} \in SUBSET Nat
  BY <1>1 DEF TypeOK
<1> HIDE DEF Messages
<1>4. /\ down \in [Requests -> Seq(Messages)] /\ lost \in [Requests -> SUBSET Nat]
      /\ counts \in [{"lost", "stops", "resets"} -> Nat]
  BY DEF TypeOK
<1>5. /\ down' = down \/ down' = [down EXCEPT ![r] = Append(@, m)]
      /\ lost' = lost \/ lost' = [lost EXCEPT ![r] = @ \cup {m.index}]
      /\ counts' = counts \/ counts' = [counts EXCEPT !["lost"] = @ + 1]
  BY DEF Send, Loses
<1>6. down' \in [Requests -> Seq(Messages)]
  BY ONLY <1>1, <1>4, <1>5
<1>7. lost' \in [Requests -> SUBSET Nat]
  BY ONLY <1>3, <1>4, <1>5
<1>8. counts' \in [{"lost", "stops", "resets"} -> Nat]
  BY ONLY <1>2, <1>4, <1>5
<1> QED BY ONLY <1>6, <1>7, <1>8

LEMMA TypeInit == Init => TypeOK
BY DEF Init, TypeOK, Working, Fetching

(* What the messages and the worker's state are. *)
OtherTypes ==
    /\ up \in [Requests -> Seq({"REQUEST", "ABORT"})]
    /\ reply \in [Requests -> {"none", "meta", "fail"}]
    /\ down \in [Requests -> Seq(Messages)]
    /\ job \in [Requests -> Working \cup {"none", "done", "killed"}]
    /\ sent \in [Requests -> Nat]
    /\ retried \subseteq Requests /\ active \subseteq Requests /\ aborted \subseteq Requests
    /\ lost \in [Requests -> SUBSET Nat]
    /\ counts \in [{"lost", "stops", "resets"} -> Nat]

LEMMA TypeSplit == TypeOK <=> PageTypes /\ OtherTypes
BY DEF TypeOK, PageTypes, OtherTypes

LEMMA PageType ==
    ASSUME TypeOK, NEW r \in Requests, PageStep(r) PROVE TypeOK'
<1>0. PageTypes /\ OtherTypes
  BY TypeSplit
<1>1. CASE Call(r)
  <2>1. Append(up[r], "REQUEST") \in Seq({"REQUEST", "ABORT"})
    BY DEF TypeOK
  <2>2. PageTypes'
    BY <1>0, <1>1 DEF PageTypes, Call
  <2>3. OtherTypes'
    BY <1>0, <1>1, <2>1 DEF OtherTypes, Call, workVars
  <2> QED BY <2>2, <2>3, TypeSplit DEF TypeOK, PageTypes, OtherTypes
<1>2. CASE CancelResponse(r)
  BY <1>2, CancelType DEF TypeOK, CancelResponse, workVars
<1>3. CASE MetaTimeout(r)
  BY <1>3, CancelType DEF TypeOK, MetaTimeout, workVars
<1>4. CASE Deadline(r)
  <2>1. PageTypes'
    BY <1>0, <1>4, SettleType DEF Deadline, PageTypes
  <2> QED BY <1>4, <2>1 DEF TypeOK, PageTypes, Deadline, workVars
<1>5. CASE Sweep(r)
  <2>1. PageTypes'
    BY <1>0, <1>5, SettleType DEF Sweep, PageTypes
  <2> QED BY <1>5, <2>1 DEF TypeOK, PageTypes, Sweep, workVars
<1>6. CASE ReceiveReply(r)
  <2>1. PageTypes'
    <3>1. CASE OnMeta(r)
      BY <1>0, <3>1, MetaType
    <3>2. CASE OnEndFail(r)
      BY <1>0, <3>2, EndFailType
    <3>3. CASE UNCHANGED pageVars
      BY <1>0, <3>3 DEF PageTypes, pageVars
    <3> QED BY <1>6, <3>1, <3>2, <3>3 DEF ReceiveReply
  <2> QED BY <1>6, <2>1 DEF TypeOK, PageTypes, ReceiveReply, workVars
<1>7. CASE ReceiveBody(r)
  <2>1. Head(down[r]) \in Messages /\ Tail(down[r]) \in Seq(Messages)
    <3>1. down[r] \in Seq(Messages) /\ down[r] # <<>>
      BY <1>7 DEF TypeOK, ReceiveBody
    <3> QED BY <3>1, TailOf
  <2>2. PageTypes'
    <3>1. CASE OnChunk(r, Head(down[r]).index)
      BY <1>0, <2>1, <3>1, ChunkType DEF Messages
    <3>2. CASE OnEndOk(r)
      BY <1>0, <3>2, EndOkType
    <3>3. CASE OnEndFail(r)
      BY <1>0, <3>3, EndFailType
    <3>4. CASE UNCHANGED pageVars
      BY <1>0, <3>4 DEF PageTypes, pageVars
    <3> QED BY <1>7, <3>1, <3>2, <3>3, <3>4 DEF ReceiveBody
  <2>3. down' \in [Requests -> Seq(Messages)]
    BY <1>7, <2>1 DEF TypeOK, ReceiveBody
  <2> QED BY <1>7, <2>2, <2>3 DEF TypeOK, PageTypes, ReceiveBody, workVars
<1> QED BY <1>1, <1>2, <1>3, <1>4, <1>5, <1>6, <1>7 DEF PageStep

LEMMA AbortExitType ==
    ASSUME TypeOK, NEW r \in Requests, AbortExit(r)
    PROVE  /\ job' \in [Requests -> Working \cup {"none", "done", "killed"}]
           /\ reply' \in [Requests -> {"none", "meta", "fail"}]
           /\ active' \subseteq Requests
BY DEF TypeOK, AbortExit

LEMMA FetchSettlesType ==
    ASSUME TypeOK, NEW r \in Requests, Headers(r) \/ FetchFails(r)
    PROVE  /\ job' \in [Requests -> Working \cup {"none", "done", "killed"}]
           /\ reply' \in [Requests -> {"none", "meta", "fail"}]
           /\ active' \subseteq Requests /\ retried' \subseteq Requests
<1>1. "pump" \in Working
  BY DEF Working
<1>2. CASE Headers(r)
  BY <1>1, <1>2 DEF TypeOK, Headers
<1>3. CASE FetchFails(r)
  BY <1>3 DEF TypeOK, FetchFails
<1> QED BY <1>2, <1>3

LEMMA WorkerType ==
    ASSUME TypeOK, NEW r \in Requests, WorkerStep(r) PROVE TypeOK'
<1> DEFINE Jobs == Working \cup {"none", "done", "killed"}
<1>0. /\ FirstLeg(r) \in Jobs
      /\ {"none", "rule", "single", "pump", "ending", "done"} \subseteq Jobs
      /\ Chunk(sent[r] + 1) \in Messages /\ EndOk \in Messages /\ EndFail \in Messages
  BY DEF FirstLeg, Working, Fetching, Chunk, EndOk, EndFail, Messages, TypeOK
<1>tail. ASSUME up[r] # <<>> PROVE Tail(up[r]) \in Seq({"REQUEST", "ABORT"})
  <2>1. up[r] \in Seq({"REQUEST", "ABORT"})
    BY DEF TypeOK
  <2> QED BY <1>tail, <2>1, TailOf
<1>1. CASE ReceiveRequest(r)
  BY <1>0, <1>1, <1>tail DEF TypeOK, ReceiveRequest, pageVars
<1>2. CASE RelayRefuses(r)
  BY <1>2, <1>tail DEF TypeOK, RelayRefuses, pageVars, workVars
<1>3. CASE ReceiveAbort(r)
  <2>1. /\ job' \in [Requests -> Jobs]
        /\ reply' \in [Requests -> {"none", "meta", "fail"}]
        /\ active' \subseteq Requests
    BY <1>3, AbortExitType DEF TypeOK, ReceiveAbort
  <2> QED BY <1>3, <1>tail, <2>1 DEF TypeOK, ReceiveAbort, pageVars
<1>4. CASE StartFetch(r)
  <2>1. /\ job' \in [Requests -> Jobs]
        /\ reply' \in [Requests -> {"none", "meta", "fail"}]
        /\ active' \subseteq Requests
    BY ZenonT(40), <1>0, <1>4, AbortExitType DEF TypeOK, StartFetch
  <2> QED BY <1>4, <2>1 DEF TypeOK, StartFetch, pageVars
<1>5. CASE RaceSettles(r)
  <2>1. /\ job' \in [Requests -> Jobs]
        /\ reply' \in [Requests -> {"none", "meta", "fail"}]
        /\ active' \subseteq Requests /\ retried' \subseteq Requests
    <3>1. CASE Headers(r)
      BY <3>1, FetchSettlesType
    <3>2. CASE job' = [job EXCEPT ![r] = "single"] /\ UNCHANGED <<reply, active, retried>>
      BY <1>0, <3>2 DEF TypeOK
    <3> QED BY <1>5, <3>1, <3>2 DEF RaceSettles
  <2> QED BY <1>5, <2>1 DEF TypeOK, RaceSettles, pageVars
<1>6. CASE SingleSettles(r)
  <2>1. /\ job' \in [Requests -> Jobs]
        /\ reply' \in [Requests -> {"none", "meta", "fail"}]
        /\ active' \subseteq Requests /\ retried' \subseteq Requests
    <3>1. CASE Headers(r) \/ FetchFails(r)
      BY <3>1, FetchSettlesType
    <3>2. CASE /\ r \in TwitchMedia \ retried
               /\ retried' = retried \cup {r}
               /\ job' = [job EXCEPT ![r] = FirstLeg(r)]
               /\ UNCHANGED <<reply, active>>
      BY <1>0, <3>2 DEF TypeOK
    <3>3. CASE AbortExit(r) /\ UNCHANGED retried
      BY <3>3, AbortExitType DEF TypeOK
    <3> QED BY <1>6, <3>1, <3>2, <3>3 DEF SingleSettles
  <2> QED BY <1>6, <2>1 DEF TypeOK, SingleSettles, pageVars
<1>7. CASE PumpChunk(r)
  <2>1. /\ down' \in [Requests -> Seq(Messages)] /\ lost' \in [Requests -> SUBSET Nat]
        /\ counts' \in [{"lost", "stops", "resets"} -> Nat]
    BY <1>0, <1>7, SendType DEF PumpChunk
  <2>2. sent' \in [Requests -> Nat]
    BY <1>7 DEF TypeOK, PumpChunk
  <2> QED BY <1>7, <2>1, <2>2 DEF TypeOK, PumpChunk, pageVars
<1>8. CASE PumpEnds(r)
  <2>1. /\ down' \in [Requests -> Seq(Messages)] /\ lost' \in [Requests -> SUBSET Nat]
        /\ counts' \in [{"lost", "stops", "resets"} -> Nat]
    BY <1>0, <1>8, SendType DEF PumpEnds
  <2> QED BY <1>0, <1>8, <2>1 DEF TypeOK, PumpEnds, pageVars
<1>9. CASE Finish(r)
  BY <1>0, <1>9 DEF TypeOK, Finish, pageVars
<1> QED BY <1>1, <1>2, <1>3, <1>4, <1>5, <1>6, <1>7, <1>8, <1>9 DEF WorkerStep

LEMMA FaultType ==
    ASSUME TypeOK, ResetMetrics \/ StopWorker PROVE TypeOK'
<1>1. \A n \in {"lost", "stops", "resets"} : counts[n] + 1 \in Nat
  BY DEF TypeOK
<1>2. CASE ResetMetrics
  BY <1>1, <1>2 DEF TypeOK, ResetMetrics, pageVars
<1>3. CASE StopWorker
  BY <1>1, <1>3 DEF TypeOK, StopWorker, pageVars
<1> QED BY <1>2, <1>3

LEMMA TypeStep == TypeOK /\ [Next]_vars => TypeOK'
<1> SUFFICES ASSUME TypeOK, [Next]_vars PROVE TypeOK'
  OBVIOUS
<1>1. CASE UNCHANGED vars
  BY <1>1 DEF TypeOK, vars, pageVars, workVars
<1> QED BY <1>1, PageType, WorkerType, FaultType DEF Next

(* Every state of the page, the messages and the worker is well typed. *)
THEOREM FetchTypeCorrect == Spec => []TypeOK
<1>1. Init /\ [][Next]_vars => []TypeOK
  BY TypeInit, TypeStep, PTL
<1> QED BY <1>1, PTL DEF Spec

-----------------------------------------------------------------------------
(* The page's calls, entries, streams and timers *)

PageInvAt(r) ==
    /\ table[r] = "open" => r \in timer
    /\ table[r] = "open" <=> IF r \in Streams THEN stream[r] = "readable"
                                              ELSE caller[r] = "waiting"
    /\ stream[r] = "readable" => r \in Streams /\ caller[r] \in {"waiting", "answered"}

PageInv == \A r \in Requests : PageInvAt(r)

(* A step does not change what a settled call was given. *)
KeptAt(r) ==
    /\ caller[r] \in {"answered", "failed"} => caller'[r] = caller[r]
    /\ caller[r] # "waiting" /\ stream[r] # "readable" => data'[r] = data[r]

KeptAll == \A r \in Requests : KeptAt(r)

(* Nothing of the page changes but what concerns r. *)
OnlyFor(r) ==
    \A q \in Requests \ {r} :
        /\ table'[q] = table[q] /\ caller'[q] = caller[q]
        /\ stream'[q] = stream[q] /\ data'[q] = data[q]
        /\ q \in timer => q \in timer'

LEMMA Locally ==
    ASSUME PageInv, NEW r \in Requests, OnlyFor(r), PageInvAt(r)', KeptAt(r)
    PROVE  PageInv' /\ KeptAll
BY DEF PageInv, PageInvAt, OnlyFor, KeptAt, KeptAll

(* What an entry that leaves the table leaves behind. *)
LEMMA SettleKeeps ==
    ASSUME PageTypes, PageInv, NEW r \in Requests, NEW how \in {"errored", "cancelled"},
           SettleStreamError(r, how), timer \ {r} \subseteq timer'
    PROVE  PageInv' /\ KeptAll
<1>1. OnlyFor(r)
  BY DEF PageTypes, OnlyFor, SettleStreamError, Dropped, StreamEnds, CallerFails
<1>2. table'[r] = "none" /\ data' = data
  BY DEF PageTypes, SettleStreamError, Dropped
<1>3. PageInvAt(r)
  BY DEF PageInv
<1>4. PageInvAt(r)' /\ KeptAt(r)
  <2>1. CASE table[r] = "open"
    <3>1. stream'[r] # "readable" /\ caller'[r] # "waiting"
      BY <2>1 DEF PageTypes, SettleStreamError, StreamEnds, CallerFails
    <3>2. caller[r] = "waiting" \/ caller'[r] = caller[r]
      BY <2>1 DEF PageTypes, SettleStreamError, CallerFails
    <3> QED BY <1>2, <3>1, <3>2 DEF PageInvAt, KeptAt
  <2>2. CASE table[r] # "open"
    BY <1>2, <1>3, <2>2 DEF PageInvAt, KeptAt, SettleStreamError
  <2> QED BY <2>1, <2>2
<1> QED BY <1>1, <1>4, Locally

LEMMA MetaKeeps ==
    ASSUME PageTypes, PageInv, NEW r \in Requests, OnMeta(r) PROVE PageInv' /\ KeptAll
<1>1. OnlyFor(r)
  BY DEF PageTypes, OnlyFor, OnMeta
<1>2. PageInvAt(r) /\ data' = data /\ stream' = stream /\ timer' = timer
  BY DEF PageInv, OnMeta
<1>3. /\ table'[r] = "open" <=> table[r] = "open"
      /\ caller'[r] = IF table[r] = "open" /\ r \in Streams THEN "answered" ELSE caller[r]
  BY DEF PageTypes, OnMeta
<1> QED BY <1>1, <1>2, <1>3, Locally DEF PageInvAt, KeptAt

LEMMA ChunkKeeps ==
    ASSUME PageTypes, PageInv, NEW r \in Requests, NEW i, OnChunk(r, i)
    PROVE  PageInv' /\ KeptAll
<1>1. OnlyFor(r)
  BY DEF PageTypes, OnlyFor, OnChunk
<1>2. PageInvAt(r) /\ UNCHANGED <<table, caller, stream, timer>>
  BY DEF PageInv, OnChunk
<1>3. stream[r] # "readable" => data'[r] = data[r]
  BY DEF OnChunk
<1> QED BY <1>1, <1>2, <1>3, Locally DEF PageInvAt, KeptAt

LEMMA EndFailKeeps ==
    ASSUME PageTypes, PageInv, NEW r \in Requests, OnEndFail(r) PROVE PageInv' /\ KeptAll
<1>1. OnlyFor(r)
  BY DEF PageTypes, OnlyFor, OnEndFail, Dropped, StreamEnds, CallerFails
<1>2. table'[r] = "none" /\ data' = data /\ PageInvAt(r)
  BY DEF PageTypes, OnEndFail, Dropped, PageInv
<1>3. CASE table[r] = "open"
  <2>1. stream'[r] # "readable"
    BY <1>3 DEF PageTypes, OnEndFail, StreamEnds
  <2>2. /\ r \notin Streams => caller'[r] # "waiting"
        /\ caller[r] = "waiting" \/ caller'[r] = caller[r]
    BY <1>3 DEF PageTypes, OnEndFail, CallerFails
  <2> QED BY <1>1, <1>2, <2>1, <2>2, Locally DEF PageInvAt, KeptAt
<1>4. CASE table[r] # "open"
  <2>1. UNCHANGED <<stream, caller>>
    BY <1>4 DEF OnEndFail
  <2> QED BY <1>1, <1>2, <1>4, <2>1, Locally DEF PageInvAt, KeptAt
<1> QED BY <1>3, <1>4

LEMMA EndOkKeeps ==
    ASSUME PageTypes, PageInv, NEW r \in Requests, OnEndOk(r) PROVE PageInv' /\ KeptAll
<1>1. OnlyFor(r)
  <2>1. \A q \in Requests \ {r} : table'[q] = table[q] /\ stream'[q] = stream[q]
    BY DEF PageTypes, OnEndOk, Usable, Dropped, StreamEnds
  <2>2. \A q \in Requests \ {r} : caller'[q] = caller[q] /\ data'[q] = data[q]
    BY DEF PageTypes, OnEndOk, Usable, CallerFails
  <2> QED BY <2>1, <2>2 DEF OnlyFor, OnEndOk, Usable
<1>2. table'[r] = "none" /\ PageInvAt(r)
  BY DEF PageTypes, OnEndOk, Usable, Dropped, PageInv
<1>3. CASE table[r] = "open"
  <2>1. stream'[r] # "readable"
    BY <1>3 DEF PageTypes, OnEndOk, Usable, StreamEnds
  <2>2. CASE r \in Streams
    <3>1. UNCHANGED <<caller, data>>
      BY <2>2 DEF OnEndOk, Usable
    <3> QED BY <1>1, <1>2, <2>1, <2>2, <3>1, Locally DEF PageInvAt, KeptAt
  <2>3. CASE r \notin Streams
    <3>1. caller[r] = "waiting"
      BY <1>2, <1>3, <2>3 DEF PageInvAt
    <3>2. caller'[r] # "waiting"
      BY <1>3, <2>3, <3>1 DEF PageTypes, OnEndOk, Usable, CallerFails
    <3> QED BY <1>1, <1>2, <2>1, <2>3, <3>1, <3>2, Locally DEF PageInvAt, KeptAt
  <2> QED BY <2>2, <2>3
<1>4. CASE table[r] # "open"
  <2>1. UNCHANGED <<stream, caller, data>>
    BY <1>4 DEF OnEndOk, Usable
  <2> QED BY <1>1, <1>2, <1>4, <2>1, Locally DEF PageInvAt, KeptAt
<1> QED BY <1>3, <1>4

LEMMA CancelKeeps ==
    ASSUME PageTypes, PageInv, NEW r \in Requests, Cancel(r), UNCHANGED <<timer, data>>,
           \/ caller[r] = "answered" /\ caller' = caller
           \/ r \in Streams /\ caller[r] = "waiting" /\ caller' = [caller EXCEPT ![r] = "failed"]
    PROVE  PageInv' /\ KeptAll
<1>1. OnlyFor(r)
  BY DEF PageTypes, OnlyFor, Cancel, Dropped
<1>2. PageInvAt(r)
  BY DEF PageInv
<1>3. caller[r] = "waiting" \/ caller'[r] = caller[r]
  OBVIOUS
<1>4. CASE stream[r] = "readable"
  <2>1. table'[r] = "none" /\ stream'[r] = "cancelled" /\ r \in Streams
    BY <1>2, <1>4 DEF PageTypes, PageInvAt, Cancel, Dropped
  <2> QED BY <1>1, <1>3, <2>1, Locally DEF PageInvAt, KeptAt
<1>5. CASE stream[r] # "readable"
  <2>1. UNCHANGED <<table, stream>>
    BY <1>5 DEF Cancel
  <2>2. caller[r] = "waiting" => r \in Streams
    OBVIOUS
  <2>3. caller'[r] # "waiting"
    BY DEF PageTypes
  <2> QED BY <1>1, <1>2, <1>3, <1>5, <2>1, <2>2, <2>3, Locally DEF PageInvAt, KeptAt
<1> QED BY <1>4, <1>5

LEMMA PageKeeps ==
    ASSUME TypeOK, PageInv, NEW r \in Requests, PageStep(r) PROVE PageInv' /\ KeptAll
<1>0. PageTypes
  BY TypeSplit
<1>1. CASE Call(r)
  <2>1. OnlyFor(r)
    BY <1>0, <1>1 DEF PageTypes, OnlyFor, Call
  <2>2. /\ table'[r] = "open" /\ caller'[r] = "waiting" /\ r \in timer' /\ data' = data
        /\ stream'[r] = IF r \in Streams THEN "readable" ELSE stream[r]
        /\ caller[r] = "idle" /\ PageInvAt(r)
    BY <1>0, <1>1 DEF PageTypes, Call, PageInv
  <2> QED BY <2>1, <2>2, Locally DEF PageInvAt, KeptAt
<1>2. CASE CancelResponse(r)
  BY <1>0, <1>2, CancelKeeps DEF CancelResponse
<1>3. CASE MetaTimeout(r)
  BY <1>0, <1>3, CancelKeeps DEF MetaTimeout
<1>4. CASE Deadline(r)
  BY <1>0, <1>4, SettleKeeps DEF Deadline
<1>5. CASE Sweep(r)
  BY <1>0, <1>5, SettleKeeps DEF Sweep
<1>6. CASE UNCHANGED pageVars
  BY <1>6 DEF PageInv, PageInvAt, KeptAll, KeptAt, pageVars
<1>7. CASE ReceiveReply(r)
  BY <1>0, <1>6, <1>7, MetaKeeps, EndFailKeeps DEF ReceiveReply
<1>8. CASE ReceiveBody(r)
  BY <1>0, <1>6, <1>8, ChunkKeeps, EndOkKeeps, EndFailKeeps DEF ReceiveBody
<1> QED BY <1>1, <1>2, <1>3, <1>4, <1>5, <1>7, <1>8 DEF PageStep

LEMMA WorkerLeavesPage ==
    ASSUME NEW r \in Requests, WorkerStep(r) PROVE UNCHANGED pageVars
BY DEF WorkerStep, ReceiveRequest, RelayRefuses, ReceiveAbort, StartFetch, RaceSettles,
       SingleSettles, PumpChunk, PumpEnds, Finish

LEMMA PageInvStep == TypeOK /\ PageInv /\ [Next]_vars => PageInv' /\ KeptAll
<1> SUFFICES ASSUME TypeOK, PageInv, [Next]_vars PROVE PageInv' /\ KeptAll
  OBVIOUS
<1>1. CASE UNCHANGED pageVars
  BY <1>1 DEF PageInv, PageInvAt, KeptAll, KeptAt, pageVars
<1>2. ASSUME NEW r \in Requests, PageStep(r) PROVE PageInv' /\ KeptAll
  BY <1>2, PageKeeps
<1>3. CASE ResetMetrics \/ StopWorker \/ UNCHANGED vars
  BY <1>1, <1>3 DEF ResetMetrics, StopWorker, vars
<1> QED BY <1>1, <1>2, <1>3, WorkerLeavesPage DEF Next

LEMMA PageInvInit == Init => PageInv
BY DEF Init, PageInv, PageInvAt

LEMMA PageInvAlways == Init /\ [][Next]_vars => [](TypeOK /\ PageInv)
BY TypeInit, TypeStep, PageInvInit, PageInvStep, PTL

(* Whoever still expects bytes has an entry, and an entry with a caller has its
   timeout armed, in every state. *)
THEOREM NobodyIsForgotten == Spec => []NobodyForgotten
<1>1. PageInv => NobodyForgotten
  BY DEF PageInv, PageInvAt, NobodyForgotten
<1> QED BY <1>1, PageInvAlways, PTL DEF Spec

(* No step changes the outcome or the bytes of a call that has settled. *)
THEOREM SettledCallsStay == Spec => SettledStays
<1>1. TypeOK /\ PageInv /\ [Next]_vars => KeptAll
  BY PageInvStep
<1>2. KeptAll => \A r \in Requests :
           /\ caller[r] \in {"answered", "failed"} => caller'[r] = caller[r]
           /\ caller[r] # "waiting" /\ stream[r] # "readable" => data'[r] = data[r]
  BY DEF KeptAll, KeptAt
<1> QED BY <1>1, <1>2, PageInvAlways, PTL DEF Spec, SettledStays
-----------------------------------------------------------------------------
(* The requests, the body and what the page holds of it *)

(* A request is sent once, first of all, and not worked on before it arrives. *)
UpAt(r) ==
    /\ caller[r] = "idle" => /\ up[r] = <<>> /\ job[r] = "none" /\ r \notin aborted
                             /\ got[r] = <<>> /\ data[r] = <<>>
    /\ \A i \in 1..Len(up[r]) : up[r][i] = "REQUEST" => i = 1 /\ job[r] = "none" /\ r \notin aborted
    /\ r \in aborted => job[r] \notin {"race", "single"}

(* The body on its way: chunks in ascending order, none of them rejected, and
   an END only behind all of them. *)
DownAt(r) ==
    /\ job[r] \in {"none", "rule", "race", "single"} =>
           sent[r] = 0 /\ down[r] = <<>> /\ lost[r] = {}
    /\ job[r] = "pump" => \A i \in 1..Len(down[r]) : down[r][i].type = "CHUNK"
    /\ \A i \in 1..Len(down[r]) :
           /\ down[r][i].type = "CHUNK" => down[r][i].index \in (1..sent[r]) \ lost[r]
           /\ down[r][i].type = "OK" => sent[r] = Body[r]
    /\ \A i, j \in 1..Len(down[r]) : i < j =>
           /\ down[r][i].type = "CHUNK"
           /\ down[r][j].type = "CHUNK" => down[r][i].index < down[r][j].index
    /\ sent[r] <= Body[r] /\ lost[r] \subseteq 1..sent[r]

(* An open entry and the messages on their way hold the chunks sent so far. *)
GotAt(r) ==
    table[r] = "open" =>
        /\ \A i, j \in 1..Len(got[r]) : i < j => got[r][i] < got[r][j]
        /\ \A i \in 1..Len(got[r]), j \in 1..Len(down[r]) :
               down[r][j].type = "CHUNK" => got[r][i] < down[r][j].index
        /\ \A n \in Nat :
               n \in (1..sent[r]) \ lost[r] <=>
                   \/ \E i \in 1..Len(got[r]) : got[r][i] = n
                   \/ \E j \in 1..Len(down[r]) : down[r][j].type = "CHUNK" /\ down[r][j].index = n
        /\ r \in Streams => data[r] = got[r]

(* What was handed out stays what it was when the entry left. *)
HandedAt(r) ==
    /\ r \in Streams => \E last \in 0..sent[r] : HoldsUpTo(data[r], r, last)
    /\ (IF r \in Streams THEN stream[r] = "closed" ELSE caller[r] = "answered")
           => /\ HoldsUpTo(data[r], r, Body[r]) /\ sent[r] = Body[r]
              /\ r \notin Streams => data[r] # <<>>

BodyAt(r) == UpAt(r) /\ DownAt(r) /\ GotAt(r) /\ HandedAt(r)

BodyInv == \A r \in Requests : BodyAt(r)

Same(q) ==
    /\ table'[q] = table[q] /\ got'[q] = got[q] /\ data'[q] = data[q]
    /\ caller'[q] = caller[q] /\ stream'[q] = stream[q]
    /\ up'[q] = up[q] /\ down'[q] = down[q]
    /\ job'[q] = job[q] /\ sent'[q] = sent[q] /\ lost'[q] = lost[q]
    /\ q \in aborted' <=> q \in aborted

LEMMA SameKeeps ==
    ASSUME NEW q \in Requests, Same(q), BodyAt(q) PROVE BodyAt(q)'
<1>1. UpAt(q)'
  BY DEF BodyAt, UpAt, Same
<1>2. DownAt(q)'
  BY DEF BodyAt, DownAt, Same
<1>3. GotAt(q)'
  BY DEF BodyAt, GotAt, Same
<1>4. HandedAt(q)'
  BY DEF BodyAt, HandedAt, HoldsUpTo, Same
<1> QED BY <1>1, <1>2, <1>3, <1>4 DEF BodyAt

LEMMA PageSame ==
    ASSUME TypeOK, NEW r \in Requests, PageStep(r), NEW q \in Requests \ {r}
    PROVE  Same(q)
<1>1. UNCHANGED <<down, workVars, lost>> \/ ReceiveBody(r)
  BY DEF PageStep, Call, CancelResponse, MetaTimeout, Deadline, Sweep, ReceiveReply
<1>2. down'[q] = down[q] /\ UNCHANGED <<workVars, lost>>
  BY <1>1 DEF TypeOK, ReceiveBody
<1>3. up'[q] = up[q]
  BY DEF TypeOK, PageStep, Call, CancelResponse, MetaTimeout, Cancel, Deadline, Sweep,
         ReceiveReply, ReceiveBody
<1>4. /\ table'[q] = table[q] /\ got'[q] = got[q] /\ data'[q] = data[q]
      /\ caller'[q] = caller[q] /\ stream'[q] = stream[q]
  <2>1. CASE Call(r)
    BY <2>1 DEF TypeOK, Call
  <2>2. CASE CancelResponse(r) \/ MetaTimeout(r)
    BY SMTT(20), <2>2 DEF TypeOK, CancelResponse, MetaTimeout, Cancel, Dropped
  <2>3. CASE SettleStreamError(r, "errored")
    BY <2>3 DEF TypeOK, SettleStreamError, Dropped, StreamEnds, CallerFails
  <2>4. CASE UNCHANGED pageVars
    BY <2>4 DEF pageVars
  <2>5. CASE OnMeta(r)
    BY <2>5 DEF TypeOK, OnMeta
  <2>6. CASE OnChunk(r, Head(down[r]).index)
    BY <2>6 DEF TypeOK, OnChunk
  <2>7. CASE OnEndFail(r)
    BY <2>7 DEF TypeOK, OnEndFail, Dropped, StreamEnds, CallerFails
  <2>8. CASE OnEndOk(r)
    <3>1. table'[q] = table[q] /\ got'[q] = got[q] /\ stream'[q] = stream[q]
      BY <2>8 DEF TypeOK, OnEndOk, Usable, Dropped, StreamEnds
    <3>2. caller'[q] = caller[q] /\ data'[q] = data[q]
      BY <2>8 DEF TypeOK, OnEndOk, Usable, CallerFails
    <3> QED BY <3>1, <3>2
  <2> QED BY <2>1, <2>2, <2>3, <2>4, <2>5, <2>6, <2>7, <2>8
          DEF PageStep, Deadline, Sweep, ReceiveReply, ReceiveBody
<1> QED BY <1>2, <1>3, <1>4 DEF Same, workVars

LEMMA WorkerSame ==
    ASSUME TypeOK, NEW r \in Requests, WorkerStep(r), NEW q \in Requests \ {r}
    PROVE  Same(q)
<1>1. UNCHANGED pageVars
  BY WorkerLeavesPage
<1>2. up'[q] = up[q]
  BY DEF TypeOK, WorkerStep, ReceiveRequest, RelayRefuses, ReceiveAbort, StartFetch,
         RaceSettles, SingleSettles, PumpChunk, PumpEnds, Finish
<1>3. down'[q] = down[q] /\ lost'[q] = lost[q] /\ sent'[q] = sent[q]
  <2>1. CASE PumpChunk(r) \/ PumpEnds(r)
    BY <2>1 DEF TypeOK, PumpChunk, PumpEnds, Send, Loses
  <2>2. CASE UNCHANGED <<down, lost, sent>>
    BY <2>2
  <2> QED BY <2>1, <2>2 DEF WorkerStep, ReceiveRequest, RelayRefuses, ReceiveAbort,
          StartFetch, RaceSettles, SingleSettles, Finish, workVars
<1>4. job'[q] = job[q] /\ (q \in aborted' <=> q \in aborted)
  BY DEF TypeOK, WorkerStep, ReceiveRequest, RelayRefuses, ReceiveAbort, StartFetch, AbortExit,
         RaceSettles, SingleSettles, Headers, FetchFails, PumpChunk, PumpEnds, Finish, workVars
<1> QED BY <1>1, <1>2, <1>3, <1>4 DEF Same, pageVars

-----------------------------------------------------------------------------
(* Steps of the page *)

LEMMA HeadIs ==
    ASSUME NEW S, NEW q \in Seq(S), q # <<>>
    PROVE  /\ Len(q) > 0 /\ Len(Tail(q)) = Len(q) - 1 /\ Head(q) = q[1]
           /\ \A j \in 1..Len(Tail(q)) : j + 1 \in 1..Len(q) /\ Tail(q)[j] = q[j + 1]
<1>1. Len(q) > 0
  OBVIOUS
<1> QED BY <1>1

LEMMA AppendIs ==
    ASSUME NEW S, NEW q \in Seq(S), NEW e \in S
    PROVE  /\ Len(Append(q, e)) = Len(q) + 1 /\ Append(q, e)[Len(q) + 1] = e
           /\ \A j \in 1..Len(q) : Append(q, e)[j] = q[j]
OBVIOUS

(* A chunk taken from the front of the channel continues the entry's chunks. *)
LEMMA ChunkContinues ==
    ASSUME TypeOK, NEW r \in Requests, DownAt(r), GotAt(r), table[r] = "open",
           down[r] # <<>>, Head(down[r]).type = "CHUNK"
    PROVE  LET i == Head(down[r]).index
               g == Append(got[r], i)
               t == Tail(down[r])
           IN  /\ i \in 1..sent[r]
               /\ HoldsUpTo(g, r, i)
               /\ \A k \in 1..Len(g), j \in 1..Len(t) : t[j].type = "CHUNK" => g[k] < t[j].index
               /\ \A n \in Nat :
                      n \in (1..sent[r]) \ lost[r] <=>
                          \/ \E k \in 1..Len(g) : g[k] = n
                          \/ \E j \in 1..Len(t) : t[j].type = "CHUNK" /\ t[j].index = n
<1> DEFINE q == down[r]
           i == Head(q).index
           t == Tail(q)
           o == got[r]
           g == Append(o, i)
           has(n) == \E k \in 1..Len(o) : o[k] = n
           comes(n) == \E j \in 1..Len(t) : t[j].type = "CHUNK" /\ t[j].index = n
<1>1. q \in Seq(Messages) /\ o \in Seq(Nat) /\ sent[r] \in Nat
  BY DEF TypeOK
<1>2. /\ Len(q) > 0 /\ Len(t) = Len(q) - 1 /\ Head(q) = q[1]
      /\ \A j \in 1..Len(t) : j + 1 \in 1..Len(q) /\ t[j] = q[j + 1]
  BY <1>1, HeadIs
<1>3. 1 \in 1..Len(q) /\ Len(q) \in Nat /\ Len(o) \in Nat /\ Len(t) \in Nat
  BY <1>1, <1>2
<1>4. i \in (1..sent[r]) \ lost[r] /\ i \in Nat
  BY <1>1, <1>2, <1>3 DEF DownAt
<1>5. /\ Len(g) = Len(o) + 1 /\ g[Len(o) + 1] = i
      /\ \A k \in 1..Len(o) : g[k] = o[k]
  BY <1>1, <1>4, AppendIs
<1>6. ASSUME NEW j \in 1..Len(t), t[j].type = "CHUNK"
      PROVE  i < t[j].index /\ t[j].index \in Nat
  <2>1. j + 1 \in 1..Len(q) /\ t[j] = q[j + 1] /\ 1 < j + 1
    BY <1>2
  <2>2. q[1].index < q[j + 1].index
    BY <1>3, <1>6, <2>1 DEF DownAt
  <2>3. q[j + 1] \in Messages
    BY <1>1, <2>1
  <2> QED BY <1>2, <2>1, <2>2, <2>3 DEF Messages
<1>7. \A k \in 1..Len(o) : o[k] \in Nat /\ o[k] < i
  BY <1>1, <1>2, <1>3 DEF GotAt
<1>8. ASSUME NEW n \in Nat
      PROVE  (\E j \in 1..Len(q) : q[j].type = "CHUNK" /\ q[j].index = n) <=> n = i \/ comes(n)
  <2>1. ASSUME NEW j \in 1..Len(q), q[j].type = "CHUNK", q[j].index = n
        PROVE  n = i \/ comes(n)
    <3>1. CASE j = 1
      BY <1>2, <2>1, <3>1
    <3>2. CASE j # 1
      <4>1. j - 1 \in 1..Len(t) /\ (j - 1) + 1 = j
        BY <1>2, <1>3, <3>2
      <4>2. t[j - 1] = q[j]
        BY ONLY <1>2, <4>1
      <4> QED BY <2>1, <4>1, <4>2
    <3> QED BY <3>1, <3>2
  <2>2. CASE n = i
    BY <1>2, <1>3, <2>2
  <2>3. ASSUME comes(n)
        PROVE  \E j \in 1..Len(q) : q[j].type = "CHUNK" /\ q[j].index = n
    <3>1. PICK j \in 1..Len(t) : t[j].type = "CHUNK" /\ t[j].index = n
      BY <2>3
    <3>2. j + 1 \in 1..Len(q) /\ t[j] = q[j + 1]
      BY ONLY <1>2, <3>1
    <3> QED BY <3>1, <3>2
  <2> QED BY <2>1, <2>2, <2>3
<1>9. ASSUME NEW n \in Nat PROVE (\E k \in 1..Len(g) : g[k] = n) <=> has(n) \/ n = i
  <2>1. \A k \in 1..Len(g) : k \in 1..Len(o) \/ k = Len(o) + 1
    BY <1>3, <1>5
  <2>2. Len(o) + 1 \in 1..Len(g) /\ \A k \in 1..Len(o) : k \in 1..Len(g)
    BY <1>3, <1>5
  <2> HIDE DEF g
  <2> QED BY <1>5, <2>1, <2>2
<1>10. \A n \in Nat : n \in (1..sent[r]) \ lost[r] <=>
                         has(n) \/ \E j \in 1..Len(q) : q[j].type = "CHUNK" /\ q[j].index = n
  BY DEF GotAt
<1>11. \A n \in Nat : n \in (1..sent[r]) \ lost[r] <=> has(n) \/ n = i \/ comes(n)
  <2> HIDE DEF has, comes, q, i
  <2> QED BY <1>8, <1>10
<1>12. HoldsUpTo(g, r, i)
  <2>1. ASSUME NEW a \in 1..Len(g), NEW b \in 1..Len(g), a < b PROVE g[a] < g[b]
    <3>1. a \in 1..Len(o)
      BY <1>3, <1>5, <2>1
    <3>2. CASE b \in 1..Len(o)
      <4>1. o[a] < o[b]
        BY <2>1, <3>1, <3>2 DEF GotAt
      <4> QED BY ONLY <1>5, <3>1, <3>2, <4>1
    <3>3. CASE b = Len(o) + 1
      BY ONLY <1>5, <1>7, <3>1, <3>3
    <3> QED BY <1>3, <1>5, <3>2, <3>3
  <2>2. ASSUME NEW n \in Nat PROVE n \in (1..i) \ lost[r] <=> has(n) \/ n = i
    <3>1. CASE has(n)
      <4>1. n \in (1..sent[r]) \ lost[r]
        BY <1>11, <3>1
      <4>2. n < i
        BY <1>7, <3>1
      <4> QED BY <1>4, <3>1, <4>1, <4>2
    <3>2. CASE n = i
      BY <1>4, <3>2
    <3>3. CASE ~ has(n) /\ n # i
      <4>1. comes(n) => i < n
        BY <1>6
      <4>2. n \in (1..i) => n \in 1..sent[r] /\ ~ (i < n)
        BY <1>1, <1>4
      <4> HIDE DEF has, comes
      <4> QED BY <1>11, <3>3, <4>1, <4>2
    <3> QED BY <3>1, <3>2, <3>3
  <2>3. \A k \in 1..Len(g) : g[k] \in Nat
    BY <1>1, <1>4
  <2>4. {g[k] : k \in 1..Len(g)} = (1..i) \ lost[r]
    <3>1. \A n \in Nat : n \in (1..i) \ lost[r] <=> \E k \in 1..Len(g) : g[k] = n
      <4> HIDE DEF has, g, i
      <4> QED BY <1>9, <2>2
    <3>2. (1..i) \subseteq Nat
      BY <1>4
    <3> HIDE DEF g, i
    <3> QED BY <2>3, <3>1, <3>2
  <2> QED BY <2>1, <2>4 DEF HoldsUpTo
<1>13. ASSUME NEW k \in 1..Len(g), NEW j \in 1..Len(t), t[j].type = "CHUNK"
       PROVE  g[k] < t[j].index
  <2>1. g[k] \in Nat /\ (g[k] = i \/ g[k] < i)
    <3>1. k \in 1..Len(o) \/ k = Len(o) + 1
      BY <1>3, <1>5
    <3> HIDE DEF g, i
    <3> QED BY <1>4, <1>5, <1>7, <3>1
  <2>2. i < t[j].index /\ t[j].index \in Nat
    BY <1>6, <1>13
  <2> HIDE DEF g, i, t
  <2> QED BY <1>4, <2>1, <2>2
<1>14. \A n \in Nat : n \in (1..sent[r]) \ lost[r] <=> (\E k \in 1..Len(g) : g[k] = n) \/ comes(n)
  <2> HIDE DEF has, comes, g, i
  <2> QED BY <1>9, <1>11
<1> QED BY <1>4, <1>12, <1>13, <1>14

(* An entry whose END is next holds the whole body. *)
LEMMA EndIsWhole ==
    ASSUME TypeOK, NEW r \in Requests, DownAt(r), GotAt(r), table[r] = "open",
           down[r] # <<>>, Head(down[r]).type = "OK"
    PROVE  HoldsUpTo(got[r], r, Body[r]) /\ sent[r] = Body[r]
<1> DEFINE q == down[r]
           o == got[r]
<1>1. q \in Seq(Messages) /\ o \in Seq(Nat) /\ sent[r] \in Nat
  BY DEF TypeOK
<1>2. Len(q) > 0 /\ Head(q) = q[1] /\ 1 \in 1..Len(q)
  BY <1>1, HeadIs
<1>3. sent[r] = Body[r]
  BY <1>2 DEF DownAt
<1>4. \A j \in 1..Len(q) : q[j].type # "CHUNK"
  <2>1. ASSUME NEW j \in 1..Len(q) PROVE j = 1
    <3>1. ~ (1 < j)
      BY <1>2 DEF DownAt
    <3> QED BY <3>1
  <2> QED BY <1>2, <2>1
<1>5. \A n \in Nat : n \in (1..sent[r]) \ lost[r] <=> \E k \in 1..Len(o) : o[k] = n
  BY <1>4 DEF GotAt
<1>6. {o[k] : k \in 1..Len(o)} = (1..sent[r]) \ lost[r]
  <2>1. \A k \in 1..Len(o) : o[k] \in Nat
    BY <1>1
  <2>2. (1..sent[r]) \subseteq Nat
    BY <1>1
  <2> HIDE DEF o
  <2> QED BY <1>5, <2>1, <2>2
<1>7. \A a, b \in 1..Len(o) : a < b => o[a] < o[b]
  BY DEF GotAt
<1> QED BY <1>3, <1>6, <1>7 DEF HoldsUpTo

(* A step of the page that takes nothing from the channel keeps what is on it. *)
LEMMA DownKept ==
    ASSUME NEW r \in Requests, DownAt(r), UNCHANGED <<down, workVars, lost>>
    PROVE  DownAt(r)'
BY DEF DownAt, workVars

(* A step of the page by which no entry gains a caller and no bytes are handed
   out changes nothing about the bytes. *)
LEMMA BytesKept ==
    ASSUME NEW r \in Requests, GotAt(r), HandedAt(r),
           UNCHANGED <<down, workVars, lost, data>>,
           table'[r] = "open" => table[r] = "open" /\ got'[r] = got[r],
           stream'[r] = "closed" => stream[r] = "closed",
           r \in Streams \/ (caller'[r] = "answered" => caller[r] = "answered")
    PROVE  GotAt(r)' /\ HandedAt(r)'
<1>1. GotAt(r)'
  <2> SUFFICES ASSUME table'[r] = "open" PROVE GotAt(r)'
    BY DEF GotAt
  <2>1. table[r] = "open" /\ got'[r] = got[r] /\ data' = data /\ sent' = sent
        /\ lost' = lost /\ down' = down
    BY DEF workVars
  <2>2. /\ \A i, j \in 1..Len(got[r]) : i < j => got[r][i] < got[r][j]
        /\ \A i \in 1..Len(got[r]), j \in 1..Len(down[r]) :
               down[r][j].type = "CHUNK" => got[r][i] < down[r][j].index
        /\ r \in Streams => data[r] = got[r]
    BY <2>1 DEF GotAt
  <2>3. \A n \in Nat :
            n \in (1..sent[r]) \ lost[r] <=>
                \/ \E i \in 1..Len(got[r]) : got[r][i] = n
                \/ \E j \in 1..Len(down[r]) : down[r][j].type = "CHUNK" /\ down[r][j].index = n
    BY <2>1 DEF GotAt
  <2>4. /\ \A i, j \in 1..Len(got'[r]) : i < j => got'[r][i] < got'[r][j]
        /\ \A i \in 1..Len(got'[r]), j \in 1..Len(down'[r]) :
               down'[r][j].type = "CHUNK" => got'[r][i] < down'[r][j].index
        /\ r \in Streams => data'[r] = got'[r]
    BY ONLY <2>1, <2>2
  <2>5. (\A n \in Nat :
            n \in (1..sent[r]) \ lost[r] <=>
                \/ \E i \in 1..Len(got[r]) : got[r][i] = n
                \/ \E j \in 1..Len(down[r]) : down[r][j].type = "CHUNK" /\ down[r][j].index = n)'
    BY ONLY <2>1, <2>3
  <2> QED BY ONLY <2>4, <2>5 DEF GotAt
<1>2. HandedAt(r)'
  <2>1. data' = data /\ sent' = sent /\ lost' = lost
    BY DEF workVars
  <2>2. \A last : HoldsUpTo(data[r], r, last)' <=> HoldsUpTo(data[r], r, last)
    BY <2>1 DEF HoldsUpTo
  <2>3. HoldsUpTo(data[r], r, Body[r])' <=> HoldsUpTo(data[r], r, Body[r])
    BY <2>2
  <2>4. r \in Streams => (\E last \in 0..sent[r] : HoldsUpTo(data[r], r, last))'
    BY <2>1, <2>2 DEF HandedAt
  <2> QED BY <2>1, <2>3, <2>4 DEF HandedAt
<1> QED BY <1>1, <1>2

LEMMA CallBody ==
    ASSUME TypeOK, NEW r \in Requests, BodyAt(r), Call(r) PROVE BodyAt(r)'
<1>1. /\ caller[r] = "idle" /\ caller'[r] = "waiting" /\ table'[r] = "open"
      /\ up'[r] = Append(up[r], "REQUEST") /\ r \notin aborted'
      /\ UNCHANGED <<got, data, down, workVars, lost>>
  BY DEF TypeOK, Call, BodyAt, UpAt, workVars
<1>2. up[r] = <<>> /\ job[r] = "none" /\ got[r] = <<>> /\ data[r] = <<>>
  BY <1>1 DEF BodyAt, UpAt
<1>3. sent[r] = 0 /\ down[r] = <<>> /\ lost[r] = {}
  BY <1>2 DEF BodyAt, DownAt
<1>4. UpAt(r)'
  <2>1. Len(up'[r]) = 1
    BY <1>1, <1>2
  <2>2. \A i \in 1..Len(up'[r]) : i = 1
    BY <2>1
  <2> QED BY <1>1, <1>2, <2>2 DEF UpAt, workVars
<1>5. DownAt(r)'
  BY <1>1, DownKept DEF BodyAt
<1>6. GotAt(r)'
  <2>1. Len(got'[r]) = 0 /\ Len(down'[r]) = 0 /\ (1..sent'[r]) \ lost'[r] = {}
        /\ data'[r] = got'[r]
    BY <1>1, <1>2, <1>3 DEF workVars
  <2>2. 1..0 = {}
    OBVIOUS
  <2> QED BY <2>1, <2>2 DEF GotAt
<1>7. HandedAt(r)'
  <2>1. HoldsUpTo(data[r], r, 0)'
    BY <1>1, <1>2, <1>3 DEF HoldsUpTo
  <2>2. 0 \in 0..sent'[r]
    BY <1>1, <1>3 DEF workVars
  <2>3. r \in Streams => stream'[r] # "closed"
    BY DEF TypeOK, Call
  <2> QED BY <1>1, <2>1, <2>2, <2>3 DEF HandedAt
<1> QED BY <1>4, <1>5, <1>6, <1>7 DEF BodyAt

(* A cancel appends an ABORT to what is on its way to the worker. *)
LEMMA CancelBody ==
    ASSUME TypeOK, NEW r \in Requests, BodyAt(r), Cancel(r),
           UNCHANGED <<data, down, workVars, lost>>,
           caller[r] # "idle", caller'[r] # "idle",
           caller'[r] = "answered" => caller[r] = "answered"
    PROVE  BodyAt(r)'
<1>1. UpAt(r)'
  <2>1. CASE stream[r] = "readable"
    <3>1. up'[r] = Append(up[r], "ABORT") /\ up[r] \in Seq({"REQUEST", "ABORT"})
      BY <2>1 DEF TypeOK, Cancel
    <3>2. /\ Len(up'[r]) = Len(up[r]) + 1 /\ Len(up[r]) \in Nat
          /\ up'[r][Len(up[r]) + 1] = "ABORT"
          /\ \A j \in 1..Len(up[r]) : up'[r][j] = up[r][j]
      BY <3>1, AppendIs
    <3>3. \A i \in 1..Len(up'[r]) : up'[r][i] = "REQUEST" => i \in 1..Len(up[r])
      BY <3>2
    <3> QED BY <3>2, <3>3 DEF BodyAt, UpAt, workVars
  <2>2. CASE stream[r] # "readable"
    BY <2>2 DEF Cancel, BodyAt, UpAt, workVars
  <2> QED BY <2>1, <2>2
<1>2. DownAt(r)'
  BY DownKept DEF BodyAt
<1>3. /\ table'[r] = "open" => table[r] = "open" /\ got'[r] = got[r]
      /\ stream'[r] = "closed" => stream[r] = "closed"
  BY DEF TypeOK, Cancel, Dropped
<1> QED BY <1>1, <1>2, <1>3, BytesKept DEF BodyAt

(* The handlers that only end what the page has. *)
LEMMA EndingBody ==
    ASSUME TypeOK, NEW r \in Requests, BodyAt(r), UNCHANGED <<up, down, workVars, lost, data>>,
           got'[r] \in {got[r], <<>>},
           table'[r] = "open" => table[r] = "open" /\ got'[r] = got[r],
           stream'[r] = "closed" => stream[r] = "closed",
           caller'[r] = "idle" => caller[r] = "idle",
           r \in Streams \/ (caller'[r] = "answered" => caller[r] = "answered")
    PROVE  BodyAt(r)'
<1>1. UpAt(r)'
  <2>1. caller[r] = "idle" => got[r] = <<>>
    BY DEF BodyAt, UpAt
  <2> QED BY <2>1 DEF BodyAt, UpAt, workVars
<1> QED BY <1>1, DownKept, BytesKept DEF BodyAt

LEMMA SettleBody ==
    ASSUME TypeOK, NEW r \in Requests, BodyAt(r), SettleStreamError(r, "errored"),
           UNCHANGED <<up, down, workVars, lost>>
    PROVE  BodyAt(r)'
<1>1. /\ got'[r] = <<>> /\ table'[r] = "none" /\ data' = data
      /\ stream'[r] = "closed" => stream[r] = "closed"
      /\ caller'[r] \in {"idle", "answered"} => caller[r] = caller'[r]
  BY DEF TypeOK, SettleStreamError, Dropped, StreamEnds, CallerFails
<1> QED BY <1>1, EndingBody

LEMMA ReplyBody ==
    ASSUME TypeOK, NEW r \in Requests, BodyAt(r), ReceiveReply(r) PROVE BodyAt(r)'
<1>1. UNCHANGED <<up, down, workVars, lost>>
  BY DEF ReceiveReply
<1>2. CASE OnMeta(r)
  <2>1. /\ got' = got /\ data' = data /\ stream' = stream
        /\ table'[r] = "open" => table[r] = "open"
        /\ caller'[r] = "idle" => caller[r] = "idle"
        /\ r \in Streams \/ caller'[r] = caller[r]
    BY <1>2 DEF TypeOK, OnMeta
  <2> QED BY <1>1, <2>1, EndingBody
<1>3. CASE OnEndFail(r)
  <2>1. /\ got'[r] = <<>> /\ table'[r] = "none" /\ data' = data
        /\ stream'[r] = "closed" => stream[r] = "closed"
        /\ caller'[r] \in {"idle", "answered"} => caller[r] = caller'[r]
    BY <1>3 DEF TypeOK, OnEndFail, Dropped, StreamEnds, CallerFails
  <2> QED BY <1>1, <2>1, EndingBody
<1>4. CASE UNCHANGED pageVars
  BY <1>1, <1>4, EndingBody DEF pageVars
<1> QED BY <1>2, <1>3, <1>4 DEF ReceiveReply

LEMMA TailDown ==
    ASSUME TypeOK, NEW r \in Requests, DownAt(r), down[r] # <<>>,
           down'[r] = Tail(down[r]), UNCHANGED <<workVars, lost>>
    PROVE  DownAt(r)'
<1> DEFINE q == down[r]
           t == Tail(down[r])
<1>1. /\ Len(q) > 0 /\ Len(t) = Len(q) - 1 /\ Len(q) \in Nat
      /\ \A j \in 1..Len(t) : j + 1 \in 1..Len(q) /\ t[j] = q[j + 1]
  <2>1. q \in Seq(Messages)
    BY DEF TypeOK
  <2> QED BY <2>1, HeadIs
<1>2. ASSUME NEW i \in 1..Len(t), NEW j \in 1..Len(t), i < j
      PROVE  t[i].type = "CHUNK" /\ (t[j].type = "CHUNK" => t[i].index < t[j].index)
  <2>1. /\ i + 1 \in 1..Len(q) /\ j + 1 \in 1..Len(q) /\ i + 1 < j + 1
        /\ t[i] = q[i + 1] /\ t[j] = q[j + 1]
    BY <1>1, <1>2
  <2>2. /\ q[i + 1].type = "CHUNK"
        /\ q[j + 1].type = "CHUNK" => q[i + 1].index < q[j + 1].index
    BY <2>1 DEF DownAt
  <2> QED BY ONLY <2>1, <2>2
<1>3. ASSUME NEW i \in 1..Len(t)
      PROVE  /\ job[r] = "pump" => t[i].type = "CHUNK"
             /\ t[i].type = "CHUNK" => t[i].index \in (1..sent[r]) \ lost[r]
             /\ t[i].type = "OK" => sent[r] = Body[r]
  <2>1. i + 1 \in 1..Len(q) /\ t[i] = q[i + 1]
    BY <1>1
  <2>2. /\ job[r] = "pump" => q[i + 1].type = "CHUNK"
        /\ q[i + 1].type = "CHUNK" => q[i + 1].index \in (1..sent[r]) \ lost[r]
        /\ q[i + 1].type = "OK" => sent[r] = Body[r]
    BY <2>1 DEF DownAt
  <2> QED BY ONLY <2>1, <2>2
<1>4. down'[r] = t /\ job' = job /\ sent' = sent /\ lost' = lost
  BY DEF workVars
<1>5. job[r] \notin {"none", "rule", "race", "single"} /\ sent[r] <= Body[r] /\ lost[r] \subseteq 1..sent[r]
  BY DEF DownAt
<1> HIDE DEF t
<1> QED BY <1>2, <1>3, <1>4, <1>5 DEF DownAt

LEMMA ChunkBody ==
    ASSUME TypeOK, NEW r \in Requests, PageInvAt(r), BodyAt(r), down[r] # <<>>,
           Head(down[r]).type = "CHUNK", OnChunk(r, Head(down[r]).index),
           down'[r] = Tail(down[r]), UNCHANGED <<workVars, lost>>
    PROVE  GotAt(r)' /\ HandedAt(r)'
<1> DEFINE i == Head(down[r]).index
           g == Append(got[r], i)
<1>1. /\ got'[r] = g /\ UNCHANGED <<table, caller, stream>>
      /\ data'[r] = IF stream[r] = "readable" /\ table[r] = "open"
                    THEN Append(data[r], i) ELSE data[r]
      /\ sent' = sent /\ lost' = lost
  BY DEF TypeOK, OnChunk, workVars
<1>2. CASE table[r] = "open"
  <2>1. /\ i \in 1..sent[r]
        /\ HoldsUpTo(g, r, i)
        /\ \A k \in 1..Len(g), j \in 1..Len(Tail(down[r])) :
               Tail(down[r])[j].type = "CHUNK" => g[k] < Tail(down[r])[j].index
        /\ \A n \in Nat :
               n \in (1..sent[r]) \ lost[r] <=>
                   \/ \E k \in 1..Len(g) : g[k] = n
                   \/ \E j \in 1..Len(Tail(down[r])) :
                          Tail(down[r])[j].type = "CHUNK" /\ Tail(down[r])[j].index = n
    BY <1>2, ChunkContinues DEF BodyAt
  <2>2. r \in Streams => data'[r] = g
    BY <1>1, <1>2 DEF PageInvAt, BodyAt, GotAt
  <2> HIDE DEF g, i
  <2>3. GotAt(r)'
    <3>1. got'[r] = g /\ down'[r] = Tail(down[r]) /\ sent'[r] = sent[r] /\ lost'[r] = lost[r]
      BY <1>1
    <3>2. \A k, j \in 1..Len(g) : k < j => g[k] < g[j]
      BY <2>1 DEF HoldsUpTo
    <3> QED BY <2>1, <2>2, <3>1, <3>2 DEF GotAt
  <2>4. r \in Streams => (\E last \in 0..sent[r] : HoldsUpTo(data[r], r, last))'
    <3>1. i \in 0..sent[r]
      BY <2>1 DEF TypeOK
    <3>2. PICK last \in 0..sent[r] : last = i
      BY <3>1
    <3>3. HoldsUpTo(g, r, last)
      BY <2>1, <3>2
    <3>4. r \in Streams => HoldsUpTo(data[r], r, last)'
      BY <1>1, <2>2, <3>3 DEF HoldsUpTo
    <3> QED BY <1>1, <3>4
  <2>5. ~ (IF r \in Streams THEN stream'[r] = "closed" ELSE caller'[r] = "answered")
    BY <1>1, <1>2 DEF PageInvAt
  <2> QED BY <2>3, <2>4, <2>5 DEF HandedAt
<1>3. CASE table[r] # "open"
  <2>1. data'[r] = data[r]
    BY <1>1, <1>3
  <2>2. \A last : HoldsUpTo(data[r], r, last)' <=> HoldsUpTo(data[r], r, last)
    BY <1>1, <2>1 DEF HoldsUpTo
  <2>3. HoldsUpTo(data[r], r, Body[r])' <=> HoldsUpTo(data[r], r, Body[r])
    BY <2>2
  <2>4. r \in Streams => (\E last \in 0..sent[r] : HoldsUpTo(data[r], r, last))'
    BY <1>1, <2>2 DEF BodyAt, HandedAt
  <2> QED BY <1>1, <1>3, <2>3, <2>4 DEF BodyAt, GotAt, HandedAt
<1> QED BY <1>2, <1>3

LEMMA EndOkBody ==
    ASSUME TypeOK, NEW r \in Requests, PageInvAt(r), BodyAt(r), down[r] # <<>>,
           Head(down[r]).type = "OK", OnEndOk(r), UNCHANGED <<workVars, lost>>
    PROVE  GotAt(r)' /\ HandedAt(r)'
<1>1. table'[r] = "none" /\ sent' = sent /\ lost' = lost
  BY DEF TypeOK, OnEndOk, Usable, Dropped, workVars
<1>2. CASE table[r] = "open"
  <2>1. HoldsUpTo(got[r], r, Body[r]) /\ sent[r] = Body[r]
    BY <1>2, EndIsWhole DEF BodyAt
  <2>2. CASE r \in Streams
    <3>1. data' = data /\ data[r] = got[r]
      BY <1>2, <2>2 DEF OnEndOk, Usable, BodyAt, GotAt
    <3>2. HoldsUpTo(data[r], r, Body[r])'
      BY <1>1, <2>1, <3>1 DEF HoldsUpTo
    <3>3. Body[r] \in 0..sent'[r]
      BY <1>1, <2>1 DEF TypeOK
    <3> QED BY <1>1, <2>1, <2>2, <3>2, <3>3 DEF GotAt, HandedAt
  <2>3. CASE r \notin Streams
    <3>1. caller[r] = "waiting"
      BY <1>2, <2>3 DEF PageInvAt
    <3>2. caller'[r] = "answered" => data'[r] = got[r]
      BY <1>2, <2>3, <3>1 DEF TypeOK, OnEndOk, Usable, CallerFails
    <3>3. caller'[r] = "answered" => HoldsUpTo(data[r], r, Body[r])'
      BY <1>1, <2>1, <3>2 DEF HoldsUpTo
    <3>4. caller'[r] = "answered" => got[r] # <<>>
      BY <1>2, <2>3, <3>1 DEF TypeOK, OnEndOk, Usable, CallerFails
    <3> QED BY <1>1, <2>1, <2>3, <3>2, <3>3, <3>4 DEF GotAt, HandedAt
  <2> QED BY <2>2, <2>3
<1>3. CASE table[r] # "open"
  <2>1. UNCHANGED <<data, caller, stream>>
    BY <1>3 DEF OnEndOk, Usable
  <2>2. \A last : HoldsUpTo(data[r], r, last)' <=> HoldsUpTo(data[r], r, last)
    BY <1>1, <2>1 DEF HoldsUpTo
  <2>3. HoldsUpTo(data[r], r, Body[r])' <=> HoldsUpTo(data[r], r, Body[r])
    BY <2>2
  <2>4. r \in Streams => (\E last \in 0..sent[r] : HoldsUpTo(data[r], r, last))'
    BY <1>1, <2>2 DEF BodyAt, HandedAt
  <2> QED BY <1>1, <2>1, <2>3, <2>4 DEF BodyAt, GotAt, HandedAt
<1> QED BY <1>2, <1>3

(* A message that finds no caller, or an END with a failure. *)
LEMMA OtherBody ==
    ASSUME TypeOK, NEW r \in Requests, BodyAt(r),
           OnEndFail(r) \/ (table[r] = "none" /\ UNCHANGED pageVars), UNCHANGED <<workVars, lost>>
    PROVE  GotAt(r)' /\ HandedAt(r)'
<1>1. /\ table'[r] = "none" /\ data' = data /\ sent' = sent /\ lost' = lost
      /\ stream'[r] = "closed" => stream[r] = "closed"
      /\ caller'[r] = "answered" => caller[r] = "answered"
  BY DEF TypeOK, OnEndFail, Dropped, StreamEnds, CallerFails, pageVars, workVars
<1>2. \A last : HoldsUpTo(data[r], r, last)' <=> HoldsUpTo(data[r], r, last)
  BY <1>1 DEF HoldsUpTo
<1>3. HoldsUpTo(data[r], r, Body[r])' <=> HoldsUpTo(data[r], r, Body[r])
  BY <1>2
<1>4. r \in Streams => (\E last \in 0..sent[r] : HoldsUpTo(data[r], r, last))'
  BY <1>1, <1>2 DEF BodyAt, HandedAt
<1> QED BY <1>1, <1>3, <1>4 DEF BodyAt, GotAt, HandedAt

LEMMA ReceiveBodyBody ==
    ASSUME TypeOK, PageInv, NEW r \in Requests, BodyAt(r), ReceiveBody(r) PROVE BodyAt(r)'
<1>1. /\ down[r] # <<>> /\ down'[r] = Tail(down[r])
      /\ UNCHANGED <<up, workVars, lost>>
  BY DEF TypeOK, ReceiveBody
<1>2. PageInvAt(r)
  BY DEF PageInv
<1>3. DownAt(r)'
  BY <1>1, TailDown DEF BodyAt
<1>4. UpAt(r)'
  <2>1. caller[r] # "idle"
    BY <1>1 DEF BodyAt, UpAt, DownAt
  <2>2. caller'[r] # "idle"
    BY <2>1 DEF TypeOK, ReceiveBody, OnChunk, OnEndFail, OnEndOk, Usable, CallerFails, pageVars
  <2> QED BY <1>1, <2>1, <2>2 DEF BodyAt, UpAt, workVars
<1>5. GotAt(r)' /\ HandedAt(r)'
  <2>1. CASE Head(down[r]).type = "CHUNK" /\ OnChunk(r, Head(down[r]).index)
    BY <1>1, <1>2, <2>1, ChunkBody
  <2>2. CASE Head(down[r]).type = "OK" /\ OnEndOk(r)
    BY <1>1, <1>2, <2>2, EndOkBody
  <2>3. CASE OnEndFail(r) \/ (table[r] = "none" /\ UNCHANGED pageVars)
    BY <1>1, <2>3, OtherBody
  <2> QED BY <2>1, <2>2, <2>3 DEF ReceiveBody
<1> QED BY <1>3, <1>4, <1>5 DEF BodyAt

LEMMA PageBody ==
    ASSUME TypeOK, PageInv, BodyInv, NEW r \in Requests, PageStep(r) PROVE BodyInv'
<1>1. BodyAt(r)
  BY DEF BodyInv
<1>2. BodyAt(r)'
  <2>1. CASE Call(r)
    BY <1>1, <2>1, CallBody
  <2>2. CASE CancelResponse(r) \/ MetaTimeout(r)
    <3>1. /\ Cancel(r) /\ UNCHANGED <<data, down, workVars, lost>>
          /\ caller[r] # "idle" /\ caller'[r] # "idle"
          /\ caller'[r] = "answered" => caller[r] = "answered"
      BY <2>2 DEF TypeOK, CancelResponse, MetaTimeout
    <3> QED BY <1>1, <3>1, CancelBody
  <2>3. CASE Deadline(r) \/ Sweep(r)
    BY <1>1, <2>3, SettleBody DEF Deadline, Sweep
  <2>4. CASE ReceiveReply(r)
    BY <1>1, <2>4, ReplyBody
  <2>5. CASE ReceiveBody(r)
    BY <1>1, <2>5, ReceiveBodyBody
  <2> QED BY <2>1, <2>2, <2>3, <2>4, <2>5 DEF PageStep
<1>3. ASSUME NEW q \in Requests \ {r} PROVE BodyAt(q)'
  BY PageSame, SameKeeps DEF BodyInv
<1> QED BY <1>2, <1>3 DEF BodyInv

-----------------------------------------------------------------------------
(* Steps of the worker *)

(* A step that touches neither the page nor the channel of the body. *)
LEMMA ChannelKept ==
    ASSUME NEW r \in Requests, GotAt(r), HandedAt(r), UNCHANGED <<pageVars, down, sent, lost>>
    PROVE  GotAt(r)' /\ HandedAt(r)'
<1>1. /\ table' = table /\ got' = got /\ data' = data /\ stream' = stream /\ caller' = caller
      /\ down' = down /\ sent' = sent /\ lost' = lost
  BY DEF pageVars
<1>2. GotAt(r)'
  BY <1>1 DEF GotAt
<1>3. HandedAt(r)'
  BY <1>1 DEF HandedAt, HoldsUpTo
<1> QED BY <1>2, <1>3

(* A fetch that has begun goes on to its next stage. *)
LEMMA StageBody ==
    ASSUME TypeOK, NEW r \in Requests, BodyAt(r), UNCHANGED <<pageVars, up, down, sent, lost, aborted>>,
           job[r] # "none",
           \/ job'[r] = "done"
           \/ job[r] \in Fetching /\ job'[r] \in {"race", "single", "pump"} /\ r \notin aborted
    PROVE  BodyAt(r)'
<1>1. UpAt(r)'
  <2>1. caller' = caller /\ got' = got /\ data' = data /\ up' = up /\ aborted' = aborted
    BY DEF pageVars
  <2> QED BY <2>1 DEF BodyAt, UpAt
<1>2. DownAt(r)'
  BY DEF BodyAt, DownAt, Fetching
<1> QED BY <1>1, <1>2, ChannelKept DEF BodyAt

(* The first message to the worker is taken. *)
LEMMA TakenBody ==
    ASSUME TypeOK, NEW r \in Requests, BodyAt(r), UNCHANGED <<pageVars, down, sent, lost>>,
           up[r] # <<>>, up'[r] = Tail(up[r]),
           r \in aborted' => job'[r] \notin {"race", "single"},
           job'[r] \in {"rule", "race", "single"} => job[r] \in {"none", "rule", "race", "single"},
           job'[r] \in {"none", "pump"} => job'[r] = job[r]
    PROVE  BodyAt(r)'
<1>1. UpAt(r)'
  <2>1. caller'[r] # "idle"
    BY DEF BodyAt, UpAt, pageVars
  <2>2. ASSUME NEW i \in 1..Len(up'[r]) PROVE up'[r][i] # "REQUEST"
    <3>1. up[r] \in Seq({"REQUEST", "ABORT"})
      BY DEF TypeOK
    <3>2. i + 1 \in 1..Len(up[r]) /\ up'[r][i] = up[r][i + 1] /\ i + 1 # 1
      BY <3>1, HeadIs
    <3> QED BY <3>2 DEF BodyAt, UpAt
  <2> QED BY <2>1, <2>2 DEF UpAt
<1>2. DownAt(r)'
  BY DEF BodyAt, DownAt
<1> QED BY <1>1, <1>2, ChannelKept DEF BodyAt

(* A message that opens the channel's queue is the first of it. *)
LEMMA RequestIsNew ==
    ASSUME TypeOK, NEW r \in Requests, BodyAt(r), up[r] # <<>>, Head(up[r]) = "REQUEST"
    PROVE  job[r] = "none" /\ r \notin aborted
<1>1. Len(up[r]) > 0 /\ up[r][1] = "REQUEST" /\ 1 \in 1..Len(up[r])
  <2>1. up[r] \in Seq({"REQUEST", "ABORT"})
    BY DEF TypeOK
  <2> QED BY <2>1, HeadIs
<1> QED BY <1>1 DEF BodyAt, UpAt

(* The pump sends the next chunk, or the browser rejects it. *)
LEMMA PumpBody ==
    ASSUME TypeOK, NEW r \in Requests, BodyAt(r), PumpChunk(r) PROVE BodyAt(r)'
<1> DEFINE n == sent[r] + 1
           q == down[r]
<1>1. /\ job[r] = "pump" /\ sent[r] < Body[r] /\ sent[r] \in Nat /\ Body[r] \in Nat
      /\ q \in Seq(Messages) /\ Chunk(n) \in Messages /\ n \in Nat
  <2>1. job[r] = "pump" /\ sent[r] < Body[r] /\ sent[r] \in Nat /\ Body[r] \in Nat /\ n \in Nat
    <3>1. job[r] = "pump" /\ sent[r] < Body[r]
      BY DEF PumpChunk
    <3>2. sent[r] \in Nat
      BY DEF TypeOK
    <3>3. Body[r] \in Nat
      BY FetchAssumption
    <3> QED BY <3>1, <3>2, <3>3
  <2>2. q \in Seq(Messages)
    BY DEF TypeOK
  <2>3. Chunk(n) \in Messages
    BY <2>1 DEF Chunk, Messages
  <2> QED BY <2>1, <2>2, <2>3
<1>2. /\ sent'[r] = n /\ job' = job /\ up' = up /\ aborted' = aborted
      /\ table' = table /\ got' = got /\ data' = data /\ stream' = stream /\ caller' = caller
  BY DEF TypeOK, PumpChunk, pageVars
<1>3. \/ down'[r] = Append(q, Chunk(n)) /\ lost' = lost
      \/ down'[r] = q /\ lost'[r] = lost[r] \cup {n}
  BY DEF TypeOK, PumpChunk, Send, Loses, Chunk
<1>4. /\ \A j \in 1..Len(q) : q[j].type = "CHUNK" /\ q[j].index \in (1..sent[r]) \ lost[r]
      /\ lost[r] \subseteq 1..sent[r]
  BY <1>1 DEF BodyAt, DownAt
<1>5. UpAt(r)'
  BY <1>2 DEF BodyAt, UpAt
<1>6. \A k \in Nat : k \in 1..n <=> k \in 1..sent[r] \/ k = n
  BY <1>1
<1>7. n \notin 1..sent[r] /\ n \notin lost[r]
  BY <1>1, <1>4
<1>8. \A last \in 0..sent[r] : (1..last) \ lost'[r] = (1..last) \ lost[r]
  <2>1. \A last \in 0..sent[r] : n \notin 1..last
    BY <1>1
  <2> QED BY <1>3, <2>1
<1>9. HandedAt(r)'
  <2>1. \A last \in 0..sent[r] : HoldsUpTo(data[r], r, last) => HoldsUpTo(data[r], r, last)'
    BY <1>2, <1>8 DEF HoldsUpTo
  <2>2. \A last \in 0..sent[r] : last \in 0..sent'[r]
    BY <1>1, <1>2
  <2>3. r \in Streams => (\E last \in 0..sent[r] : HoldsUpTo(data[r], r, last))'
    BY <2>1, <2>2 DEF BodyAt, HandedAt
  <2>4. ~ (IF r \in Streams THEN stream'[r] = "closed" ELSE caller'[r] = "answered")
    BY <1>1, <1>2 DEF BodyAt, HandedAt
  <2> QED BY <2>3, <2>4 DEF HandedAt
<1>10. CASE down'[r] = Append(q, Chunk(n)) /\ lost' = lost
  <2> DEFINE p == Append(q, Chunk(n))
  <2>1. /\ Len(p) = Len(q) + 1 /\ Len(q) \in Nat /\ p[Len(q) + 1] = Chunk(n)
        /\ \A j \in 1..Len(q) : p[j] = q[j]
    BY <1>1, AppendIs
  <2>2. Chunk(n).type = "CHUNK" /\ Chunk(n).index = n
    BY DEF Chunk
  <2>3. /\ \A j \in 1..Len(p) : j \in 1..Len(q) \/ j = Len(q) + 1
        /\ \A j \in 1..Len(q) : j \in 1..Len(p)
        /\ Len(q) + 1 \in 1..Len(p)
    BY <2>1
  <2> HIDE DEF p, n
  <2>4. ASSUME NEW j \in 1..Len(p)
        PROVE  p[j].type = "CHUNK" /\ p[j].index \in (1..n) \ lost[r]
    <3>1. CASE j \in 1..Len(q)
      <4>1. q[j].index \in Nat
        BY <1>1, <1>4, <3>1
      <4> QED BY <1>4, <1>6, <2>1, <3>1, <4>1
    <3>2. CASE j = Len(q) + 1
      BY <1>1, <1>6, <1>7, <2>1, <2>2, <3>2
    <3> QED BY <2>3, <3>1, <3>2
  <2>5. ASSUME NEW i \in 1..Len(p), NEW j \in 1..Len(p), i < j
        PROVE  p[i].index < p[j].index
    <3>1. i \in 1..Len(q)
      BY <2>1, <2>5
    <3>2. CASE j \in 1..Len(q)
      <4>1. q[i].index < q[j].index
        BY <1>4, <2>5, <3>1, <3>2 DEF BodyAt, DownAt
      <4> QED BY ONLY <2>1, <3>1, <3>2, <4>1
    <3>3. CASE j = Len(q) + 1
      <4>1. q[i].index \in 1..sent[r]
        BY <1>4, <3>1
      <4>2. q[i].index < n
        BY <1>1, <4>1 DEF n
      <4> QED BY ONLY <2>1, <2>2, <3>1, <3>3, <4>2
    <3> QED BY <2>3, <3>2, <3>3
  <2>6. DownAt(r)'
    <3>1. n <= Body[r] /\ lost[r] \subseteq 1..n
      BY <1>1, <1>4 DEF n
    <3> QED BY <1>1, <1>2, <1>10, <2>4, <2>5, <3>1 DEF DownAt, p
  <2>7. GotAt(r)'
    <3> SUFFICES ASSUME table[r] = "open" PROVE GotAt(r)'
      BY <1>2 DEF GotAt
    <3>1. got[r] \in Seq(Nat) /\ \A i \in 1..Len(got[r]) : got[r][i] \in Nat
      BY DEF TypeOK
    <3>2. ASSUME NEW i \in 1..Len(got[r]) PROVE got[r][i] < n
      <4>1. got[r][i] \in 1..sent[r]
        BY <3>1 DEF BodyAt, GotAt
      <4> QED BY <1>1, <4>1 DEF n
    <3>3. ASSUME NEW i \in 1..Len(got[r]), NEW j \in 1..Len(p) PROVE got[r][i] < p[j].index
      <4>1. CASE j \in 1..Len(q)
        <5>1. got[r][i] < q[j].index
          BY <1>4, <4>1 DEF BodyAt, GotAt
        <5> QED BY ONLY <2>1, <4>1, <5>1
      <4>2. CASE j = Len(q) + 1
        BY ONLY <2>1, <2>2, <3>2, <4>2
      <4> QED BY <2>3, <4>1, <4>2
    <3>4. ASSUME NEW k \in Nat
          PROVE  (\E j \in 1..Len(p) : p[j].type = "CHUNK" /\ p[j].index = k)
                     <=> k = n \/ \E j \in 1..Len(q) : q[j].type = "CHUNK" /\ q[j].index = k
      <4>1. (\E j \in 1..Len(p) : p[j].index = k)
                <=> k = n \/ \E j \in 1..Len(q) : q[j].index = k
        BY ONLY <2>1, <2>2, <2>3
      <4> QED BY ONLY <1>4, <2>4, <4>1
    <3>5. \A k \in Nat : k \in (1..sent[r]) \ lost[r] <=>
              \/ \E i \in 1..Len(got[r]) : got[r][i] = k
              \/ \E j \in 1..Len(q) : q[j].type = "CHUNK" /\ q[j].index = k
      BY DEF BodyAt, GotAt
    <3>6. \A k \in Nat : k \in (1..n) \ lost[r] <=>
              \/ \E i \in 1..Len(got[r]) : got[r][i] = k
              \/ \E j \in 1..Len(p) : p[j].type = "CHUNK" /\ p[j].index = k
      BY ONLY <1>6, <1>7, <3>4, <3>5
    <3>7. /\ \A i, j \in 1..Len(got[r]) : i < j => got[r][i] < got[r][j]
          /\ r \in Streams => data[r] = got[r]
      BY DEF BodyAt, GotAt
    <3> QED BY <1>2, <1>10, <3>3, <3>6, <3>7 DEF GotAt, p
  <2> QED BY <1>5, <1>9, <2>6, <2>7 DEF BodyAt
<1>11. CASE down'[r] = q /\ lost'[r] = lost[r] \cup {n}
  <2>1. (1..n) \ lost'[r] = (1..sent[r]) \ lost[r]
    BY <1>1, <1>4, <1>7, <1>11
  <2>2. n <= Body[r] /\ lost'[r] \subseteq 1..n
    BY <1>1, <1>4, <1>11
  <2> HIDE DEF n
  <2>3. DownAt(r)'
    BY <1>1, <1>2, <1>4, <1>11, <2>1, <2>2 DEF BodyAt, DownAt
  <2>4. GotAt(r)'
    BY <1>2, <1>11, <2>1 DEF BodyAt, GotAt
  <2> QED BY <1>5, <1>9, <2>3, <2>4 DEF BodyAt
<1> QED BY <1>3, <1>10, <1>11

(* The END goes behind the chunks, or the browser rejects it. *)
LEMMA EndBody ==
    ASSUME TypeOK, NEW r \in Requests, BodyAt(r), PumpEnds(r) PROVE BodyAt(r)'
<1> DEFINE q == down[r]
<1>1. job[r] = "pump" /\ job'[r] = "ending" /\ q \in Seq(Messages)
  BY DEF TypeOK, PumpEnds
<1>2. UNCHANGED <<pageVars, up, sent, lost, aborted>>
  BY DEF PumpEnds, Send, Loses, EndOk, EndFail
<1>3. UpAt(r)'
  <2>1. caller' = caller /\ got' = got /\ data' = data /\ up' = up /\ aborted' = aborted
    BY <1>2 DEF pageVars
  <2> QED BY <1>1, <2>1 DEF BodyAt, UpAt
<1>4. CASE down' = down
  <2>1. DownAt(r)'
    BY <1>1, <1>2, <1>4 DEF BodyAt, DownAt
  <2> QED BY <1>2, <1>3, <1>4, <2>1, ChannelKept DEF BodyAt
<1>5. ASSUME NEW e \in Messages, e.type # "CHUNK", e.type = "OK" => sent[r] = Body[r],
             down'[r] = Append(q, e)
      PROVE  BodyAt(r)'
  <2> DEFINE p == Append(q, e)
  <2>1. /\ Len(p) = Len(q) + 1 /\ Len(q) \in Nat /\ p[Len(q) + 1] = e
        /\ \A j \in 1..Len(q) : p[j] = q[j]
    BY <1>1, AppendIs
  <2>2. /\ \A j \in 1..Len(p) : j \in 1..Len(q) \/ j = Len(q) + 1
        /\ \A j \in 1..Len(q) : j \in 1..Len(p)
        /\ \A i, j \in 1..Len(p) : i < j => i \in 1..Len(q)
    BY <2>1
  <2> HIDE DEF p
  <2>3. \A j \in 1..Len(q) : q[j].type = "CHUNK" /\ q[j].index \in (1..sent[r]) \ lost[r]
    BY <1>1 DEF BodyAt, DownAt
  <2>4. \A j \in 1..Len(p) : p[j].type = "CHUNK" => j \in 1..Len(q)
    BY <1>5, <2>1, <2>2
  <2>5. DownAt(r)'
    <3>1. ASSUME NEW i \in 1..Len(p), NEW j \in 1..Len(p), i < j
          PROVE  /\ p[i].type = "CHUNK"
                 /\ p[j].type = "CHUNK" => p[i].index < p[j].index
      <4>1. i \in 1..Len(q)
        BY <2>2, <3>1
      <4>2. j \in 1..Len(q) => q[i].index < q[j].index
        BY <2>3, <3>1, <4>1 DEF BodyAt, DownAt
      <4> QED BY ONLY <2>1, <2>3, <2>4, <4>1, <4>2
    <3>2. \A i \in 1..Len(p) : /\ p[i].type = "CHUNK" => p[i].index \in (1..sent[r]) \ lost[r]
                               /\ p[i].type = "OK" => sent[r] = Body[r]
      BY ONLY <1>5, <2>1, <2>2, <2>3, <2>4
    <3>3. sent[r] <= Body[r] /\ lost[r] \subseteq 1..sent[r]
      BY DEF BodyAt, DownAt
    <3> QED BY <1>1, <1>2, <1>5, <3>1, <3>2, <3>3 DEF DownAt, p
  <2>6. GotAt(r)'
    <3> SUFFICES ASSUME table[r] = "open" PROVE GotAt(r)'
      BY <1>2 DEF GotAt, pageVars
    <3>1. \A n : (\E j \in 1..Len(p) : p[j].type = "CHUNK" /\ p[j].index = n)
                     <=> \E j \in 1..Len(q) : q[j].type = "CHUNK" /\ q[j].index = n
      BY ONLY <2>1, <2>2, <2>4
    <3>2. \A n \in Nat : n \in (1..sent[r]) \ lost[r] <=>
              \/ \E i \in 1..Len(got[r]) : got[r][i] = n
              \/ \E j \in 1..Len(q) : q[j].type = "CHUNK" /\ q[j].index = n
      BY DEF BodyAt, GotAt
    <3>3. \A i \in 1..Len(got[r]), j \in 1..Len(p) : p[j].type = "CHUNK" => got[r][i] < p[j].index
      <4>1. \A i \in 1..Len(got[r]), j \in 1..Len(q) : q[j].type = "CHUNK" => got[r][i] < q[j].index
        BY DEF BodyAt, GotAt
      <4> QED BY ONLY <2>1, <2>4, <4>1
    <3>4. /\ \A i, j \in 1..Len(got[r]) : i < j => got[r][i] < got[r][j]
          /\ r \in Streams => data[r] = got[r]
      BY DEF BodyAt, GotAt
    <3>5. \A n \in Nat : n \in (1..sent[r]) \ lost[r] <=>
              \/ \E i \in 1..Len(got[r]) : got[r][i] = n
              \/ \E j \in 1..Len(p) : p[j].type = "CHUNK" /\ p[j].index = n
      BY ONLY <3>1, <3>2
    <3>6. got' = got /\ data' = data /\ sent' = sent /\ lost' = lost /\ down'[r] = p
      BY <1>2, <1>5 DEF pageVars, p
    <3> QED BY <3>3, <3>4, <3>5, <3>6 DEF GotAt
  <2>7. HandedAt(r)'
    <3>1. data' = data /\ stream' = stream /\ caller' = caller /\ sent' = sent /\ lost' = lost
      BY <1>2 DEF pageVars
    <3> QED BY <3>1 DEF BodyAt, HandedAt, HoldsUpTo
  <2> QED BY <1>3, <2>5, <2>6, <2>7 DEF BodyAt
<1>6. /\ EndOk \in Messages /\ EndOk.type = "OK" /\ EndFail \in Messages /\ EndFail.type = "FAIL"
  BY DEF EndOk, EndFail, Messages
<1>7. \/ down' = down
      \/ down'[r] = Append(q, EndOk) /\ sent[r] = Body[r]
      \/ down'[r] = Append(q, EndFail)
  BY <1>6 DEF TypeOK, PumpEnds, Send, Loses
<1> QED BY <1>4, <1>5, <1>6, <1>7

LEMMA WorkerBody ==
    ASSUME TypeOK, BodyInv, NEW r \in Requests, WorkerStep(r) PROVE BodyInv'
<1>1. BodyAt(r) /\ UNCHANGED pageVars
  BY WorkerLeavesPage DEF BodyInv
<1>2. FirstLeg(r) \in {"race", "single"}
  BY DEF FirstLeg
<1>3. r \in aborted => job[r] \notin {"race", "single"}
  BY <1>1 DEF BodyAt, UpAt
<1>4. BodyAt(r)'
  <2>1. CASE ReceiveRequest(r)
    <3>1. job[r] = "none" /\ r \notin aborted
      BY <1>1, <2>1, RequestIsNew DEF ReceiveRequest
    <3>2. /\ up[r] # <<>> /\ up'[r] = Tail(up[r]) /\ UNCHANGED <<down, sent, lost, aborted>>
          /\ job'[r] \in {"rule", "race", "single"}
      BY <1>2, <2>1 DEF TypeOK, ReceiveRequest
    <3> QED BY <1>1, <3>1, <3>2, TakenBody
  <2>2. CASE RelayRefuses(r)
    <3>1. up[r] # <<>> /\ up'[r] = Tail(up[r]) /\ UNCHANGED <<down, workVars, lost>>
      BY <2>2 DEF TypeOK, RelayRefuses
    <3> QED BY <1>1, <1>3, <3>1, TakenBody DEF workVars
  <2>3. CASE ReceiveAbort(r)
    <3>1. /\ up[r] # <<>> /\ up'[r] = Tail(up[r]) /\ UNCHANGED <<down, sent, lost>>
          /\ job'[r] \in {job[r], "done"}
      BY <2>3 DEF TypeOK, ReceiveAbort, AbortExit
    <3>2. r \in aborted' => job'[r] \notin {"race", "single"}
      <4>1. CASE r \in active /\ job[r] \in {"race", "single"}
        BY <2>3, <4>1 DEF TypeOK, ReceiveAbort, AbortExit
      <4>2. CASE r \notin active
        BY <1>3, <2>3, <4>2 DEF ReceiveAbort
      <4>3. CASE job[r] \notin {"race", "single"}
        BY <2>3, <4>3 DEF ReceiveAbort
      <4> QED BY <4>1, <4>2, <4>3
    <3> QED BY <1>1, <3>1, <3>2, TakenBody
  <2>4. CASE StartFetch(r)
    <3>1. /\ UNCHANGED <<up, down, sent, lost, aborted>> /\ job[r] = "rule"
          /\ job'[r] = "done" \/ (job'[r] \in {"race", "single"} /\ r \notin aborted)
      BY <1>2, <2>4 DEF TypeOK, StartFetch, AbortExit
    <3> QED BY <1>1, <3>1, StageBody DEF Fetching
  <2>5. CASE RaceSettles(r) \/ SingleSettles(r)
    <3>1. UNCHANGED <<up, down, sent, lost, aborted>> /\ job[r] \in {"race", "single"}
      BY <2>5 DEF RaceSettles, SingleSettles
    <3>2. job'[r] \in {"done", "race", "single", "pump"}
      BY <1>2, <2>5 DEF TypeOK, RaceSettles, SingleSettles, Headers, FetchFails, AbortExit
    <3> QED BY <1>1, <1>3, <3>1, <3>2, StageBody DEF Fetching
  <2>6. CASE PumpChunk(r)
    BY <1>1, <2>6, PumpBody
  <2>7. CASE PumpEnds(r)
    BY <1>1, <2>7, EndBody
  <2>8. CASE Finish(r)
    <3>1. UNCHANGED <<up, down, sent, lost, aborted>> /\ job[r] # "none" /\ job'[r] = "done"
      BY <2>8 DEF TypeOK, Finish
    <3> QED BY <1>1, <3>1, StageBody
  <2> QED BY <2>1, <2>2, <2>3, <2>4, <2>5, <2>6, <2>7, <2>8 DEF WorkerStep
<1>5. ASSUME NEW q \in Requests \ {r} PROVE BodyAt(q)'
  BY WorkerSame, SameKeeps DEF BodyInv
<1> QED BY <1>4, <1>5 DEF BodyInv

LEMMA FaultBody ==
    ASSUME TypeOK, BodyInv, ResetMetrics \/ StopWorker PROVE BodyInv'
<1> SUFFICES ASSUME NEW r \in Requests PROVE BodyAt(r)'
  BY DEF BodyInv
<1>1. BodyAt(r)
  BY DEF BodyInv
<1>2. CASE ResetMetrics
  BY <1>1, <1>2, SameKeeps DEF ResetMetrics, pageVars, Same
<1>3. CASE StopWorker
  <2>1. UNCHANGED <<pageVars, up, down, sent, lost>> /\ r \notin aborted'
    BY <1>3 DEF StopWorker
  <2>2. job'[r] = IF job[r] \in Working THEN "killed" ELSE job[r]
    BY <1>3 DEF StopWorker
  <2>3. job'[r] # "pump" /\ job'[r] \notin Fetching /\ (job[r] = "none" <=> job'[r] = "none")
    BY <2>2 DEF Working, Fetching
  <2>4. UpAt(r)'
    BY <1>1, <2>1, <2>3 DEF BodyAt, UpAt, pageVars
  <2>5. DownAt(r)'
    BY <1>1, <2>1, <2>3 DEF BodyAt, DownAt, Fetching
  <2> QED BY <1>1, <2>1, <2>4, <2>5, ChannelKept DEF BodyAt
<1> QED BY <1>2, <1>3

LEMMA BodyInit == Init => BodyInv
<1> SUFFICES ASSUME Init, NEW r \in Requests PROVE BodyAt(r)
  BY DEF BodyInv
<1>1. Body[r] \in Nat /\ 1..0 = {} /\ 0 \in 0..0
  BY FetchAssumption
<1>2. HoldsUpTo(data[r], r, 0)
  BY <1>1 DEF Init, HoldsUpTo
<1>3. UpAt(r) /\ DownAt(r) /\ GotAt(r)
  BY <1>1 DEF Init, UpAt, DownAt, GotAt
<1>4. HandedAt(r)
  BY <1>1, <1>2 DEF Init, HandedAt
<1> QED BY <1>3, <1>4 DEF BodyAt

LEMMA BodyStep == TypeOK /\ PageInv /\ BodyInv /\ [Next]_vars => BodyInv'
<1> SUFFICES ASSUME TypeOK, PageInv, BodyInv, [Next]_vars PROVE BodyInv'
  OBVIOUS
<1>1. CASE UNCHANGED vars
  BY <1>1, SameKeeps DEF vars, pageVars, workVars, Same, BodyInv
<1> QED BY <1>1, PageBody, WorkerBody, FaultBody DEF Next

LEMMA AllAlways == Init /\ [][Next]_vars => [](TypeOK /\ PageInv /\ BodyInv)
BY TypeInit, TypeStep, PageInvInit, PageInvStep, BodyInit, BodyStep, PTL

(* A buffered result, and a stream closed without error, hold every chunk that
   arrived with its bytes, each once and in order, to the last one of the body,
   and a buffered one is not empty: for bodies of any length, any rejected sends,
   any requests whose chunks lose their bytes and any stops of the worker. *)
THEOREM BodiesAreWhole == Spec => []WholeBody
<1>1. BodyInv => WholeBody
  BY DEF BodyInv, BodyAt, HandedAt, WholeBody
<1> QED BY <1>1, AllAlways, PTL DEF Spec

(* A stream hands out a beginning of the body, in order. *)
THEOREM StreamsAreInOrder == Spec => []StreamInOrder
<1>1. BodyInv => StreamInOrder
  BY FetchAssumption DEF BodyInv, BodyAt, HandedAt, StreamInOrder
<1> QED BY <1>1, AllAlways, PTL DEF Spec

(* An abort that arrives before the headers ends the fetch. *)
THEOREM AbortsStop == Spec => AbortStopsFetch
<1>1. TypeOK /\ PageInv /\ BodyInv /\ [Next]_vars =>
          \A r \in Requests : r \in aborted' /\ job[r] \in Fetching =>
              job'[r] \in {"rule", "done", "killed"}
  <2> SUFFICES ASSUME TypeOK, PageInv, BodyInv, [Next]_vars, NEW r \in Requests,
                      r \in aborted', job[r] \in Fetching
               PROVE  job'[r] \in {"rule", "done", "killed"}
    OBVIOUS
  <2>1. job'[r] \notin {"race", "single"}
    BY BodyStep DEF BodyInv, BodyAt, UpAt
  <2>2. job'[r] # "pump" /\ job'[r] \in Fetching \cup {"done", "killed", "pump"}
    <3>1. CASE job'[r] = job[r]
      BY <3>1 DEF Fetching
    <3>2. ASSUME NEW q \in Requests, PageStep(q) PROVE job' = job
      BY <3>2 DEF PageStep, Call, CancelResponse, MetaTimeout, Deadline, Sweep, ReceiveReply,
                  ReceiveBody, workVars
    <3>3. ASSUME NEW q \in Requests, q # r, WorkerStep(q) PROVE job'[r] = job[r]
      BY <3>3, WorkerSame DEF Same
    <3>4. CASE WorkerStep(r)
      <4>1. r \in aborted => job[r] = "rule"
        BY DEF BodyInv, BodyAt, UpAt, Fetching
      <4>2. FirstLeg(r) \in {"race", "single"}
        BY DEF FirstLeg
      <4>3. CASE ReceiveRequest(r) \/ RelayRefuses(r) \/ ReceiveAbort(r) \/ StartFetch(r)
        BY <4>2, <4>3 DEF TypeOK, ReceiveRequest, RelayRefuses, ReceiveAbort, StartFetch, AbortExit,
                          workVars, Fetching
      <4>4. CASE RaceSettles(r) \/ SingleSettles(r)
        BY <4>1, <4>4 DEF RaceSettles, SingleSettles
      <4>5. CASE PumpChunk(r) \/ PumpEnds(r) \/ Finish(r)
        BY <4>5 DEF PumpChunk, PumpEnds, Finish, Fetching
      <4> QED BY <3>4, <4>3, <4>4, <4>5 DEF WorkerStep
    <3>5. CASE ResetMetrics \/ UNCHANGED vars
      BY <3>1, <3>5 DEF ResetMetrics, vars, workVars
    <3>6. CASE StopWorker
      BY <3>6 DEF StopWorker
    <3> QED BY <3>1, <3>2, <3>3, <3>4, <3>5, <3>6 DEF Next
  <2> QED BY <2>1, <2>2 DEF Fetching
<1> QED BY <1>1, AllAlways, PTL DEF Spec, AbortStopsFetch

(* Every registered controller is that of a running fetch. *)
THEOREM ControllersLive == Spec => []ControllersAreLive
<1>1. Init => ControllersAreLive
  BY DEF Init, ControllersAreLive
<1>2. TypeOK /\ ControllersAreLive /\ [Next]_vars => ControllersAreLive'
  <2> SUFFICES ASSUME TypeOK, ControllersAreLive, [Next]_vars, NEW q \in active'
               PROVE  job'[q] \in Working
    BY DEF ControllersAreLive
  <2>1. CASE UNCHANGED <<job, active>>
    BY <2>1 DEF ControllersAreLive
  <2>2. ASSUME NEW r \in Requests, PageStep(r) PROVE UNCHANGED <<job, active>>
    BY <2>2 DEF PageStep, Call, CancelResponse, MetaTimeout, Deadline, Sweep, ReceiveReply,
                ReceiveBody, workVars
  <2>3. ASSUME NEW r \in Requests, WorkerStep(r) PROVE job'[q] \in Working
    <3>1. FirstLeg(r) \in Working /\ {"rule", "single", "pump", "ending"} \subseteq Working
      BY DEF FirstLeg, Working, Fetching
    <3>2. \/ q \in active \ {r} /\ job'[q] = job[q]
          \/ q = r /\ job'[q] \in Working
          \/ q \in active /\ job'[q] = job[q]
      <4>1. CASE ReceiveRequest(r) \/ RelayRefuses(r) \/ ReceiveAbort(r) \/ StartFetch(r)
        BY SMTT(20), <3>1, <4>1 DEF TypeOK, ReceiveRequest, RelayRefuses, ReceiveAbort, StartFetch,
                          AbortExit, workVars
      <4>2. CASE RaceSettles(r) \/ SingleSettles(r)
        BY <3>1, <4>2 DEF TypeOK, RaceSettles, SingleSettles, Headers, FetchFails, AbortExit
      <4>3. CASE PumpChunk(r) \/ PumpEnds(r) \/ Finish(r)
        BY <3>1, <4>3 DEF TypeOK, PumpChunk, PumpEnds, Finish
      <4> QED BY <2>3, <4>1, <4>2, <4>3 DEF WorkerStep
    <3> QED BY <3>2 DEF ControllersAreLive
  <2>4. CASE ResetMetrics \/ StopWorker
    BY <2>4 DEF ResetMetrics, StopWorker
  <2> QED BY <2>1, <2>2, <2>3, <2>4 DEF Next, vars, workVars
<1> QED BY <1>1, <1>2, PageInvAlways, PTL DEF Spec

-----------------------------------------------------------------------------
(* The HTML stream boost. *)

(* What is written follows from where in the document the scanner decided, n. *)
DecidedAt(n) ==
    LET all == Patched(doc, n) \o Span(n + 1, arrived)
    IN  /\ buffer = Patched(doc, n) /\ hinted = Hinted(doc, n)
        /\ Continues(doc, n) => stopped /\ n = arrived
        /\ out = all \/ (stopped /\ out = all \o Patched(doc, n))

HeadInv ==
    /\ doc \in Documents /\ arrived \in 0 .. Len(doc) /\ finalized \in BOOLEAN
    /\ IF finalized THEN \E n \in 0 .. arrived : DecidedAt(n)
       ELSE out = <<>> /\ buffer = Span(1, arrived) /\ (stopped => arrived = 0)

-----------------------------------------------------------------------------
(* The least and the greatest of a set. *)

LEMMA LeastExists ==
    ASSUME NEW S \in SUBSET Nat, S # {}
    PROVE  \E m \in S : \A x \in S : m <= x
<1> DEFINE R == StrictSubsetOrdering(Nat)
           T == {1..n : n \in S}
<1>1. IsWellFoundedOn(R, FiniteSubsetsOf(Nat))
  BY FS_StrictSubsetOrderingWellFounded
<1>2. T \subseteq FiniteSubsetsOf(Nat) /\ T # {}
  <2>1. \A n \in Nat : 1..n \in SUBSET Nat /\ IsFiniteSet(1..n)
    BY FS_Interval
  <2> QED BY <2>1 DEF FiniteSubsetsOf
<1>3. PICK x \in T : \A y \in T : ~ (<<y, x>> \in R)
  <2> HIDE DEF T, R
  <2> QED BY <1>1, <1>2, WFMin
<1>4. PICK m \in S : x = 1..m
  BY DEF T
<1>5. ASSUME NEW n \in S, n < m PROVE FALSE
  <2>1. 1..n \subseteq x /\ 1..n # x
    BY <1>4, <1>5
  <2>2. <<1..n, x>> \in R
    BY <2>1, <1>4 DEF StrictSubsetOrdering
  <2> QED BY <2>2, <1>3
<1> QED BY <1>5

LEMMA FirstIs ==
    ASSUME NEW S \in SUBSET (Nat \ {0})
    PROVE  /\ First(S) = 0 <=> S = {}
           /\ S # {} => First(S) \in S /\ \A x \in S : First(S) <= x
<1>1. ASSUME S # {} PROVE Min(S) \in S /\ \A x \in S : Min(S) <= x
  <2>1. S \in SUBSET Nat
    OBVIOUS
  <2>2. \E m \in S : \A x \in S : m <= x
    BY <1>1, <2>1, LeastExists
  <2> QED BY <2>2 DEF Min
<1> QED BY <1>1 DEF First

LEMMA Downward ==
    ASSUME NEW n \in Nat, NEW S, n \in S, \A i \in 1 .. n - 1 : i + 1 \in S => i \in S
    PROVE  \A i \in 1 .. n : i \in S
<1> DEFINE T == {m \in 0 .. n - 1 : n - m \notin S}
<1> SUFFICES ASSUME NEW i \in 1 .. n, i \notin S PROVE FALSE
  OBVIOUS
<1>1. n - i \in 0 .. n - 1 /\ n - (n - i) = i
  OBVIOUS
<1>2. T \in SUBSET Nat /\ T # {}
  <2>1. n - i \in T
    BY <1>1
  <2>2. T \subseteq Nat
    OBVIOUS
  <2> HIDE DEF T
  <2> QED BY <2>1, <2>2
<1>3. PICK m \in T : \A x \in T : m <= x
  <2> HIDE DEF T
  <2> QED BY <1>2, LeastExists
<1>4. m # 0 /\ m - 1 \in 0 .. n - 1 /\ m - 1 \notin T
  BY <1>3
<1>5. n - m \in 1 .. n - 1 /\ n - (m - 1) = (n - m) + 1
  BY <1>4
<1> QED BY <1>4, <1>5

LEMMA LastIs ==
    ASSUME NEW n \in Nat, NEW S \in SUBSET (1 .. n), S # {}
    PROVE  Max(S) \in S
<1> DEFINE T == {m \in 0 .. n : n - m \in S}
<1>1. PICK x \in S : TRUE
  OBVIOUS
<1>2. n - x \in 0 .. n /\ n - (n - x) = x
  OBVIOUS
<1>3. T \in SUBSET Nat /\ T # {}
  <2>1. n - x \in T
    BY <1>2
  <2>2. T \subseteq Nat
    OBVIOUS
  <2> HIDE DEF T
  <2> QED BY <2>1, <2>2
<1>4. PICK m \in T : \A y \in T : m <= y
  <2> HIDE DEF T
  <2> QED BY <1>3, LeastExists
<1>5. ASSUME NEW y \in S PROVE n - m >= y
  <2>1. n - y \in 0 .. n /\ n - (n - y) = y
    OBVIOUS
  <2>2. n - y \in T
    BY <2>1
  <2> QED BY <1>4, <2>2
<1>6. n - m \in S /\ \A y \in S : n - m >= y
  BY <1>4, <1>5
<1> QED BY <1>6 DEF Max

-----------------------------------------------------------------------------
(* What the recursion of walkTagsFrom computes. *)

Step(d, n, w, k) ==
    LET i == First({j \in k .. n : d[j] \in Opens})
        c == CloseOf(d, n, i)
    IN  IF i = 0 THEN {}
        ELSE IF c = 0 THEN {}
        ELSE w[c + 1] \cup ({i} \ {j \in {i} : d[j] = "<!--"})

LEMMA FirstFrom ==
    ASSUME NEW d, NEW n \in Nat, NEW k \in Nat \ {0}
    PROVE  LET i == First({j \in k .. n : d[j] \in Opens})
           IN  IF i = 0 THEN \A j \in k .. n : d[j] \notin Opens
               ELSE /\ i \in k .. n /\ d[i] \in Opens
                    /\ \A j \in k .. i - 1 : d[j] \notin Opens
<1> DEFINE S == {j \in k .. n : d[j] \in Opens}
<1>1. S \in SUBSET (Nat \ {0})
  OBVIOUS
<1>2. /\ First(S) = 0 <=> S = {}
      /\ S # {} => First(S) \in S /\ \A x \in S : First(S) <= x
  <2> HIDE DEF S
  <2> QED BY <1>1, FirstIs
<1> QED BY <1>2

LEMMA CloseIs ==
    ASSUME NEW d, NEW n \in Nat, NEW i \in 1 .. n
    PROVE  /\ LET c == TagClose(d, n, i)
              IN  IF c = 0 THEN \A j \in i + 1 .. n : d[j] \notin Ends
                  ELSE /\ c \in i + 1 .. n /\ d[c] \in Ends
                       /\ \A j \in i + 1 .. c - 1 : d[j] \notin Ends
           /\ LET c == CommentClose(d, n, i)
              IN  IF c = 0 THEN \A j \in i + 1 .. n : d[j] # "-->"
                  ELSE /\ c \in i + 1 .. n /\ d[c] = "-->"
                       /\ \A j \in i + 1 .. c - 1 : d[j] # "-->"
           /\ CloseOf(d, n, i) \in {0} \cup i + 1 .. n
<1> DEFINE S == {j \in i + 1 .. n : d[j] \in Ends}
           T == {j \in i + 1 .. n : d[j] = "-->"}
<1>1. S \in SUBSET (Nat \ {0}) /\ T \in SUBSET (Nat \ {0})
  OBVIOUS
<1>2. /\ First(S) = 0 <=> S = {}
      /\ S # {} => First(S) \in S /\ \A x \in S : First(S) <= x
      /\ First(T) = 0 <=> T = {}
      /\ T # {} => First(T) \in T /\ \A x \in T : First(T) <= x
  <2> HIDE DEF S, T
  <2> QED BY <1>1, FirstIs
<1>3. /\ TagClose(d, n, i) = First(S) /\ CommentClose(d, n, i) = First(T)
      /\ CloseOf(d, n, i) \in {First(S), First(T)}
  BY DEF TagClose, CommentClose, CloseOf
<1>4. First(S) = 0 => \A j \in i + 1 .. n : d[j] \notin Ends
  BY <1>2
<1>5. First(S) # 0 => /\ First(S) \in i + 1 .. n /\ d[First(S)] \in Ends
                      /\ \A j \in i + 1 .. First(S) - 1 : d[j] \notin Ends
  BY <1>2
<1>6. First(T) = 0 => \A j \in i + 1 .. n : d[j] # "-->"
  BY <1>2
<1>7. First(T) # 0 => /\ First(T) \in i + 1 .. n /\ d[First(T)] = "-->"
                      /\ \A j \in i + 1 .. First(T) - 1 : d[j] # "-->"
  BY <1>2
<1> HIDE DEF S, T
<1> QED BY <1>3, <1>4, <1>5, <1>6, <1>7

(* A step needs the walk only from a later place. *)
LEMMA StepsAhead ==
    ASSUME NEW d, NEW n \in Nat, NEW k \in 1 .. n + 1, NEW v, NEW w,
           \A j \in k + 1 .. n + 1 : v[j] = w[j]
    PROVE  Step(d, n, v, k) = Step(d, n, w, k)
<1> DEFINE i == First({j \in k .. n : d[j] \in Opens})
           c == CloseOf(d, n, i)
<1>0. n \in Nat /\ k \in Nat \ {0}
  OBVIOUS
<1>1. IF i = 0 THEN \A j \in k .. n : d[j] \notin Opens
      ELSE /\ i \in k .. n /\ d[i] \in Opens
           /\ \A j \in k .. i - 1 : d[j] \notin Opens
  BY <1>0, FirstFrom, Zenon
<1> HIDE DEF i
<1>2. i # 0 => i \in 1 .. n /\ c \in {0} \cup i + 1 .. n
  BY <1>0, <1>1, CloseIs
<1> HIDE DEF c
<1>3. i # 0 /\ c # 0 => v[c + 1] = w[c + 1]
  BY <1>1, <1>2
<1> QED BY <1>3 DEF Step, i, c

LEMMA WalkExists ==
    ASSUME NEW d, NEW n \in Nat
    PROVE  \E w : w = [k \in 1 .. n + 1 |-> Step(d, n, w, k)]
<1> DEFINE S == {m \in 1 .. n + 2 : \E w : w = [k \in m .. n + 1 |-> Step(d, n, w, k)]}
<1>1. n + 2 \in S
  <2> DEFINE w == [k \in n + 2 .. n + 1 |-> {}]
  <2>1. w = [k \in n + 2 .. n + 1 |-> Step(d, n, w, k)]
    OBVIOUS
  <2> HIDE DEF w
  <2> QED BY <2>1
<1>2. ASSUME NEW m \in 1 .. n + 1, m + 1 \in S PROVE m \in S
  <2>1. PICK v : v = [k \in m + 1 .. n + 1 |-> Step(d, n, v, k)]
    BY <1>2
  <2> DEFINE w == [k \in m .. n + 1 |-> IF k = m THEN Step(d, n, v, m) ELSE v[k]]
  <2>2. \A j \in m + 1 .. n + 1 : v[j] = w[j]
    OBVIOUS
  <2>3. ASSUME NEW k \in m .. n + 1 PROVE w[k] = Step(d, n, w, k)
    <3>1. Step(d, n, v, k) = Step(d, n, w, k)
      <4>1. k \in 1 .. n + 1 /\ \A j \in k + 1 .. n + 1 : j \in m + 1 .. n + 1
        OBVIOUS
      <4> HIDE DEF w
      <4> QED BY <2>2, <4>1, StepsAhead
    <3>2. k # m => v[k] = Step(d, n, v, k)
      BY <2>1
    <3> QED BY <3>1, <3>2
  <2>4. w = [k \in m .. n + 1 |-> w[k]]
    OBVIOUS
  <2>5. w = [k \in m .. n + 1 |-> Step(d, n, w, k)]
    <3> HIDE DEF w
    <3> QED BY <2>3, <2>4
  <2> HIDE DEF w
  <2> QED BY <2>5
<1>3. \A m \in 1 .. n + 2 : m \in S
  <2>1. n + 2 \in Nat /\ (n + 2) - 1 = n + 1
    OBVIOUS
  <2> HIDE DEF S
  <2> QED BY <1>1, <1>2, <2>1, Downward
<1> QED BY <1>3

LEMMA WalkSteps ==
    ASSUME NEW d, NEW n \in Nat
    PROVE  \E w : /\ \A k \in 1 .. n + 1 : Walk(d, n, k) = w[k]
                  /\ \A k \in 1 .. n + 1 : w[k] = Step(d, n, w, k)
<1> DEFINE F(w) == [k \in 1 .. n + 1 |-> Step(d, n, w, k)]
           r == CHOOSE w : w = F(w)
<1>1. r = F(r)
  <2>1. \E w : w = F(w)
    BY WalkExists
  <2> HIDE DEF F
  <2> QED BY <2>1, Zenon
<1>2. \A k : Walk(d, n, k) = r[k]
  BY DEF Walk, Step
<1> HIDE DEF r
<1>3. \A k \in 1 .. n + 1 : r[k] = Step(d, n, r, k)
  BY <1>1
<1> QED BY <1>2, <1>3

-----------------------------------------------------------------------------
(* How a browser reads a document. *)

Fits(d) == d \in Seq(Lexemes) /\ TagsEnd(d) /\ HeadIsFirst(d)
Between(d, k) == ~InComment(d, k) /\ ~InTag(d, k)

LEMMA LexemesDiffer ==
    /\ Tags \subseteq Opens /\ Opens = Tags \cup {"<!--"} /\ Opens \cap Ends = {}
    /\ "<!--" \notin Tags /\ {">", "-->"} = Ends
    /\ {"<head", "</head"} \cup DOMAIN Scripts \cup DOMAIN Preloads \subseteq Tags
    /\ {"<head", "</head"} \cap (DOMAIN Scripts \cup DOMAIN Preloads) = {}
  BY DEF Tags, Opens, Ends, Scripts, Preloads

LEMMA NothingOpened ==
    ASSUME NEW d, NEW k \in Nat \ {0}, NEW i \in Nat, k <= i, Between(d, k),
           \A j \in k .. i - 1 : d[j] \notin Opens
    PROVE  Between(d, i)
<1>1. ASSUME NEW j \in 1 .. i - 1, d[j] \in Opens PROVE j \in 1 .. k - 1
  BY <1>1
<1>2. ~InComment(d, i)
  <2> SUFFICES ASSUME NEW j \in 1 .. i - 1, d[j] = "<!--",
                      \A c \in j + 1 .. i - 1 : d[c] # "-->"
               PROVE  FALSE
    BY DEF InComment
  <2>1. j \in 1 .. k - 1
    BY <1>1, LexemesDiffer
  <2>2. \A c \in j + 1 .. k - 1 : d[c] # "-->"
    OBVIOUS
  <2> QED BY <2>1, <2>2 DEF Between, InComment
<1>3. ~InTag(d, i)
  <2> SUFFICES ASSUME NEW j \in 1 .. i - 1, d[j] \in Tags, ~InComment(d, j),
                      \A c \in j + 1 .. i - 1 : d[c] # ">"
               PROVE  FALSE
    BY DEF InTag
  <2>1. j \in 1 .. k - 1
    BY <1>1, LexemesDiffer
  <2>2. \A c \in j + 1 .. k - 1 : d[c] # ">"
    OBVIOUS
  <2> QED BY <2>1, <2>2 DEF Between, InTag
<1> QED BY <1>2, <1>3 DEF Between

(* A tag is followed by what is between two tags, and so is a comment. *)
LEMMA TagEnds ==
    ASSUME NEW d, Fits(d), NEW i \in DOMAIN d, d[i] \in Tags, ~InComment(d, i)
    PROVE  /\ ~InTag(d, i)
           /\ \E c \in i + 1 .. Len(d) :
                /\ d[c] = ">" /\ Between(d, c + 1)
                /\ \A k \in i + 1 .. c - 1 : d[k] \notin Opens \cup Ends
<1>0. DOMAIN d = 1 .. Len(d) /\ Len(d) \in Nat
  BY DEF Fits
<1>1. PICK c \in DOMAIN d : /\ c > i /\ d[c] = ">"
                            /\ \A k \in i + 1 .. c - 1 : d[k] \notin Opens \cup Ends
  BY DEF Fits, TagsEnd
<1>2. ~InComment(d, c + 1)
  <2> SUFFICES ASSUME NEW j \in 1 .. c, d[j] = "<!--", \A k \in j + 1 .. c : d[k] # "-->"
               PROVE  FALSE
    BY <1>0, <1>1 DEF InComment
  <2>1. j \in 1 .. i - 1
    BY <1>0, <1>1, LexemesDiffer
  <2>2. \A k \in j + 1 .. i - 1 : d[k] # "-->"
    BY <1>0, <1>1
  <2> QED BY <2>1, <2>2 DEF InComment
<1>3. ~InTag(d, c + 1)
  BY <1>0, <1>1, LexemesDiffer DEF InTag
<1>4. ~InTag(d, i)
  <2> SUFFICES ASSUME NEW j \in 1 .. i - 1, d[j] \in Tags, ~InComment(d, j),
                      \A k \in j + 1 .. i - 1 : d[k] # ">"
               PROVE  FALSE
    BY DEF InTag
  <2>1. PICK e \in DOMAIN d : /\ e > j /\ d[e] = ">"
                              /\ \A k \in j + 1 .. e - 1 : d[k] \notin Opens \cup Ends
    BY <1>0 DEF Fits, TagsEnd
  <2>2. e > i
    BY <1>0, <2>1, LexemesDiffer
  <2> QED BY <1>0, <2>1, <2>2, LexemesDiffer
<1> QED BY <1>0, <1>1, <1>2, <1>3, <1>4 DEF Between

LEMMA CommentEnds ==
    ASSUME NEW d, NEW i \in Nat \ {0}, d[i] = "<!--", Between(d, i),
           NEW c \in Nat, c > i, d[c] = "-->", \A k \in i + 1 .. c - 1 : d[k] # "-->"
    PROVE  Between(d, c + 1)
<1>1. ~InComment(d, c + 1)
  BY LexemesDiffer DEF InComment
<1>2. \A k \in i + 1 .. c : InComment(d, k)
  BY DEF InComment
<1>3. ~InTag(d, c + 1)
  <2> SUFFICES ASSUME NEW j \in 1 .. c, d[j] \in Tags, ~InComment(d, j),
                      \A k \in j + 1 .. c : d[k] # ">"
               PROVE  FALSE
    BY DEF InTag
  <2>1. j \in 1 .. i - 1
    BY <1>2, LexemesDiffer
  <2>2. \A k \in j + 1 .. i - 1 : d[k] # ">"
    OBVIOUS
  <2> QED BY <2>1, <2>2 DEF Between, InTag
<1> QED BY <1>1, <1>3 DEF Between

(* From a place between two tags, the walk meets the tags that are in no comment and have
   arrived to their ends. *)
TagsIn(d, n, k) == {i \in k .. n : /\ d[i] \in Tags /\ ~InComment(d, i)
                                   /\ TagClose(d, n, i) # 0}

LEMMA StepIs ==
    ASSUME NEW d, Fits(d), NEW n \in 0 .. Len(d), NEW k \in 1 .. n + 1, Between(d, k), NEW w,
           \A m \in k + 1 .. n + 1 : Between(d, m) => w[m] = TagsIn(d, n, m)
    PROVE  Step(d, n, w, k) = TagsIn(d, n, k)
<1> DEFINE i == First({j \in k .. n : d[j] \in Opens})
           c == CloseOf(d, n, i)
<1>0. DOMAIN d = 1 .. Len(d) /\ Len(d) \in Nat /\ n \in Nat /\ k \in Nat \ {0}
  BY DEF Fits
<1>1. IF i = 0 THEN \A j \in k .. n : d[j] \notin Opens
      ELSE /\ i \in k .. n /\ d[i] \in Opens
           /\ \A j \in k .. i - 1 : d[j] \notin Opens
  BY <1>0, FirstFrom, Zenon
<1> HIDE DEF i
<1>2. CASE i = 0
  <2>1. TagsIn(d, n, k) = {}
    BY <1>1, <1>2, LexemesDiffer DEF TagsIn
  <2> QED BY <1>2, <2>1 DEF Step, i
<1>3. CASE i # 0
  <2>0. i \in 1 .. n /\ i \in DOMAIN d
    BY <1>0, <1>1, <1>3
  <2>1. Between(d, i)
    BY <1>1, <1>3, NothingOpened
  <2>2. /\ IF TagClose(d, n, i) = 0 THEN \A j \in i + 1 .. n : d[j] \notin Ends
           ELSE /\ TagClose(d, n, i) \in i + 1 .. n /\ d[TagClose(d, n, i)] \in Ends
                /\ \A j \in i + 1 .. TagClose(d, n, i) - 1 : d[j] \notin Ends
        /\ IF CommentClose(d, n, i) = 0 THEN \A j \in i + 1 .. n : d[j] # "-->"
           ELSE /\ CommentClose(d, n, i) \in i + 1 .. n /\ d[CommentClose(d, n, i)] = "-->"
                /\ \A j \in i + 1 .. CommentClose(d, n, i) - 1 : d[j] # "-->"
    BY <2>0, CloseIs
  <2>3. \A j \in TagsIn(d, n, k) : j \in i .. n
    BY <1>1, <1>3, LexemesDiffer DEF TagsIn
  <2>4. \A j \in i .. n : TagClose(d, n, j) # 0 => \E e \in j + 1 .. n : d[e] \in Ends
    <3> SUFFICES ASSUME NEW j \in i .. n, TagClose(d, n, j) # 0
                 PROVE  \E e \in j + 1 .. n : d[e] \in Ends
      OBVIOUS
    <3>1. j \in 1 .. n
      BY <2>0
    <3> QED BY <3>1, CloseIs
  <2>5. CASE d[i] = "<!--"
    <3>1. c = CommentClose(d, n, i)
      BY <2>5 DEF CloseOf
    <3>2. \A j \in i + 1 .. n : (c = 0 \/ j <= c) => InComment(d, j)
      BY <2>0, <2>2, <2>5, <3>1 DEF InComment
    <3>3. CASE c = 0
      <4>1. TagsIn(d, n, k) = {}
        BY <2>0, <2>3, <2>5, <3>2, <3>3, LexemesDiffer DEF TagsIn
      <4> QED BY <1>3, <3>3, <4>1 DEF Step, i
    <3>4. CASE c # 0
      <4>1. c \in i + 1 .. n /\ Between(d, c + 1)
        BY <2>0, <2>1, <2>2, <2>5, <3>1, <3>4, CommentEnds
      <4>2. w[c + 1] = TagsIn(d, n, c + 1)
        BY <1>1, <1>3, <4>1
      <4>3. TagsIn(d, n, k) = TagsIn(d, n, c + 1)
        BY <1>1, <1>3, <2>0, <2>3, <2>5, <3>2, <4>1, LexemesDiffer DEF TagsIn
      <4>4. {i} \ {j \in {i} : d[j] = "<!--"} = {}
        BY <2>5
      <4>5. Step(d, n, w, k) = w[c + 1] \cup ({i} \ {j \in {i} : d[j] = "<!--"})
        BY <1>3, <3>4 DEF Step, i
      <4> QED BY <4>2, <4>3, <4>4, <4>5
    <3> QED BY <3>3, <3>4
  <2>6. CASE d[i] \in Tags
    <3>1. c = TagClose(d, n, i) /\ d[i] # "<!--"
      BY <2>6, LexemesDiffer DEF CloseOf
    <3>2. PICK e \in i + 1 .. Len(d) :
                /\ d[e] = ">" /\ Between(d, e + 1)
                /\ \A m \in i + 1 .. e - 1 : d[m] \notin Opens \cup Ends
      BY <2>0, <2>1, <2>6, TagEnds DEF Between
    <3>3. CASE c = 0
      <4>1. TagsIn(d, n, k) = {}
        BY <2>0, <2>2, <2>3, <2>4, <3>1, <3>3 DEF TagsIn
      <4> QED BY <1>3, <3>3, <4>1 DEF Step, i
    <3>4. CASE c # 0
      <4>1. c \in i + 1 .. n /\ c = e
        BY <1>0, <2>0, <2>2, <3>1, <3>2, <3>4, LexemesDiffer
      <4>2. w[c + 1] = TagsIn(d, n, c + 1)
        BY <1>1, <1>3, <3>2, <4>1
      <4>3. \A j \in i + 1 .. c : d[j] \notin Tags
        BY <2>0, <3>2, <4>1, LexemesDiffer
      <4>4. i \in TagsIn(d, n, k)
        BY <1>1, <1>3, <2>1, <2>6, <3>1, <3>4 DEF TagsIn, Between
      <4>5. TagsIn(d, n, k) = TagsIn(d, n, c + 1) \cup {i}
        <5>1. \A j \in TagsIn(d, n, k) : j = i \/ j \in c + 1 .. n
          BY <2>0, <2>3, <4>1, <4>3 DEF TagsIn
        <5> QED BY <1>1, <1>3, <2>0, <4>1, <4>4, <5>1 DEF TagsIn
      <4>6. {i} \ {j \in {i} : d[j] = "<!--"} = {i}
        BY <3>1
      <4>7. Step(d, n, w, k) = w[c + 1] \cup ({i} \ {j \in {i} : d[j] = "<!--"})
        BY <1>3, <3>4 DEF Step, i
      <4> QED BY <4>2, <4>5, <4>6, <4>7
    <3> QED BY <3>3, <3>4
  <2> QED BY <1>1, <1>3, <2>5, <2>6, LexemesDiffer
<1> QED BY <1>2, <1>3

LEMMA WalkIs ==
    ASSUME NEW d, Fits(d), NEW n \in 0 .. Len(d), NEW k \in 1 .. n + 1, Between(d, k)
    PROVE  Walk(d, n, k) = TagsIn(d, n, k)
<1>0. n \in Nat
  BY DEF Fits
<1>1. PICK w : /\ \A m \in 1 .. n + 1 : Walk(d, n, m) = w[m]
               /\ \A m \in 1 .. n + 1 : w[m] = Step(d, n, w, m)
  BY <1>0, WalkSteps
<1> DEFINE S == {j \in 1 .. n + 2 : \A m \in j .. n + 1 : Between(d, m) => w[m] = TagsIn(d, n, m)}
<1>2. n + 2 \in S
  BY <1>0
<1>3. ASSUME NEW j \in 1 .. n + 1, j + 1 \in S PROVE j \in S
  <2>1. Between(d, j) => w[j] = TagsIn(d, n, j)
    BY <1>1, <1>3, StepIs
  <2>2. \A m \in j .. n + 1 : m = j \/ m \in j + 1 .. n + 1
    BY <1>0
  <2> QED BY <1>0, <1>3, <2>1, <2>2
<1>4. k \in S
  <2>1. n + 2 \in Nat /\ (n + 2) - 1 = n + 1 /\ k \in 1 .. n + 2
    BY <1>0
  <2> HIDE DEF S
  <2> QED BY <1>2, <1>3, <2>1, Downward
<1> QED BY <1>0, <1>1, <1>4

-----------------------------------------------------------------------------
(* Where the head begins and ends, for a browser and for the scanner. *)

LEMMA LeastIs ==
    ASSUME NEW S \in SUBSET Nat, NEW m \in S, \A x \in S : m <= x
    PROVE  Min(S) = m
<1>1. Min(S) \in S /\ \A x \in S : Min(S) <= x
  BY DEF Min
<1>2. Min(S) \in Nat /\ m \in Nat /\ Min(S) <= m /\ m <= Min(S)
  BY <1>1
<1> QED BY <1>2

LEMMA EndIs ==
    ASSUME NEW d, Fits(d), NEW i \in DOMAIN d, d[i] \in Tags, ~InComment(d, i)
    PROVE  LET c == EndOfTag(d, i)
           IN  /\ c \in i + 1 .. Len(d) /\ Between(d, c + 1) /\ d[c] = ">"
               /\ \A k \in i + 1 .. c : d[k] \notin Opens
               /\ \A n \in i .. Len(d) : TagClose(d, n, i) = IF c <= n THEN c ELSE 0
<1>0. DOMAIN d = 1 .. Len(d) /\ Len(d) \in Nat
  BY DEF Fits
<1>1. PICK c \in i + 1 .. Len(d) :
          /\ d[c] = ">" /\ Between(d, c + 1)
          /\ \A k \in i + 1 .. c - 1 : d[k] \notin Opens \cup Ends
  BY TagEnds
<1> DEFINE S == {j \in DOMAIN d : j > i /\ d[j] = ">"}
<1>2. S \in SUBSET Nat /\ c \in S /\ \A x \in S : c <= x
  BY <1>0, <1>1, LexemesDiffer
<1>3. Min(S) = c
  <2> HIDE DEF S
  <2> QED BY <1>2, LeastIs
<1>4. EndOfTag(d, i) = c
  BY <1>3 DEF EndOfTag
<1>5. ASSUME NEW n \in i .. Len(d) PROVE TagClose(d, n, i) = IF c <= n THEN c ELSE 0
  <2>1. i \in 1 .. n /\ n \in Nat
    BY <1>0
  <2>2. LET e == TagClose(d, n, i)
        IN  IF e = 0 THEN \A j \in i + 1 .. n : d[j] \notin Ends
            ELSE /\ e \in i + 1 .. n /\ d[e] \in Ends
                 /\ \A j \in i + 1 .. e - 1 : d[j] \notin Ends
    BY <2>1, CloseIs
  <2> QED BY <1>0, <1>1, <2>1, <2>2, LexemesDiffer
<1>6. \A k \in i + 1 .. c : d[k] \notin Opens
  BY <1>0, <1>1, LexemesDiffer
<1> QED BY <1>1, <1>4, <1>5, <1>6

(* The first "<head" of a document is a head. *)
LEMMA HeadOpens ==
    ASSUME NEW d, Fits(d), NEW n \in 0 .. Len(d)
    PROVE  IF HeadOpen(d, n) = 0 THEN \A i \in 1 .. n : d[i] # "<head"
           ELSE /\ HeadOpen(d, n) \in 1 .. n /\ HeadOpen(d, n) \in Real(d, "<head")
                /\ Opening(d) = HeadOpen(d, n)
<1>0. DOMAIN d = 1 .. Len(d) /\ Len(d) \in Nat
  BY DEF Fits
<1> DEFINE S == {i \in 1 .. n : d[i] = "<head"}
           h == First(S)
<1>1. S \in SUBSET (Nat \ {0})
  OBVIOUS
<1>2. /\ First(S) = 0 <=> S = {}
      /\ S # {} => First(S) \in S /\ \A x \in S : First(S) <= x
  <2> HIDE DEF S
  <2> QED BY <1>1, FirstIs
<1>3. HeadOpen(d, n) = h
  BY DEF HeadOpen
<1>4. CASE h = 0
  BY <1>2, <1>3, <1>4
<1>5. CASE h # 0
  <2>0. h \in S /\ \A x \in S : h <= x
    <3> HIDE DEF S
    <3> QED BY <1>2, <1>5
  <2>1. h \in 1 .. n /\ d[h] = "<head" /\ \A x \in 1 .. h - 1 : d[x] # "<head"
    <3> HIDE DEF h
    <3> QED BY <1>0, <2>0
  <2> HIDE DEF h, S
  <2>2. h \in DOMAIN d
    BY <1>0, <2>1
  <2>3. PICK g \in 1 .. h : d[g] = "<head" /\ ~InComment(d, g)
    BY <2>1, <2>2 DEF Fits, HeadIsFirst
  <2>4. g = h
    BY <2>1, <2>3
  <2>5. h \in Real(d, "<head")
    BY <2>1, <2>2, <2>3, <2>4, TagEnds, LexemesDiffer DEF Real
  <2>6. Real(d, "<head") \in SUBSET Nat /\ \A x \in Real(d, "<head") : h <= x
    BY <1>0, <2>1 DEF Real
  <2>7. Min(Real(d, "<head")) = h
    BY <2>5, <2>6, LeastIs
  <2> QED BY <1>3, <1>5, <2>1, <2>5, <2>7 DEF Opening
<1> QED BY <1>4, <1>5

LEMMA ClosingIs ==
    ASSUME NEW d, Fits(d), Real(d, "</head") # {}
    PROVE  /\ Closing(d) \in Real(d, "</head")
           /\ \A x \in Real(d, "</head") : Closing(d) <= x
<1>0. DOMAIN d = 1 .. Len(d) /\ Len(d) \in Nat
  BY DEF Fits
<1>1. Real(d, "</head") \in SUBSET Nat
  BY <1>0 DEF Real
<1>2. \E m \in Real(d, "</head") : \A x \in Real(d, "</head") : m <= x
  BY <1>1, LeastExists
<1> QED BY <1>2 DEF Closing, Min

(* The head is closed after it has begun. *)
LEMMA ClosedLater ==
    ASSUME NEW d, Fits(d), NEW q \in Real(d, "</head")
    PROVE  /\ q \in DOMAIN d /\ d[q] = "</head" /\ Between(d, q)
           /\ HeadOpen(d, q) # 0 /\ EndOfTag(d, Opening(d)) \in 1 .. q - 1
<1>0. DOMAIN d = 1 .. Len(d) /\ Len(d) \in Nat
  BY DEF Fits
<1>1. q \in DOMAIN d /\ d[q] = "</head" /\ Between(d, q)
  BY DEF Real, Between
<1>2. PICK g \in 1 .. q : d[g] = "<head"
  BY <1>1 DEF Fits, HeadIsFirst, Between
<1>3. HeadOpen(d, q) # 0 /\ Opening(d) \in 1 .. q /\ Opening(d) \in Real(d, "<head")
  BY <1>0, <1>1, <1>2, HeadOpens
<1>4. Opening(d) \in DOMAIN d /\ d[Opening(d)] = "<head" /\ ~InComment(d, Opening(d))
  BY <1>3 DEF Real
<1>5. /\ EndOfTag(d, Opening(d)) \in Opening(d) + 1 .. Len(d)
      /\ \A k \in Opening(d) + 1 .. EndOfTag(d, Opening(d)) : d[k] \notin Opens
  BY <1>4, EndIs, LexemesDiffer
<1>6. Opening(d) # q
  BY <1>1, <1>4
<1> QED BY <1>0, <1>1, <1>3, <1>5, <1>6, LexemesDiffer

(* The scanner finds the end of the tag of the head as soon as it has arrived ... *)
LEMMA HeadEnds ==
    ASSUME NEW d, Fits(d), NEW n \in 0 .. Len(d)
    PROVE  LET e == EndOfTag(d, Opening(d))
           IN  /\ HeadOpen(d, n) # 0 =>
                    /\ e \in 2 .. Len(d) /\ Between(d, e + 1) /\ e > Opening(d)
                    /\ d[e] \in Ends
                    /\ HeadOpenEnd(d, n) = IF e <= n THEN e ELSE 0
               /\ HeadOpen(d, n) = 0 => HeadOpenEnd(d, n) = 0
<1>0. DOMAIN d = 1 .. Len(d) /\ Len(d) \in Nat
  BY DEF Fits
<1>1. CASE HeadOpen(d, n) = 0
  BY <1>1 DEF HeadOpenEnd
<1>2. CASE HeadOpen(d, n) # 0
  <2> DEFINE h == Opening(d)
  <2>1. h = HeadOpen(d, n) /\ h \in 1 .. n /\ h \in Real(d, "<head")
    BY <1>2, HeadOpens
  <2>2. h \in DOMAIN d /\ d[h] \in Tags /\ ~InComment(d, h)
    BY <2>1, LexemesDiffer DEF Real
  <2>3. n \in h .. Len(d)
    BY <1>0, <2>1
  <2>4. LET e == EndOfTag(d, h)
        IN  /\ e \in h + 1 .. Len(d) /\ Between(d, e + 1) /\ d[e] = ">"
            /\ TagClose(d, n, h) = IF e <= n THEN e ELSE 0
    <3> HIDE DEF h
    <3> QED BY <2>2, <2>3, EndIs
  <2>5. HeadOpenEnd(d, n) = TagClose(d, n, h)
    BY <1>2, <2>1 DEF HeadOpenEnd
  <2> HIDE DEF h
  <2> QED BY <1>0, <1>2, <2>1, <2>4, <2>5, LexemesDiffer DEF h
<1> QED BY <1>1, <1>2

(* ... and the end of the head as soon as its tag has, and no other one. *)
LEMMA HeadCloses ==
    ASSUME NEW d, Fits(d), NEW n \in 0 .. Len(d)
    PROVE  IF HeadClose(d, n) = 0
           THEN Real(d, "</head") # {} => EndOfTag(d, Closing(d)) > n
           ELSE /\ HeadOpenEnd(d, n) # 0 /\ HasHead(d)
                /\ HeadClose(d, n) = Closing(d) /\ EndOfTag(d, Closing(d)) <= n
<1>0. DOMAIN d = 1 .. Len(d) /\ Len(d) \in Nat /\ n \in Nat
  BY DEF Fits
<1> DEFINE e == HeadOpenEnd(d, n)
           q == Closing(d)
           S == {i \in Walk(d, n, e + 1) : d[i] = "</head"}
           T == {i \in e + 1 .. n : d[i] = "</head" /\ ~InComment(d, i) /\ TagClose(d, n, i) # 0}
<1>1. e # 0 => /\ e \in 1 .. n /\ e = EndOfTag(d, Opening(d)) /\ Between(d, e + 1)
               /\ Real(d, "<head") # {}
  BY <1>0, HeadEnds, HeadOpens
<1>2. \A i \in DOMAIN d : d[i] = "</head" /\ ~InComment(d, i) =>
          /\ i \in Real(d, "</head") /\ EndOfTag(d, i) \in i + 1 .. Len(d)
          /\ i <= n => (TagClose(d, n, i) # 0 <=> EndOfTag(d, i) <= n)
  <2> SUFFICES ASSUME NEW i \in DOMAIN d, d[i] = "</head", ~InComment(d, i)
               PROVE  /\ i \in Real(d, "</head") /\ EndOfTag(d, i) \in i + 1 .. Len(d)
                      /\ i <= n => (TagClose(d, n, i) # 0 <=> EndOfTag(d, i) <= n)
    OBVIOUS
  <2>1. d[i] \in Tags
    BY LexemesDiffer
  <2>2. ~InTag(d, i)
    BY <2>1, TagEnds
  <2>3. /\ EndOfTag(d, i) \in i + 1 .. Len(d)
        /\ \A m \in i .. Len(d) : TagClose(d, m, i) = IF EndOfTag(d, i) <= m THEN EndOfTag(d, i) ELSE 0
    BY <2>1, EndIs
  <2> QED BY <1>0, <2>2, <2>3 DEF Real
<1>3. Real(d, "</head") # {} =>
          /\ q \in Real(d, "</head") /\ \A x \in Real(d, "</head") : q <= x
          /\ q \in DOMAIN d /\ d[q] = "</head" /\ ~InComment(d, q)
          /\ HeadOpen(d, q) # 0 /\ EndOfTag(d, Opening(d)) \in 1 .. q - 1
  BY ClosingIs, ClosedLater DEF Between
<1>7. Real(d, "</head") # {} =>
          /\ q \in 1 .. Len(d) /\ EndOfTag(d, q) \in q + 1 .. Len(d)
          /\ q <= n => (TagClose(d, n, q) # 0 <=> EndOfTag(d, q) <= n)
  <2> HIDE DEF q
  <2> QED BY <1>0, <1>2, <1>3
<1>4. \A x \in Real(d, "</head") : x \in DOMAIN d /\ d[x] = "</head" /\ ~InComment(d, x)
  BY DEF Real
<1> HIDE DEF e, q
<1>5. CASE e = 0
  <2>1. HeadClose(d, n) = 0
    BY <1>5 DEF HeadClose, e
  <2>2. ASSUME Real(d, "</head") # {}, EndOfTag(d, q) <= n PROVE FALSE
    <3>1. q < n /\ q \in 0 .. Len(d)
      BY <1>0, <1>7, <2>2
    <3>2. HeadOpen(d, n) # 0
      BY <1>0, <1>3, <2>2, <3>1, HeadOpens DEF Real
    <3>3. EndOfTag(d, Opening(d)) <= n
      BY <1>0, <1>3, <2>2, <3>1
    <3> QED BY <1>5, <3>2, <3>3, HeadEnds DEF e
  <2>3. Real(d, "</head") # {} => EndOfTag(d, q) > n
    BY <1>0, <1>7, <2>2
  <2> QED BY <2>1, <2>3 DEF q
<1>6. CASE e # 0
  <2>1. S = T
    <3>1. Walk(d, n, e + 1) = TagsIn(d, n, e + 1)
      BY <1>0, <1>1, <1>6, WalkIs
    <3> QED BY <3>1, LexemesDiffer DEF TagsIn
  <2>2. S \in SUBSET (Nat \ {0})
    BY <1>0, <1>1, <1>6, <2>1
  <2>3. HeadClose(d, n) = First(S)
    BY <1>6 DEF HeadClose, e
  <2>4. /\ First(S) = 0 <=> S = {}
        /\ S # {} => First(S) \in S /\ \A x \in S : First(S) <= x
    <3> HIDE DEF S
    <3> QED BY <2>2, FirstIs
  <2>5. \A x \in T : x \in Real(d, "</head") /\ EndOfTag(d, x) <= n /\ x \in 1 .. n
    BY <1>0, <1>1, <1>2, <1>6
  <2>6. Real(d, "</head") # {} /\ EndOfTag(d, q) <= n => q \in T
    BY <1>0, <1>1, <1>3, <1>6, <1>7
  <2> HIDE DEF S, T
  <2>7. CASE S = {}
    BY <1>0, <1>7, <2>1, <2>3, <2>4, <2>6, <2>7 DEF q
  <2>8. CASE S # {}
    <3>1. First(S) \in Real(d, "</head") /\ EndOfTag(d, First(S)) <= n
      BY <2>1, <2>4, <2>5, <2>8
    <3>2. q <= First(S)
      BY <1>3, <3>1
    <3>3. q \in T
      <4>1. q # First(S) => EndOfTag(d, q) <= n
        <5> SUFFICES ASSUME q # First(S) PROVE EndOfTag(d, q) <= n
          OBVIOUS
        <5>1. /\ q \in DOMAIN d /\ d[q] \in Tags /\ ~InComment(d, q)
              /\ First(S) \in DOMAIN d /\ d[First(S)] \in Opens
          BY <1>3, <1>4, <3>1, LexemesDiffer
        <5>2. /\ EndOfTag(d, q) \in q + 1 .. Len(d)
              /\ \A k \in q + 1 .. EndOfTag(d, q) : d[k] \notin Opens
          BY <5>1, EndIs
        <5>3. First(S) \in 1 .. n
          BY <2>1, <2>4, <2>5, <2>8
        <5> QED BY <1>0, <3>2, <5>1, <5>2, <5>3
      <4> QED BY <2>6, <3>1, <4>1
    <3>4. First(S) = q
      <4>1. First(S) <= q
        BY <2>1, <2>4, <2>8, <3>3
      <4>2. First(S) \in Nat /\ q \in Nat
        BY <1>0, <1>4, <1>7, <3>1
      <4> QED BY <3>2, <4>1, <4>2
    <3> QED BY <1>1, <1>6, <2>2, <2>3, <2>4, <2>8, <3>1, <3>4 DEF q, HasHead, e
  <2> QED BY <2>7, <2>8
<1> QED BY <1>5, <1>6

-----------------------------------------------------------------------------
(* What the scanner hints and where it puts the hints. *)

LEMMA HintsAreTheHeads ==
    ASSUME NEW d, Fits(d), NEW n \in 0 .. Len(d), HeadClose(d, n) # 0
    PROVE  Hinted(d, n) = Named(d, InHead(d))
<1>0. DOMAIN d = 1 .. Len(d) /\ Len(d) \in Nat /\ n \in Nat
  BY DEF Fits
<1> DEFINE e == EndOfTag(d, Opening(d))
           q == Closing(d)
           R == {i \in TagsIn(d, n, e + 1) : i < q}
<1>1. HasHead(d) /\ HeadClose(d, n) = q /\ EndOfTag(d, q) <= n /\ HeadOpenEnd(d, n) # 0
  BY HeadCloses
<1>2. HeadOpen(d, n) # 0 /\ e \in 1 .. n /\ HeadOpenEnd(d, n) = e /\ Between(d, e + 1)
  BY <1>0, <1>1, HeadEnds
<1>3. q \in Real(d, "</head") /\ q \in DOMAIN d /\ d[q] = "</head" /\ Between(d, q)
  BY <1>1, ClosingIs, ClosedLater DEF HasHead
<1>4. EndOfTag(d, q) \in q + 1 .. Len(d)
  BY <1>3, EndIs, LexemesDiffer DEF Between
<1> HIDE DEF e, q
<1>5. Hinted(d, n) = Named(d, R)
  <2>1. ParseLimit(d, n) = n
    BY <1>0, <1>1, <1>3 DEF ParseLimit
  <2>2. Walk(d, n, e + 1) = TagsIn(d, n, e + 1)
    BY <1>0, <1>2, WalkIs
  <2>3. HeadClose(d, n) # 0
    OBVIOUS
  <2> QED BY <1>1, <1>2, <2>1, <2>2, <2>3 DEF Hinted, Candidates
<1>6. ASSUME NEW i, d[i] \in DOMAIN Scripts \cup DOMAIN Preloads
      PROVE  i \in R <=> i \in InHead(d)
  <2>0. d[i] \in Tags /\ d[i] # "</head"
    BY <1>6, LexemesDiffer
  <2>1. ASSUME i \in R PROVE i \in InHead(d)
    <3>1. i \in DOMAIN d /\ i > e /\ i <= q /\ ~InComment(d, i)
      BY <1>0, <1>2, <1>3, <2>1 DEF TagsIn
    <3>2. ~InTag(d, i)
      BY <2>0, <3>1, TagEnds
    <3> QED BY <3>1, <3>2 DEF InHead, e, q
  <2>2. ASSUME i \in InHead(d) PROVE i \in R
    <3>1. i \in DOMAIN d /\ i > e /\ i < q /\ ~InComment(d, i)
      BY <1>0, <1>3, <2>0, <2>2 DEF InHead, e, q
    <3>2. /\ EndOfTag(d, i) \in i + 1 .. Len(d)
          /\ \A k \in i + 1 .. EndOfTag(d, i) : d[k] \notin Opens
          /\ \A m \in i .. Len(d) : TagClose(d, m, i) = IF EndOfTag(d, i) <= m THEN EndOfTag(d, i) ELSE 0
      BY <2>0, <3>1, EndIs
    <3>3. EndOfTag(d, i) < q
      BY <1>0, <1>3, <3>1, <3>2, LexemesDiffer
    <3>4. TagClose(d, n, i) # 0 /\ i \in e + 1 .. n
      BY <1>0, <1>1, <1>2, <1>3, <1>4, <3>1, <3>2, <3>3
    <3> QED BY <2>0, <3>1, <3>4 DEF TagsIn
  <2> QED BY <2>1, <2>2
<1> HIDE DEF R
<1>7. Named(d, R) = Named(d, InHead(d))
  <2>1. /\ {j \in R : d[j] \in DOMAIN Scripts} = {j \in InHead(d) : d[j] \in DOMAIN Scripts}
        /\ {j \in R : d[j] \in DOMAIN Preloads} = {j \in InHead(d) : d[j] \in DOMAIN Preloads}
    BY <1>6
  <2> QED BY <2>1, Zenon DEF Named
<1> QED BY <1>5, <1>7

LEMMA PlaceIs ==
    ASSUME NEW d, Fits(d), NEW n \in 0 .. Len(d), Hinted(d, n) # {}, Place(d, n) # 0
    PROVE  Place(d, n) \in 1 .. n - 1 /\ (HasHead(d) => Place(d, n) + 1 \in InHead(d))
<1>0. DOMAIN d = 1 .. Len(d) /\ Len(d) \in Nat /\ n \in Nat
  BY DEF Fits
<1> DEFINE e == EndOfTag(d, Opening(d))
           q == Closing(d)
           limit == ParseLimit(d, n)
<1>1. CASE HeadClose(d, n) # 0
  <2>1. HasHead(d) /\ HeadClose(d, n) = q /\ EndOfTag(d, q) <= n /\ Place(d, n) = q - 1
    BY <1>1, HeadCloses DEF Place
  <2>2. /\ q \in Real(d, "</head") /\ q \in DOMAIN d /\ d[q] = "</head" /\ Between(d, q)
        /\ e \in 1 .. q - 1
    BY <2>1, ClosingIs, ClosedLater DEF HasHead
  <2>3. EndOfTag(d, q) \in q + 1 .. Len(d)
    BY <2>2, EndIs, LexemesDiffer DEF Between
  <2>4. q \in InHead(d)
    <3>1. q > e /\ q <= q
      BY <1>0, <2>2
    <3> QED BY <2>2, <3>1 DEF InHead, Between
  <2>5. Place(d, n) \in 1 .. n - 1 /\ Place(d, n) + 1 = q
    <3> HIDE DEF q
    <3> QED BY <1>0, <2>1, <2>2, <2>3
  <2> QED BY <2>4, <2>5
<1>2. CASE HeadClose(d, n) = 0
  <2>1. HeadOpen(d, n) # 0 /\ Place(d, n) = HeadOpenEnd(d, n) /\ HeadOpenEnd(d, n) # 0
    BY <1>2 DEF Place, Hinted
  <2>2. /\ e \in 2 .. n /\ Between(d, e + 1) /\ Place(d, n) = e /\ Opening(d) < e /\ d[e] \in Ends
        /\ HeadOpen(d, n) = Opening(d) /\ Opening(d) \in 1 .. n /\ Opening(d) \in Real(d, "<head")
    BY <1>0, <2>1, HeadEnds, HeadOpens
  <2>3. limit \in e .. n
    <3> DEFINE O == {i \in 1 .. n : i + HoldBack > n /\ d[i] \in Opens}
    <3>1. CASE Incomplete(d, n) = 0
      BY <1>0, <2>2, <3>1 DEF ParseLimit
    <3>2. CASE Incomplete(d, n) # 0
      <4>1. O # {} /\ Incomplete(d, n) = Max(O) /\ TagClose(d, n, Max(O)) = 0
        BY <3>2 DEF Incomplete
      <4>2. Max(O) \in O
        <5>1. O \in SUBSET (1 .. n)
          OBVIOUS
        <5> HIDE DEF O
        <5> QED BY <1>0, <4>1, <5>1, LastIs
      <4>3. Max(O) \in 1 .. n /\ d[Max(O)] \in Opens
        BY <4>2
      <4> HIDE DEF O
      <4>4. \A j \in Max(O) + 1 .. n : d[j] \notin Ends
        BY <1>0, <4>1, <4>3, CloseIs
      <4>5. Max(O) # e /\ ~(e \in Max(O) + 1 .. n)
        BY <2>2, <4>3, <4>4, LexemesDiffer
      <4>6. limit = Max(O) - 1
        BY <1>2, <3>2, <4>1 DEF ParseLimit
      <4> HIDE DEF e, limit
      <4> QED BY <1>0, <2>2, <4>3, <4>5, <4>6
    <3> QED BY <3>1, <3>2
  <2>4. limit \in 0 .. Len(d) /\ e \in 1 .. limit /\ Opening(d) \in 1 .. limit
    <3>1. Opening(d) < e /\ Opening(d) \in Nat /\ e \in Nat
      BY <2>2
    <3> HIDE DEF e, limit
    <3> QED BY <1>0, <2>2, <2>3, <3>1
  <2>5. HeadOpen(d, limit) # 0
    <3>1. d[Opening(d)] = "<head"
      BY <2>2 DEF Real
    <3> HIDE DEF limit
    <3> QED BY <2>4, <3>1, HeadOpens
  <2>6. HeadOpenEnd(d, limit) = e
    <3>1. limit \in 0 .. Len(d) /\ e <= limit
      BY <2>4
    <3> HIDE DEF limit
    <3> QED BY <2>5, <3>1, HeadEnds
  <2>7. Walk(d, limit, e + 1) = TagsIn(d, limit, e + 1)
    <3>1. e + 1 \in 1 .. limit + 1
      <4> HIDE DEF e, limit
      <4> QED BY <2>4
    <3> HIDE DEF limit, e
    <3> QED BY <2>2, <2>4, <3>1, WalkIs
  <2>8. TagsIn(d, limit, e + 1) # {}
    <3>1. Candidates(d, n) = Named(d, {i \in Walk(d, limit, HeadOpenEnd(d, limit) + 1) : TRUE})
      BY <1>2 DEF Candidates
    <3>2. Candidates(d, n) # {}
      BY <2>1 DEF Hinted
    <3>3. Named(d, {}) = {}
      BY DEF Named
    <3> HIDE DEF limit, e
    <3>4. Walk(d, limit, e + 1) # {}
      BY <2>6, <3>1, <3>2, <3>3
    <3> QED BY <2>7, <3>4
  <2>9. e + 1 <= n
    <3> HIDE DEF limit, e
    <3> QED BY <1>0, <2>2, <2>3, <2>8 DEF TagsIn
  <2>10. ASSUME HasHead(d) PROVE e + 1 \in InHead(d)
    <3>1. /\ q \in DOMAIN d /\ e \in 1 .. q - 1
      BY <2>10, ClosingIs, ClosedLater DEF HasHead
    <3>2. e + 1 \in DOMAIN d /\ e + 1 > e /\ e + 1 <= q
      <4> HIDE DEF e, q
      <4> QED BY <1>0, <2>2, <2>9, <3>1
    <3> QED BY <2>2, <3>2 DEF InHead, Between
  <2>11. Place(d, n) \in 1 .. n - 1
    <3> HIDE DEF e
    <3> QED BY <1>0, <2>2, <2>9
  <2> QED BY <2>2, <2>10, <2>11
<1> QED BY <1>1, <1>2

-----------------------------------------------------------------------------
(* What is written, as sequences. *)

LEMMA SpanIs ==
    ASSUME NEW i \in Nat \ {0}, NEW j \in Nat, i <= j + 1
    PROVE  /\ Span(i, j) \in Seq(Nat) /\ Len(Span(i, j)) = (j + 1) - i
           /\ \A k \in 1 .. (j + 1) - i : Span(i, j)[k] = i + k - 1
<1>1. (j + 1) - i \in Nat /\ \A k \in 1 .. (j + 1) - i : i + k - 1 \in Nat
  OBVIOUS
<1> QED BY <1>1 DEF Span

LEMMA SpansJoin ==
    ASSUME NEW i \in Nat \ {0}, NEW m \in Nat, NEW j \in Nat, i <= m + 1, m <= j
    PROVE  Span(i, m) \o Span(m + 1, j) = Span(i, j)
<1>1. /\ Span(i, m) \in Seq(Nat) /\ Len(Span(i, m)) = (m + 1) - i
      /\ \A k \in 1 .. (m + 1) - i : Span(i, m)[k] = i + k - 1
  BY SpanIs
<1>2. /\ Span(m + 1, j) \in Seq(Nat) /\ Len(Span(m + 1, j)) = j - m
      /\ \A k \in 1 .. j - m : Span(m + 1, j)[k] = m + k
  <2>1. /\ m + 1 \in Nat \ {0} /\ m + 1 <= j + 1 /\ (j + 1) - (m + 1) = j - m
        /\ \A k \in 1 .. j - m : (m + 1) + k - 1 = m + k
    OBVIOUS
  <2>2. /\ Span(m + 1, j) \in Seq(Nat) /\ Len(Span(m + 1, j)) = (j + 1) - (m + 1)
        /\ \A k \in 1 .. (j + 1) - (m + 1) : Span(m + 1, j)[k] = (m + 1) + k - 1
    BY <2>1, SpanIs
  <2> QED BY <2>1, <2>2
<1>0. i <= j + 1
  OBVIOUS
<1>3. /\ Span(i, j) \in Seq(Nat) /\ Len(Span(i, j)) = (j + 1) - i
      /\ \A k \in 1 .. (j + 1) - i : Span(i, j)[k] = i + k - 1
  BY <1>0, SpanIs
<1> DEFINE t == Span(i, m) \o Span(m + 1, j)
<1>4. t \in Seq(Nat) /\ Len(t) = (j + 1) - i
  <2> DEFINE a == Span(i, m)
             b == Span(m + 1, j)
  <2>1. a \in Seq(Nat) /\ b \in Seq(Nat) /\ Len(a) = (m + 1) - i /\ Len(b) = j - m
    BY <1>1, <1>2
  <2> HIDE DEF a, b
  <2>2. a \o b \in Seq(Nat) /\ Len(a \o b) = Len(a) + Len(b)
    BY <2>1
  <2>3. Len(a) + Len(b) = (j + 1) - i
    BY <2>1
  <2> QED BY <2>2, <2>3 DEF a, b
<1>5. \A k \in 1 .. (j + 1) - i : t[k] = i + k - 1
  <2> SUFFICES ASSUME NEW k \in 1 .. (j + 1) - i PROVE t[k] = i + k - 1
    OBVIOUS
  <2>0. k \in Nat /\ (k <= (m + 1) - i \/ k > (m + 1) - i)
    OBVIOUS
  <2>1. CASE k <= (m + 1) - i
    BY <1>1, <1>2, <2>1
  <2>2. CASE k > (m + 1) - i
    <3>1. /\ k - ((m + 1) - i) \in 1 .. j - m
          /\ m + (k - ((m + 1) - i)) = i + k - 1
      BY <2>2
    <3>2. t[k] = Span(m + 1, j)[k - ((m + 1) - i)]
      BY <1>1, <1>2, <2>2, <3>1
    <3>3. Span(m + 1, j)[k - ((m + 1) - i)] = m + (k - ((m + 1) - i))
      BY <1>2, <3>1
    <3> HIDE DEF t
    <3> QED BY <3>1, <3>2, <3>3
  <2> HIDE DEF t
  <2> QED BY <2>0, <2>1, <2>2
<1> HIDE DEF t
<1>6. t = Span(i, j)
  BY <1>3, <1>4, <1>5, SeqEqual
<1> QED BY <1>6 DEF t

(* Each hint is followed by something of the head. *)
Placed(d, s) ==
    s \in Seq(Nat) /\ \A m \in 1 .. Len(s) : s[m] = 0 => m < Len(s) /\ s[m + 1] \in InHead(d)

LEMMA PlacedTogether ==
    ASSUME NEW d, NEW s, NEW t, Placed(d, s), Placed(d, t)
    PROVE  Placed(d, s \o t)
<1>1. s \o t \in Seq(Nat) /\ Len(s \o t) = Len(s) + Len(t)
  BY DEF Placed
<1>2. ASSUME NEW m \in 1 .. Len(s \o t), (s \o t)[m] = 0
      PROVE  m < Len(s \o t) /\ (s \o t)[m + 1] \in InHead(d)
  <2>1. CASE m <= Len(s)
    <3>1. m \in 1 .. Len(s) /\ s[m] = 0
      BY <1>1, <1>2, <2>1 DEF Placed
    <3>2. m < Len(s) /\ s[m + 1] \in InHead(d)
      BY <3>1 DEF Placed
    <3> QED BY <1>1, <3>1, <3>2 DEF Placed
  <2>2. CASE m > Len(s)
    <3>1. m - Len(s) \in 1 .. Len(t) /\ t[m - Len(s)] = 0
      BY <1>1, <1>2, <2>2 DEF Placed
    <3>2. m - Len(s) < Len(t) /\ t[(m - Len(s)) + 1] \in InHead(d)
      BY <3>1 DEF Placed
    <3> QED BY <1>1, <2>2, <3>1, <3>2 DEF Placed
  <2> QED BY <1>1, <2>1, <2>2 DEF Placed
<1> QED BY <1>1, <1>2 DEF Placed

LEMMA SpanPlaced ==
    ASSUME NEW d, NEW i \in Nat \ {0}, NEW j \in Nat, i <= j + 1
    PROVE  Placed(d, Span(i, j))
<1>1. /\ Span(i, j) \in Seq(Nat) /\ Len(Span(i, j)) = (j + 1) - i
      /\ \A k \in 1 .. (j + 1) - i : Span(i, j)[k] = i + k - 1
  BY SpanIs
<1>2. \A k \in 1 .. (j + 1) - i : i + k - 1 # 0
  OBVIOUS
<1> QED BY <1>1, <1>2 DEF Placed

(* What the scanner makes of its buffer: the buffer, hints in one place of it or none,
   and however much of the document follows. *)
LEMMA PatchedIs ==
    ASSUME NEW d, Fits(d), NEW n \in 0 .. Len(d)
    PROVE  /\ Patched(d, n) \in Seq(Nat)
           /\ \A m \in n .. Len(d) :
                Patched(d, n) \o Span(n + 1, m)
                  \in {Span(1, m)} \cup {WithHints(p, m) : p \in 0 .. m}
           /\ HasHead(d) => Placed(d, Patched(d, n))
<1>0. Len(d) \in Nat /\ n \in Nat
  BY DEF Fits
<1>1. CASE Hinted(d, n) = {} \/ Place(d, n) = 0
  <2>1. Patched(d, n) = Span(1, n)
    BY <1>1 DEF Patched
  <2>2. 1 \in Nat \ {0} /\ 1 <= n + 1
    BY <1>0
  <2>3. Span(1, n) \in Seq(Nat) /\ Placed(d, Span(1, n))
    BY <1>0, <2>2, SpanIs, SpanPlaced
  <2>4. ASSUME NEW m \in n .. Len(d) PROVE Span(1, n) \o Span(n + 1, m) = Span(1, m)
    <3>1. m \in Nat /\ n <= m
      BY <1>0
    <3> QED BY <1>0, <2>2, <3>1, SpansJoin
  <2> QED BY <2>1, <2>3, <2>4
<1>2. CASE Hinted(d, n) # {} /\ Place(d, n) # 0
  <2> DEFINE p == Place(d, n)
  <2>1. p \in 1 .. n - 1 /\ (HasHead(d) => p + 1 \in InHead(d))
    BY <1>2, PlaceIs
  <2>2. Patched(d, n) = WithHints(p, n)
    BY <1>2 DEF Patched
  <2> HIDE DEF p
  <2>0. p \in Nat /\ p < n /\ p + 1 \in Nat \ {0} /\ 1 <= p + 1 /\ p + 1 <= n + 1
    BY <1>0, <2>1
  <2>3. /\ Span(1, p) \in Seq(Nat) /\ Len(Span(1, p)) = p
        /\ \A k \in 1 .. p : Span(1, p)[k] = k
    <3>1. 1 \in Nat \ {0} /\ (p + 1) - 1 = p /\ \A k \in 1 .. p : 1 + k - 1 = k
      BY <2>0
    <3>2. /\ Span(1, p) \in Seq(Nat) /\ Len(Span(1, p)) = (p + 1) - 1
          /\ \A k \in 1 .. (p + 1) - 1 : Span(1, p)[k] = 1 + k - 1
      BY <2>0, <3>1, SpanIs
    <3> QED BY <3>1, <3>2
  <2>4. /\ Span(p + 1, n) \in Seq(Nat) /\ Len(Span(p + 1, n)) = n - p
        /\ \A k \in 1 .. n - p : Span(p + 1, n)[k] = p + k
    <3>1. (n + 1) - (p + 1) = n - p /\ \A k \in 1 .. n - p : (p + 1) + k - 1 = p + k
      BY <1>0, <2>0
    <3>2. /\ Span(p + 1, n) \in Seq(Nat) /\ Len(Span(p + 1, n)) = (n + 1) - (p + 1)
          /\ \A k \in 1 .. (n + 1) - (p + 1) : Span(p + 1, n)[k] = (p + 1) + k - 1
      BY <1>0, <2>0, SpanIs
    <3> QED BY <3>1, <3>2
  <2>5. ASSUME NEW m \in n .. Len(d)
        PROVE  WithHints(p, n) \o Span(n + 1, m) = WithHints(p, m) /\ p \in 0 .. m
    <3>0. m \in Nat /\ n <= m /\ n + 1 \in Nat \ {0} /\ n + 1 <= m + 1
      BY <1>0
    <3>1. Span(p + 1, n) \o Span(n + 1, m) = Span(p + 1, m)
      BY <1>0, <2>0, <3>0, SpansJoin
    <3>2. Span(n + 1, m) \in Seq(Nat)
      BY <3>0, SpanIs
    <3>3. (Span(1, p) \o <<0>>) \in Seq(Nat)
      BY <2>3
    <3>4. ((Span(1, p) \o <<0>>) \o Span(p + 1, n)) \o Span(n + 1, m)
            = (Span(1, p) \o <<0>>) \o (Span(p + 1, n) \o Span(n + 1, m))
      <4> DEFINE a == Span(1, p) \o <<0>>
                 b == Span(p + 1, n)
                 c == Span(n + 1, m)
      <4>1. a \in Seq(Nat) /\ b \in Seq(Nat) /\ c \in Seq(Nat)
        BY <2>4, <3>2, <3>3
      <4> HIDE DEF a, b, c
      <4>2. (a \o b) \o c = a \o (b \o c)
        BY <4>1
      <4> QED BY <4>2 DEF a, b, c
    <3>5. p \in 0 .. m
      BY <1>0, <2>0, <3>0
    <3> QED BY <3>1, <3>4, <3>5, Zenon DEF WithHints
  <2>6. WithHints(p, n) \in Seq(Nat)
    BY <2>3, <2>4 DEF WithHints
  <2>7. ASSUME HasHead(d) PROVE Placed(d, WithHints(p, n))
    <3>1. Len(WithHints(p, n)) = n + 1
      <4> DEFINE a == Span(1, p) \o <<0>>
                 b == Span(p + 1, n)
      <4>1. a \in Seq(Nat) /\ Len(a) = p + 1 /\ b \in Seq(Nat) /\ Len(b) = n - p
        BY <2>0, <2>3, <2>4
      <4>2. WithHints(p, n) = a \o b
        BY DEF WithHints
      <4> HIDE DEF a, b
      <4>3. Len(a \o b) = Len(a) + Len(b)
        BY <4>1
      <4> QED BY <1>0, <2>0, <4>1, <4>2, <4>3
    <3>2. \A k \in 1 .. n + 1 : WithHints(p, n)[k] =
              IF k <= p THEN k ELSE IF k = p + 1 THEN 0 ELSE k - 1
      <4> DEFINE a == Span(1, p) \o <<0>>
      <4>1. a \in Seq(Nat) /\ Len(a) = p + 1 /\ a[p + 1] = 0 /\ \A k \in 1 .. p : a[k] = k
        BY <2>0, <2>3
      <4> HIDE DEF a
      <4>2. WithHints(p, n) = a \o Span(p + 1, n)
        BY DEF WithHints, a
      <4>3. ASSUME NEW k \in 1 .. p + 1
            PROVE  WithHints(p, n)[k] = IF k <= p THEN k ELSE 0
        BY <2>0, <2>4, <4>1, <4>2, <4>3
      <4>4. ASSUME NEW k \in p + 2 .. n + 1
            PROVE  WithHints(p, n)[k] = k - 1
        <5>1. k - (p + 1) \in 1 .. n - p /\ p + (k - (p + 1)) = k - 1
          BY <1>0, <2>0
        <5>2. WithHints(p, n)[k] = Span(p + 1, n)[k - (p + 1)]
          BY <1>0, <2>0, <2>4, <4>1, <4>2
        <5> QED BY <2>4, <5>1, <5>2
      <4> QED BY <1>0, <2>0, <4>3, <4>4
    <3> HIDE DEF WithHints
    <3>3. ASSUME NEW k \in 1 .. n + 1, WithHints(p, n)[k] = 0
          PROVE  k < n + 1 /\ WithHints(p, n)[k + 1] \in InHead(d)
      <4>1. k = p + 1
        BY <1>0, <2>1, <3>2, <3>3
      <4>2. k + 1 \in 1 .. n + 1 /\ WithHints(p, n)[k + 1] = p + 1
        BY <1>0, <2>1, <3>2, <4>1
      <4> QED BY <1>0, <2>1, <2>7, <4>1, <4>2
    <3> QED BY <2>6, <3>1, <3>3 DEF Placed
  <2> QED BY <2>2, <2>5, <2>6, <2>7
<1> QED BY <1>1, <1>2

-----------------------------------------------------------------------------
(* The document as it arrives. *)

LEMMA DocumentsFit == ASSUME NEW d \in Documents PROVE Fits(d) /\ Len(d) \in Nat
  BY DocumentAssumption DEF Fits

LEMMA HeadInitInv == HeadInit => HeadInv
<1>1. Span(1, 0) = <<>>
  <2>1. Span(1, 0) \in Seq(Nat) /\ Len(Span(1, 0)) = (0 + 1) - 1
    BY SpanIs
  <2> QED BY <2>1
<1>2. \A d \in Documents : 0 \in 0 .. Len(d)
  BY DocumentsFit
<1> QED BY <1>1, <1>2 DEF HeadInit, HeadInv

(* The scanner decides: what it makes of its buffer is all that is written. *)
LEMMA DecidesThere ==
    ASSUME doc \in Documents, NEW n \in 1 .. Len(doc), out = <<>>, Finalizes(n),
           doc' = doc, arrived' = n, stopped' \/ ~Continues(doc, n)
    PROVE  HeadInv'
<1>0. Fits(doc) /\ Len(doc) \in Nat /\ n \in Nat
  BY DocumentsFit
<1>1. Patched(doc, n) \in Seq(Nat)
  BY <1>0, PatchedIs
<1>2. Span(n + 1, n) = <<>>
  <2>1. Span(n + 1, n) \in Seq(Nat) /\ Len(Span(n + 1, n)) = (n + 1) - (n + 1)
    <3>1. n + 1 \in Nat \ {0} /\ n + 1 <= n + 1
      BY <1>0
    <3> QED BY <1>0, <3>1, SpanIs
  <2> QED BY <1>0, <2>1
<1>3. Patched(doc, n) \o Span(n + 1, n) = Patched(doc, n) /\ out \o Patched(doc, n) = Patched(doc, n)
  BY <1>1, <1>2
<1>4. /\ buffer' = Patched(doc', n) /\ hinted' = Hinted(doc', n)
      /\ Continues(doc', n) => stopped' /\ n = arrived'
      /\ out' = Patched(doc', n) \o Span(n + 1, arrived')
  BY <1>3 DEF Finalizes
<1>5. n \in 0 .. arrived' /\ arrived' \in 0 .. Len(doc')
  BY <1>0
<1>6. DecidedAt(n)'
  BY <1>4 DEF DecidedAt
<1> QED BY <1>5, <1>6 DEF HeadInv, Finalizes

(* The rest of the document passes. *)
LEMMA ArrivesInOrder ==
    ASSUME HeadInv, NEW k \in Nat \ {0}, DataArrives(k)
    PROVE  HeadInv'
<1>0. /\ Fits(doc) /\ Len(doc) \in Nat /\ arrived \in Nat /\ arrived + k \in 1 .. Len(doc)
      /\ doc \in Documents /\ doc' = doc /\ arrived' = arrived + k /\ ~stopped /\ stopped' = stopped
  BY DocumentsFit DEF HeadInv, DataArrives
<1>1. CASE finalized
  <2>1. PICK n \in 0 .. arrived : DecidedAt(n)
    BY <1>1 DEF HeadInv
  <2>2. /\ out' = out \o Span(arrived + 1, arrived + k)
        /\ finalized' = finalized /\ buffer' = buffer /\ hinted' = hinted
    BY <1>1 DEF DataArrives
  <2>3. out = Patched(doc, n) \o Span(n + 1, arrived)
    BY <1>0, <2>1 DEF DecidedAt
  <2>4. Span(n + 1, arrived) \o Span(arrived + 1, arrived + k) = Span(n + 1, arrived + k)
    <3>1. /\ n + 1 \in Nat \ {0} /\ arrived + k \in Nat /\ n + 1 <= arrived + 1
          /\ arrived <= arrived + k
      BY <1>0
    <3> QED BY <1>0, <3>1, SpansJoin
  <2>5. out' = Patched(doc, n) \o Span(n + 1, arrived + k)
    <3> DEFINE a == Patched(doc, n)
               b == Span(n + 1, arrived)
               c == Span(arrived + 1, arrived + k)
    <3>1. a \in Seq(Nat)
      BY <1>0, PatchedIs
    <3>2. b \in Seq(Nat)
      <4>1. n + 1 \in Nat \ {0} /\ n + 1 <= arrived + 1
        BY <1>0
      <4> QED BY <1>0, <4>1, SpanIs
    <3>3. c \in Seq(Nat)
      <4>1. arrived + 1 \in Nat \ {0} /\ arrived + k \in Nat /\ arrived + 1 <= (arrived + k) + 1
        BY <1>0
      <4> QED BY <4>1, SpanIs
    <3> HIDE DEF a, b, c
    <3>4. (a \o b) \o c = a \o (b \o c)
      BY <3>1, <3>2, <3>3
    <3> QED BY <2>2, <2>3, <2>4, <3>4 DEF a, b, c
  <2>6. DecidedAt(n)'
    <3>1. /\ buffer' = Patched(doc', n) /\ hinted' = Hinted(doc', n)
          /\ ~Continues(doc', n) /\ out' = Patched(doc', n) \o Span(n + 1, arrived')
      BY <1>0, <2>1, <2>2, <2>5 DEF DecidedAt
    <3> QED BY <3>1 DEF DecidedAt
  <2>7. n \in 0 .. arrived' /\ arrived' \in 0 .. Len(doc')
    BY <1>0
  <2> QED BY <1>0, <1>1, <2>2, <2>6, <2>7 DEF HeadInv
<1>2. CASE ~finalized /\ Continues(doc, arrived + k)
  <2>1. /\ out' = out /\ finalized' = finalized /\ buffer' = Span(1, arrived')
        /\ out = <<>> /\ arrived' \in 0 .. Len(doc')
    BY <1>0, <1>2 DEF DataArrives, HeadInv
  <2> QED BY <1>0, <1>2, <2>1 DEF HeadInv
<1>3. CASE ~finalized /\ ~Continues(doc, arrived + k)
  <2>1. Finalizes(arrived + k) /\ out = <<>>
    BY <1>0, <1>3 DEF DataArrives, HeadInv
  <2> QED BY <1>0, <1>3, <2>1, DecidesThere
<1> QED BY <1>1, <1>2, <1>3

LEMMA StopsInOrder ==
    ASSUME HeadInv, Stops
    PROVE  HeadInv'
<1>0. /\ Fits(doc) /\ Len(doc) \in Nat /\ arrived \in 0 .. Len(doc) /\ doc \in Documents
      /\ doc' = doc /\ arrived' = arrived /\ ~stopped /\ stopped' = TRUE
  BY DocumentsFit DEF HeadInv, Stops
<1>1. CASE ~finalized /\ arrived > 0
  <2>1. Finalizes(arrived) /\ out = <<>> /\ arrived \in 1 .. Len(doc)
    BY <1>0, <1>1 DEF Stops, HeadInv
  <2> QED BY <1>0, <2>1, DecidesThere
<1>2. CASE finalized
  <2>1. PICK n \in 0 .. arrived : DecidedAt(n)
    BY <1>2 DEF HeadInv
  <2>2. out' = out \o buffer /\ finalized' = finalized /\ buffer' = buffer /\ hinted' = hinted
    BY <1>2 DEF Stops
  <2>3. DecidedAt(n)'
    <3>1. /\ buffer' = Patched(doc', n) /\ hinted' = Hinted(doc', n)
          /\ Continues(doc', n) => stopped' /\ n = arrived'
          /\ stopped' /\ out' = (Patched(doc', n) \o Span(n + 1, arrived')) \o Patched(doc', n)
      BY <1>0, <2>1, <2>2 DEF DecidedAt
    <3> QED BY <3>1 DEF DecidedAt
  <2> QED BY <1>0, <1>2, <2>2, <2>3 DEF HeadInv
<1>3. CASE ~finalized /\ arrived = 0
  <2>1. out' = out \o buffer /\ finalized' = finalized /\ buffer' = buffer
    BY <1>3 DEF Stops
  <2>2. out = <<>> /\ buffer = Span(1, 0)
    BY <1>3 DEF HeadInv
  <2>3. Span(1, 0) = <<>>
    <3>1. Span(1, 0) \in Seq(Nat) /\ Len(Span(1, 0)) = (0 + 1) - 1
      BY SpanIs
    <3> QED BY <3>1
  <2>4. out' = <<>>
    BY <2>1, <2>2, <2>3
  <2> QED BY <1>0, <1>3, <2>1, <2>2, <2>4 DEF HeadInv
<1> QED BY <1>0, <1>1, <1>2, <1>3

LEMMA HeadStepInv == HeadInv /\ [HeadNext]_headVars => HeadInv'
<1> SUFFICES ASSUME HeadInv, [HeadNext]_headVars PROVE HeadInv'
  OBVIOUS
<1>1. CASE UNCHANGED headVars
  <2>1. /\ doc' = doc /\ arrived' = arrived /\ finalized' = finalized /\ buffer' = buffer
        /\ out' = out /\ hinted' = hinted /\ stopped' = stopped
    BY <1>1 DEF headVars
  <2>2. \A n : DecidedAt(n) => DecidedAt(n)'
    BY <2>1 DEF DecidedAt
  <2> QED BY <2>1, <2>2 DEF HeadInv
<1>2. CASE Stops
  BY <1>2, StopsInOrder
<1>3. CASE \E k \in 1 .. Len(doc) : DataArrives(k)
  BY <1>3, ArrivesInOrder, DocumentsFit DEF HeadInv
<1> QED BY <1>1, <1>2, <1>3 DEF HeadNext

LEMMA HeadIsInOrder == HeadSpec => []HeadInv
  BY HeadInitInv, HeadStepInv, PTL DEF HeadSpec

(* The hints of a decision that was in time are those of the head. *)
LEMMA DecidedInTime ==
    ASSUME NEW d \in Documents, HasHead(d), InTime(d), NEW n \in 0 .. Len(d),
           NEW m \in n .. Len(d), Continues(d, n) => n = m, m >= EndOfTag(d, Closing(d))
    PROVE  Hinted(d, n) = Named(d, InHead(d))
<1>0. Fits(d) /\ Len(d) \in Nat /\ DOMAIN d = 1 .. Len(d) /\ MaxScan \in Nat /\ MinBeforeHead \in Nat
  BY DocumentsFit, DocumentAssumption DEF Fits
<1>1. /\ Closing(d) \in DOMAIN d /\ d[Closing(d)] = "</head" /\ Between(d, Closing(d))
      /\ HeadOpen(d, Closing(d)) # 0
  BY <1>0, ClosingIs, ClosedLater DEF HasHead
<1>2. EndOfTag(d, Closing(d)) \in Closing(d) + 1 .. Len(d)
  BY <1>0, <1>1, EndIs, LexemesDiffer DEF Between
<1>3. Opening(d) \in 1 .. Len(d) /\ d[Opening(d)] = "<head"
  <2>1. Closing(d) \in 0 .. Len(d)
    BY <1>0, <1>1
  <2>2. Opening(d) \in Real(d, "<head")
    BY <1>0, <1>1, <2>1, HeadOpens
  <2> QED BY <1>0, <2>2 DEF Real
<1>4. HeadClose(d, n) # 0
  <2> SUFFICES ASSUME HeadClose(d, n) = 0 PROVE FALSE
    OBVIOUS
  <2>1. EndOfTag(d, Closing(d)) > n
    BY <1>0, HeadCloses DEF HasHead
  <2>2. n # m
    BY <1>0, <1>2, <2>1
  <2>3. n >= MaxScan \/ (HeadOpen(d, n) = 0 /\ n >= MinBeforeHead)
    BY <1>0, <2>2 DEF Continues
  <2>4. CASE n >= MaxScan
    BY <1>0, <1>2, <2>1, <2>4 DEF InTime
  <2>5. CASE HeadOpen(d, n) = 0 /\ n >= MinBeforeHead
    <3>1. Opening(d) \in 1 .. n
      BY <1>0, <1>3, <2>5 DEF InTime
    <3> QED BY <1>0, <1>3, <2>5, <3>1, HeadOpens
  <2> QED BY <2>3, <2>4, <2>5
<1> QED BY <1>0, <1>4, HintsAreTheHeads

(* For every document that closes its tags, wherever its chunks end and whenever it stops: what
   is written is what has arrived with hints in one place, the place is in the head and
   between two tags, and a head closed in time gets its own hints. *)
THEOREM HintsAreInTheHead == HeadSpec => []HintsFitTheHead
<1>1. ASSUME HeadInv PROVE HintsFitTheHead
  <2>0. /\ doc \in Documents /\ Fits(doc) /\ Len(doc) \in Nat /\ arrived \in 0 .. Len(doc)
    BY <1>1, DocumentsFit DEF HeadInv
  <2>1. CASE ~finalized
    BY <1>1, <2>1 DEF HeadInv, HintsFitTheHead
  <2>2. CASE finalized
    <3>1. PICK n \in 0 .. arrived : DecidedAt(n)
      BY <1>1, <2>2 DEF HeadInv
    <3> DEFINE a == Patched(doc, n)
               b == Span(n + 1, arrived)
    <3>2. n \in 0 .. Len(doc) /\ arrived \in n .. Len(doc)
      BY <2>0
    <3>3. /\ a \in Seq(Nat) /\ (HasHead(doc) => Placed(doc, a))
          /\ a \o b \in {Span(1, arrived)} \cup {WithHints(p, arrived) : p \in 0 .. arrived}
      BY <2>0, <3>2, PatchedIs
    <3>4. Placed(doc, b)
      <4>1. n + 1 \in Nat \ {0} /\ arrived \in Nat /\ n + 1 <= arrived + 1
        BY <2>0, <3>2
      <4> QED BY <4>1, SpanPlaced
    <3>5. out = a \o b \/ (stopped /\ out = (a \o b) \o a)
      BY <3>1 DEF DecidedAt
    <3> HIDE DEF a, b
    <3>6. ~stopped => out \in {Span(1, arrived)} \cup {WithHints(p, arrived) : p \in 0 .. arrived}
      BY <3>3, <3>5
    <3>7. ASSUME HasHead(doc) PROVE Placed(doc, out)
      <4>1. Placed(doc, a \o b)
        BY <3>3, <3>4, <3>7, PlacedTogether
      <4>2. Placed(doc, (a \o b) \o a)
        BY <3>3, <3>7, <4>1, PlacedTogether
      <4> QED BY <3>5, <4>1, <4>2
    <3>8. ASSUME HasHead(doc), InTime(doc), arrived >= EndOfTag(doc, Closing(doc))
          PROVE  hinted = Named(doc, InHead(doc))
      <4>1. hinted = Hinted(doc, n) /\ (Continues(doc, n) => n = arrived)
        BY <3>1 DEF DecidedAt
      <4> QED BY <2>0, <3>2, <3>8, <4>1, DecidedInTime
    <3>9. HasHead(doc) => \A m \in 1 .. Len(out) - 1 : out[m] = 0 => out[m + 1] \in InHead(doc)
      BY <3>7 DEF Placed
    <3> QED BY <2>2, <3>6, <3>8, <3>9 DEF HintsFitTheHead
  <2> QED BY <2>1, <2>2
<1> QED BY <1>1, HeadIsInOrder, PTL
============================================================================
