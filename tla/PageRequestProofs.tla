------------------------- MODULE PageRequestProofs -------------------------
(***************************************************************************)
(* What TLAPS proves of the two ways of a page to the cache.                *)
(*                                                                          *)
(* Of PageBridge, for every set of calls and keys and for every retry       *)
(* ladder: the page's tables, the relay and the background together         *)
(* implement StoreCalls. A call is answered ok only for a chunk that was    *)
(* stored because its answer travels in a reply that only the background    *)
(* makes, after the store, and joined calls share their key.                *)
(*                                                                          *)
(* Of PlayerRequests, for any number of requests made with fetch and with   *)
(* XMLHttpRequest at once: who competes for a request answers it once, and  *)
(* what is answered is what was asked for.                                  *)
(***************************************************************************)
EXTENDS PageBridge, PlayerRequests, TLAPS

-----------------------------------------------------------------------------
(* PageBridge. *)

Open == {"joined", "waiting", "delay", "lookup"}

OpenWhileRunning ==
    \A c \in Calls : /\ call[c].pc \in Open <=> call[c].out = "open"
                     /\ call[c].pc = "unasked" <=> call[c].out = "none"

DelayFits == \A c \in Calls : call[c].pc = "delay" => call[c].n < MaxAttempts

PendingWait ==
    \A id \in pending :
        IF id[2] = 0 THEN call[id[1]].pc = "lookup"
        ELSE call[id[1]].pc = "waiting" /\ call[id[1]].n = id[2] /\ id \in storeIds

AwaitedArePending ==
    /\ \A c \in Calls : /\ call[c].pc = "waiting" => <<c, call[c].n>> \in pending
                        /\ call[c].pc = "lookup" => <<c, 0>> \in pending
    /\ \A id \in storeIds : id \in pending /\ id[2] # 0

(* A teardown cuts off only recovery lookups. *)
CutLooksUp == \A c \in Calls : call[c].cut => call[c].pc \in {"lookup", "done"}

JoinedShareKey ==
    \A c \in Calls : call[c].pc = "joined" =>
        /\ call[c].by \in Calls /\ call[call[c].by].pc # "unasked"
        /\ call[c].key = call[call[c].by].key

InflightKeys ==
    \A k \in Keys : inflight[k] # Nil =>
        Running(inflight[k]) /\ call[inflight[k]].key = k

AskedHaveKeys == \A c \in Calls : call[c].pc # "unasked" => call[c].key \in Keys

(* A reply that says yes is under way only for a chunk that was stored. *)
MessageSound(m) ==
    /\ call[m.id[1]].pc # "unasked"
    /\ m.at = "page" => /\ m.id[2] = 0 <=> m.res \in {"hit", "miss"}
                        /\ m.res \in {"ok", "hit"} => call[m.id[1]].key \in stored
WireSound == \A m \in wire : MessageSound(m)

BridgeInv ==
    /\ BridgeTypeOK
    /\ OpenWhileRunning /\ DelayFits /\ PendingWait /\ JoinedShareKey
    /\ InflightKeys /\ AskedHaveKeys /\ WireSound
    /\ AwaitedArePending /\ CutLooksUp /\ OneLeaderPerKey

CallsInv == OpenWhileRunning /\ DelayFits /\ JoinedShareKey /\ AskedHaveKeys

PromiseStep == [Promise!PromiseNext]_(Promise!promise)

(* Calls that were made keep their keys. *)
KeysKept ==
    \A c \in Calls : call[c].pc # "unasked" =>
        call'[c].pc # "unasked" /\ call'[c].key = call[c].key

-----------------------------------------------------------------------------
LEMMA MaxAttemptsType ==
    /\ MaxAttempts \in Nat /\ MaxAttempts >= 1
    /\ \A l \in Ladders : Attempts[l] \in Nat /\ Attempts[l] >= 1 /\ Attempts[l] <= MaxAttempts
BY BridgeAssumption DEF MaxAttempts, Ladders

LEMMA FreshIsCall == FreshCall \in CallRec /\ IdleFlusher \in FlusherRec
BY MaxAttemptsType DEF FreshCall, CallState, CallRec, IdleFlusher, FlusherRec

LEMMA RetriesFit ==
    ASSUME NEW res, NEW n \in 0..MaxAttempts, Retries(res, n) PROVE n < MaxAttempts
<1>1. Ladder(res) \in Ladders
  BY DEF Ladder, Ladders
<1> QED BY <1>1, MaxAttemptsType DEF Retries

(* Messages that are left on the wire, or posted for a call that was made,
   stay sound while calls keep their keys and stored keys stay stored. *)
LEMMA WireKept ==
    ASSUME BridgeInv, KeysKept, stored \subseteq stored',
           NEW m \in wire
    PROVE  MessageSound(m)'
<1>1. m \in Message /\ MessageSound(m)
  BY DEF BridgeInv, BridgeTypeOK, WireSound
<1>2. m.id[1] \in Calls
  BY <1>1 DEF Message, Ids
<1> QED BY <1>1, <1>2 DEF KeysKept, MessageSound

TablesSound ==
    /\ OpenWhileRunning /\ DelayFits /\ PendingWait /\ JoinedShareKey /\ InflightKeys
    /\ AskedHaveKeys /\ AwaitedArePending /\ CutLooksUp /\ OneLeaderPerKey

LEMMA TablesKept ==
    ASSUME BridgeInv, UNCHANGED <<call, inflight, pending, storeIds>> PROVE TablesSound'
<1>1. OpenWhileRunning' /\ DelayFits' /\ PendingWait' /\ JoinedShareKey'
  BY DEF BridgeInv, OpenWhileRunning, DelayFits, PendingWait, JoinedShareKey
<1>2. InflightKeys' /\ AskedHaveKeys' /\ AwaitedArePending' /\ CutLooksUp' /\ OneLeaderPerKey'
  BY DEF BridgeInv, InflightKeys, AskedHaveKeys, AwaitedArePending, CutLooksUp, OneLeaderPerKey, Running
<1> QED BY <1>1, <1>2 DEF TablesSound

LEMMA RequestSound ==
    ASSUME NEW c, NEW n, call'[c].pc # "unasked" PROVE MessageSound(Request(<<c, n>>))'
BY DEF MessageSound, Request

LEMMA AskIsStep ==
    ASSUME NEW c \in Calls, NEW k \in Keys, NEW now \in {"open", "failed"},
           Promise!Ask(c, k, now)
    PROVE  PromiseStep
<1>1. Promise!PromiseNext
  BY Zenon DEF Promise!PromiseNext
<1> QED BY <1>1 DEF PromiseStep

LEMMA MessageTypes ==
    ASSUME NEW id \in Ids, NEW res \in Results \cup {"hit", "miss"}
    PROVE  Request(id) \in Message /\ Reply(id, res) \in Message
BY DEF Request, Reply, Message

-----------------------------------------------------------------------------
LEMMA InitBridge == BridgeInit => BridgeInv /\ Promise!PromiseInit
<1> SUFFICES ASSUME BridgeInit PROVE BridgeInv /\ Promise!PromiseInit
  OBVIOUS
<1>1. deferred \in Seq(Keys)
  BY DEF BridgeInit
<1>2. BridgeTypeOK
  BY <1>1, FreshIsCall DEF BridgeInit, BridgeTypeOK
<1>3. CallsInv /\ PendingWait /\ InflightKeys /\ WireSound
  BY DEF BridgeInit, CallsInv, OpenWhileRunning, DelayFits, JoinedShareKey, AskedHaveKeys, PendingWait,
         InflightKeys, WireSound, FreshCall, CallState, Open
<1>5. AwaitedArePending /\ CutLooksUp /\ OneLeaderPerKey
  BY DEF BridgeInit, AwaitedArePending, CutLooksUp, OneLeaderPerKey, Running, FreshCall, CallState
<1>4. Promise!PromiseInit
  BY DEF BridgeInit, Promise!PromiseInit, FreshCall, CallState, Verdict
<1> QED BY <1>2, <1>3, <1>4, <1>5 DEF BridgeInv, CallsInv

-----------------------------------------------------------------------------
(* The page's half of a call: it is declined, joined or started. *)
LEMMA AskStep ==
    ASSUME BridgeInv, NEW c \in Calls, NEW k \in Keys, Asked(c, k),
           deferred' \in Seq(Keys), flusher' \in [Flushers -> FlusherRec],
           UNCHANGED <<active, world>>
    PROVE  BridgeInv' /\ PromiseStep
<1> USE MaxAttemptsType, BridgeAssumption
<1> DEFINE R == call'[c]
<1>1. call \in [Calls -> CallRec] /\ inflight \in [Keys -> Calls \cup {Nil}]
      /\ call[c].pc = "unasked"
  BY DEF BridgeInv, BridgeTypeOK, Asked
<1>2. /\ R \in CallRec /\ call' = [call EXCEPT ![c] = R] /\ R.key = k
      /\ R.pc \in {"done", "joined", "waiting"} /\ R.out \in {"skipped", "failed", "open"}
      /\ R.pc = "done" <=> R.out # "open"
      /\ R.pc = "waiting" => R.n = 1
      /\ ~R.cut
  <2>1. CASE Declined(c, k, "skipped") \/ Declined(c, k, "failed")
    <3>1. PICK out \in {"skipped", "failed"} : call' = [call EXCEPT ![c] = CallState("done", k, Nil, 0, out)]
      BY <2>1, SMT DEF Declined, CallState
    <3>2. R = CallState("done", k, Nil, 0, out)
      BY <1>1, <3>1
    <3> QED BY <1>1, <3>1, <3>2, SMT DEF CallRec, CallState
  <2>2. CASE inflight[k] # Nil /\ Joined(c, k)
    <3>1. call' = [call EXCEPT ![c] = CallState("joined", k, inflight[k], 0, "open")]
      BY <2>2, SMT DEF Joined, CallState
    <3>2. R = CallState("joined", k, inflight[k], 0, "open")
      BY <1>1, <3>1
    <3> QED BY <1>1, <3>1, <3>2, SMT DEF CallRec, CallState
  <2>3. CASE inflight[k] = Nil /\ Started(c, k)
    <3>1. call' = [call EXCEPT ![c] = CallState("waiting", k, Nil, 1, "open")]
      BY <2>3, SMT DEF Started, CallState
    <3>2. R = CallState("waiting", k, Nil, 1, "open")
      BY <1>1, <3>1
    <3> QED BY <1>1, <3>1, <3>2, SMT DEF CallRec, CallState
  <2> QED BY <2>1, <2>2, <2>3 DEF Asked
<1>3. /\ R.pc # "waiting" => UNCHANGED <<inflight, pending, storeIds, wire>>
      /\ R.pc = "joined" => inflight[k] # Nil /\ R.by = inflight[k]
      /\ R.pc = "waiting" => /\ inflight[k] = Nil /\ inflight' = [inflight EXCEPT ![k] = c]
                             /\ Posted(c, 1)
  <2>1. CASE Declined(c, k, "skipped") \/ Declined(c, k, "failed")
    <3>1. R.pc = "done"
      BY <1>1, <2>1, SMT DEF Declined, CallState
    <3> QED BY <2>1, <3>1 DEF Declined
  <2>2. CASE inflight[k] # Nil /\ Joined(c, k)
    <3>1. R.pc = "joined" /\ R.by = inflight[k]
      BY <1>1, <2>2, SMT DEF Joined, CallState
    <3> QED BY <2>2, <3>1 DEF Joined
  <2>3. CASE inflight[k] = Nil /\ Started(c, k)
    <3>1. R.pc = "waiting"
      BY <1>1, <2>3, SMT DEF Started, CallState
    <3> QED BY <2>3, <3>1 DEF Started
  <2> QED BY <2>1, <2>2, <2>3 DEF Asked
<1> HIDE DEF R
<1>4. call' \in [Calls -> CallRec] /\ KeysKept /\ \A d \in Calls : d # c => call'[d] = call[d]
  BY <1>1, <1>2 DEF KeysKept
<1>5. call'[c] = R
  BY DEF R
<1>6. BridgeTypeOK'
  <2>1. CASE R.pc # "waiting"
    BY <1>3, <1>4, <2>1 DEF BridgeInv, BridgeTypeOK, world
  <2>2. CASE R.pc = "waiting"
    <3>1. <<c, 1>> \in Ids
      BY DEF Ids
    <3> QED BY ZenonT(40), <1>1, <1>3, <1>4, <2>2, <3>1, MessageTypes DEF BridgeInv, BridgeTypeOK, world, Posted
  <2> QED BY <2>1, <2>2
<1>7. OpenWhileRunning' /\ AskedHaveKeys' /\ DelayFits'
  BY <1>2, <1>4, <1>5 DEF BridgeInv, OpenWhileRunning, DelayFits, AskedHaveKeys, Open
<1>8. JoinedShareKey'
  <2>1. R.pc = "joined" => R.by \in Calls /\ R.by # c /\ call[R.by].pc # "unasked" /\ call[R.by].key = k
    BY <1>1, <1>3 DEF BridgeInv, InflightKeys, Running
  <2> QED BY <1>1, <1>2, <1>4, <1>5, <2>1 DEF BridgeInv, JoinedShareKey
<1>9. InflightKeys' /\ OneLeaderPerKey'
  <2>1. \A q \in Keys : inflight[q] # c
    BY <1>1 DEF BridgeInv, InflightKeys, Running
  <2>2. InflightKeys'
    BY <1>1, <1>2, <1>3, <1>4, <1>5, <2>1 DEF BridgeInv, InflightKeys, Running
  <2>3. OneLeaderPerKey'
    <3>1. ASSUME NEW d \in Calls, Running(d)', ~call'[d].cut PROVE inflight'[call'[d].key] = d
      <4>1. CASE d = c
        BY <1>1, <1>2, <1>3, <1>5, <3>1, <4>1 DEF Running
      <4>2. CASE d # c
        <5>1. Running(d) /\ ~call[d].cut /\ call'[d].key = call[d].key /\ call[d].key \in Keys
          BY <1>4, <3>1, <4>2 DEF Running, BridgeInv, AskedHaveKeys
        <5>2. inflight[call[d].key] = d /\ d # Nil
          BY <5>1 DEF BridgeInv, OneLeaderPerKey
        <5> QED BY <1>1, <1>2, <1>3, <5>1, <5>2
      <4> QED BY <4>1, <4>2
    <3> QED BY <3>1 DEF OneLeaderPerKey
  <2> QED BY <2>2, <2>3
<1>13. AwaitedArePending' /\ CutLooksUp'
  <2>1. CASE R.pc # "waiting"
    BY <1>2, <1>3, <1>4, <1>5, <2>1 DEF BridgeInv, AwaitedArePending, CutLooksUp
  <2>2. CASE R.pc = "waiting"
    BY <1>2, <1>3, <1>4, <1>5, <2>2 DEF BridgeInv, AwaitedArePending, CutLooksUp, Posted
  <2> QED BY <2>1, <2>2
<1>10. PendingWait'
  <2>1. \A id \in pending : id[1] \in Calls /\ id[1] # c
    BY <1>1 DEF BridgeInv, BridgeTypeOK, PendingWait, Ids
  <2> QED BY <1>2, <1>3, <1>4, <1>5, <2>1 DEF BridgeInv, PendingWait, Posted
<1>11. WireSound'
  <2>1. \A m \in wire : MessageSound(m)'
    BY <1>4, WireKept DEF world
  <2>2. MessageSound(Request(<<c, 1>>))'
    BY <1>2, <1>5, RequestSound
  <2> QED BY <1>2, <1>3, <2>1, <2>2 DEF WireSound, Posted
<1>12. PromiseStep
  <2>1. PICK now \in {"open", "failed"} : now = IF R.out = "open" THEN "open" ELSE "failed"
    OBVIOUS
  <2>2. Verdict(c)' = now /\ Verdict(c) = "none" /\ \A d \in Calls : d # c => Verdict(d)' = Verdict(d)
    BY <1>1, <1>2, <1>4, <1>5, <2>1 DEF Verdict, BridgeInv, OpenWhileRunning
  <2>3. Promise!Ask(c, k, now)
    BY <1>1, <1>2, <1>4, <1>5, <2>2 DEF Promise!Ask, world
  <2> QED BY <2>3, AskIsStep
<1> QED BY <1>6, <1>7, <1>8, <1>9, <1>10, <1>11, <1>12, <1>13 DEF BridgeInv

-----------------------------------------------------------------------------
LEMMA AnswerIsStep ==
    ASSUME NEW S \in SUBSET Calls, NEW how \in {"ok", "failed"}, Promise!Answer(S, how)
    PROVE  PromiseStep
<1>1. Promise!PromiseNext
  BY Zenon DEF Promise!PromiseNext
<1> QED BY <1>1 DEF PromiseStep

LEMMA StutterIsStep ==
    ASSUME stored' = stored, \A c \in Calls : Verdict(c)' = Verdict(c) /\ call'[c].key = call[c].key
    PROVE  PromiseStep
BY DEF PromiseStep, Promise!promise

(* The messages kept by Live are messages, and sound as before. *)
LEMMA LiveKept ==
    ASSUME BridgeInv, KeysKept, stored \subseteq stored', NEW open
    PROVE  Live(wire, open) \subseteq Message /\ \A m \in Live(wire, open) : MessageSound(m)'
BY WireKept DEF Live, BridgeInv, BridgeTypeOK

(* A run ends with ok for a stored chunk, or fails: it settles with its joiners. *)
RequestsEnd(c) ==
    /\ pending' \subseteq pending
    /\ \A id \in pending : id \in pending' <=> id[1] # c
    /\ storeIds' \subseteq storeIds
    /\ \A id \in pending' : id \in storeIds => id \in storeIds'
    /\ \A id \in storeIds' : id \in pending'

LEMMA EndStep ==
    ASSUME BridgeInv, NEW c \in Calls, call[c].pc \in {"waiting", "lookup"},
           NEW res \in Failures \cup {Nil}, NEW out \in {"ok", "failed"},
           out = "ok" => call[c].key \in stored,
           call' = Ended(c, res, out), inflight' = Released(c),
           RequestsEnd(c),
           NEW open, wire' = Live(wire, open),
           deferred' \in Seq(Keys), UNCHANGED <<flusher, active, world>>
    PROVE  BridgeInv' /\ PromiseStep
<1> USE DEF RequestsEnd
<1> DEFINE S == {c} \cup {d \in Calls : call[d].pc = "joined" /\ call[d].by = c}
<1>1. call \in [Calls -> CallRec] /\ inflight \in [Keys -> Calls \cup {Nil}]
      /\ pending \subseteq Ids /\ c # Nil
  BY BridgeAssumption DEF BridgeInv, BridgeTypeOK
<1>2. \A d \in Calls : call[d] \in CallRec
  BY <1>1
<1>3. /\ call' \in [Calls -> CallRec]
      /\ \A d \in S : call'[d].pc = "done" /\ call'[d].out = out /\ call'[d].key = call[d].key
      /\ \A d \in Calls : d \notin S => call'[d] = call[d]
      /\ \A d \in Calls : call'[d].cut = call[d].cut
  <2>1. ASSUME NEW d \in Calls PROVE call'[d] \in CallRec
    <3>1. CASE d = c
      <4>1. call'[d] = [call[d] EXCEPT !.pc = "done", !.last = res, !.out = out]
        BY <3>1 DEF Ended
      <4> QED BY <1>2, <4>1 DEF CallRec
    <3>2. CASE d # c /\ call[d].pc = "joined" /\ call[d].by = c
      <4>1. call'[d] = [call[d] EXCEPT !.pc = "done", !.out = out]
        BY <3>2 DEF Ended
      <4> QED BY <1>2, <4>1 DEF CallRec
    <3>3. CASE d # c /\ ~(call[d].pc = "joined" /\ call[d].by = c)
      <4>1. call'[d] = call[d]
        BY <3>3 DEF Ended
      <4> QED BY <1>2, <4>1
    <3> QED BY <3>1, <3>2, <3>3
  <2>2. call' = [d \in Calls |-> call'[d]]
    BY DEF Ended
  <2>3. \A d \in S : call'[d].pc = "done" /\ call'[d].out = out /\ call'[d].key = call[d].key
    BY <1>2 DEF Ended, CallRec
  <2>4. \A d \in Calls : d \notin S => call'[d] = call[d]
    BY DEF Ended
  <2>5. \A d \in Calls : call'[d].cut = call[d].cut
    BY <1>2 DEF Ended, CallRec
  <2> QED BY <2>1, <2>2, <2>3, <2>4, <2>5
<1>4. \A d \in S : d \in Calls /\ call[d].pc \in {"joined", "waiting", "lookup"} /\ call[d].key = call[c].key
  BY DEF BridgeInv, JoinedShareKey
<1> HIDE DEF S
<1>5. S \in SUBSET Calls
  BY <1>4
<1>6. KeysKept
  BY <1>3, <1>4 DEF KeysKept
<1>7. BridgeTypeOK'
  <2>1. inflight' \in [Keys -> Calls \cup {Nil}]
    BY <1>1 DEF Released
  <2>2. wire' \subseteq Message
    BY <1>6, LiveKept DEF world
  <2> QED BY <1>1, <1>3, <2>1, <2>2 DEF BridgeInv, BridgeTypeOK, world
<1>8. OpenWhileRunning' /\ AskedHaveKeys' /\ DelayFits'
  BY <1>3, <1>4 DEF BridgeInv, OpenWhileRunning, DelayFits, AskedHaveKeys, Open
<1>9. JoinedShareKey'
  BY <1>3, <1>4, <1>6 DEF BridgeInv, JoinedShareKey, KeysKept
<1>10. InflightKeys' /\ OneLeaderPerKey'
  <2>1. \A k \in Keys : inflight'[k] # Nil => inflight'[k] = inflight[k] /\ inflight[k] # c
    BY <1>1 DEF Released
  <2>2. \A d \in Calls : Running(d) /\ d # c => d \notin S
    BY <1>4 DEF Running, S
  <2>3. InflightKeys'
    BY <1>1, <1>3, <1>6, <2>1, <2>2 DEF BridgeInv, InflightKeys, KeysKept, Running
  <2>4. ASSUME NEW d \in Calls, Running(d)', ~call'[d].cut PROVE inflight'[call'[d].key] = d
    <3>1. d \notin S /\ d # c /\ Running(d) /\ ~call[d].cut /\ call'[d].key = call[d].key
      BY <1>3, <2>4 DEF Running, S
    <3>2. inflight[call[d].key] = d /\ call[d].key \in Keys
      BY <3>1 DEF BridgeInv, OneLeaderPerKey, AskedHaveKeys, Running
    <3> QED BY <3>1, <3>2 DEF Released
  <2> QED BY <2>3, <2>4 DEF OneLeaderPerKey
<1>14. AwaitedArePending' /\ CutLooksUp'
  <2>1. \A d \in S : call'[d].pc = "done"
    BY <1>3
  <2>2. \A d \in Calls : call'[d].pc \in {"waiting", "lookup"} => d # c /\ call'[d] = call[d]
    BY <1>3, <2>1 DEF S
  <2>3. \A d \in Calls, i \in Nat : <<d, i>>[1] = d
    OBVIOUS
  <2>4. \A d \in Calls : call[d].n \in Nat
    BY <1>2, MaxAttemptsType DEF CallRec
  <2>5. AwaitedArePending'
    BY <2>2, <2>3, <2>4 DEF BridgeInv, AwaitedArePending
  <2>6. CutLooksUp'
    BY <1>3, <2>1 DEF BridgeInv, CutLooksUp
  <2> QED BY <2>5, <2>6
<1>11. PendingWait'
  <2>1. \A id \in pending' : id \in pending /\ id[1] \in Calls
    BY <1>1 DEF Ids
  <2>2. \A id \in pending' : id[1] \notin S
    BY <1>4, <2>1 DEF BridgeInv, PendingWait, S
  <2> QED BY <1>3, <2>1, <2>2 DEF BridgeInv, PendingWait
<1>12. WireSound'
  BY <1>6, LiveKept DEF WireSound, world
<1>13. PromiseStep
  <2>1. \A d \in S : Verdict(d) = "open" /\ Verdict(d)' = out
    BY <1>3, <1>4 DEF Verdict, BridgeInv, OpenWhileRunning, Open
  <2>2. \A d \in Calls : d \notin S => Verdict(d)' = Verdict(d)
    BY <1>3 DEF Verdict
  <2>3. \A d \in Calls : call'[d].key = call[d].key
    BY <1>3, <1>4
  <2>4. [d \in Calls |-> Verdict(d)'] = [d \in Calls |-> IF d \in S THEN out ELSE Verdict(d)]
    BY <2>1, <2>2
  <2>5. Promise!Answer(S, out)
    BY <1>4, <1>5, <2>1, <2>3, <2>4 DEF Promise!Answer, world
  <2> QED BY <1>5, <2>5, AnswerIsStep
<1> QED BY <1>7, <1>8, <1>9, <1>10, <1>11, <1>12, <1>13, <1>14 DEF BridgeInv

-----------------------------------------------------------------------------
(* A run moves on between its attempts: to the delay, to the next request (its
   n-th) or to the recovery lookup. R is the call's next record. *)
MovesOn(c, R, n) ==
    /\ call[c].pc \in {"waiting", "delay"}
    /\ R \in CallRec /\ R.pc \in {"waiting", "delay", "lookup"}
    /\ R.key = call[c].key /\ R.out = call[c].out /\ R.cut = call[c].cut
    /\ R.pc = "delay" => R.n < MaxAttempts
    /\ R.pc = "waiting" => R.n = n /\ n # 0
    /\ R.pc = "lookup" => n = 0
    /\ n \in 0..MaxAttempts
    /\ call' = [call EXCEPT ![c] = R]

RequestsMoveOn(c, R, n) ==
    /\ \A id \in pending' : \/ id \in pending /\ id[1] # c
                            \/ R.pc # "delay" /\ id = <<c, n>>
    /\ \A id \in pending : id[1] # c => id \in pending'
    /\ R.pc # "delay" => <<c, n>> \in pending'
    /\ storeIds' = {id \in pending' : id[2] # 0}
    /\ wire' \subseteq wire \cup {Request(<<c, n>>)}

LEMMA MoveStep ==
    ASSUME BridgeInv, NEW c \in Calls, NEW R, NEW n, MovesOn(c, R, n), RequestsMoveOn(c, R, n),
           UNCHANGED <<inflight, deferred, flusher, active, world>>
    PROVE  BridgeInv' /\ PromiseStep
<1> USE DEF MovesOn, RequestsMoveOn
<1>1. call \in [Calls -> CallRec] /\ pending \subseteq Ids
  BY DEF BridgeInv, BridgeTypeOK
<1>2. call'[c] = R /\ call' \in [Calls -> CallRec] /\ \A d \in Calls : d # c => call'[d] = call[d]
  BY <1>1
<1>3. KeysKept /\ <<c, n>> \in Ids
  BY <1>2 DEF KeysKept, Ids
<1>4. wire' \subseteq Message /\ WireSound'
  <2>1. wire \subseteq Message /\ \A m \in wire : MessageSound(m)'
    BY <1>3, WireKept DEF world, BridgeInv, BridgeTypeOK
  <2>2. Request(<<c, n>>) \in Message
    BY <1>3 DEF Request, Message
  <2>3. MessageSound(Request(<<c, n>>))'
    BY <1>2, RequestSound
  <2> QED BY <2>1, <2>2, <2>3 DEF WireSound
<1>5. BridgeTypeOK'
  <2>1. pending' \subseteq Ids
    BY <1>1, <1>3
  <2> QED BY <1>1, <1>2, <1>3, <1>4, <2>1 DEF BridgeInv, BridgeTypeOK, world
<1>6. OpenWhileRunning' /\ AskedHaveKeys' /\ DelayFits'
  BY <1>2 DEF BridgeInv, OpenWhileRunning, DelayFits, AskedHaveKeys, Open
<1>7. JoinedShareKey' /\ InflightKeys' /\ OneLeaderPerKey'
  <2>1. ASSUME NEW d \in Calls
        PROVE  /\ Running(d)' <=> Running(d)
               /\ call'[d].cut = call[d].cut /\ call'[d].key = call[d].key
               /\ call'[d].pc = "joined" <=> call[d].pc = "joined"
               /\ call[d].pc = "joined" => call'[d].by = call[d].by
    <3>1. CASE d = c
      BY <1>2, <3>1 DEF Running
    <3>2. CASE d # c
      BY <1>2, <3>2 DEF Running
    <3> QED BY <3>1, <3>2
  <2>2. JoinedShareKey'
    BY <1>1, <1>3, <2>1 DEF BridgeInv, JoinedShareKey, KeysKept
  <2>3. InflightKeys'
    <3>1. inflight' = inflight /\ \A k \in Keys : inflight[k] # Nil => inflight[k] \in Calls
      BY DEF BridgeInv, BridgeTypeOK
    <3> QED BY <2>1, <3>1 DEF BridgeInv, InflightKeys
  <2>4. OneLeaderPerKey'
    <3>1. inflight' = inflight
      OBVIOUS
    <3> QED BY <2>1, <3>1 DEF BridgeInv, OneLeaderPerKey
  <2> QED BY <2>2, <2>3, <2>4
<1>10. AwaitedArePending' /\ CutLooksUp'
  <2>1. \A d \in Calls, i \in Nat : <<d, i>>[1] = d
    OBVIOUS
  <2>2. \A d \in Calls : call[d].n \in Nat
    BY <1>1, MaxAttemptsType DEF CallRec
  <2>3. ASSUME NEW d \in Calls, d # c
        PROVE  /\ call'[d].pc = "waiting" => <<d, call'[d].n>> \in pending'
               /\ call'[d].pc = "lookup" => <<d, 0>> \in pending'
    <3>1. call'[d] = call[d]
      BY <1>2, <2>3
    <3>2. call[d].pc = "waiting" => <<d, call[d].n>> \in pending
      BY DEF BridgeInv, AwaitedArePending
    <3>3. call[d].pc = "lookup" => <<d, 0>> \in pending
      BY DEF BridgeInv, AwaitedArePending
    <3>4. \A i \in Nat : <<d, i>> \in pending => <<d, i>> \in pending'
      BY <2>3
    <3> QED BY <2>2, <3>1, <3>2, <3>3, <3>4
  <2>4. /\ call'[c].pc = "waiting" => <<c, call'[c].n>> \in pending'
        /\ call'[c].pc = "lookup" => <<c, 0>> \in pending'
    BY <1>2
  <2>7. \A id \in storeIds' : id \in pending' /\ id[2] # 0
    OBVIOUS
  <2>8. ASSUME NEW d \in Calls
        PROVE  /\ call'[d].pc = "waiting" => <<d, call'[d].n>> \in pending'
               /\ call'[d].pc = "lookup" => <<d, 0>> \in pending'
    <3>1. CASE d = c
      <4>1. call'[d].n = call'[c].n /\ <<d, call'[d].n>> = <<c, call'[c].n>> /\ <<d, 0>> = <<c, 0>>
        BY <3>1
      <4> QED BY ONLY <2>4, <3>1, <4>1
    <3>2. CASE d # c
      BY <2>3, <3>2
    <3> QED BY <3>1, <3>2
  <2>5. AwaitedArePending'
    BY ONLY <2>7, <2>8 DEF AwaitedArePending
  <2>6. CutLooksUp'
    BY <1>2 DEF BridgeInv, CutLooksUp
  <2> QED BY <2>5, <2>6
<1>8. PendingWait'
  <2>1. \A id \in pending : id[1] \in Calls
    BY <1>1 DEF Ids
  <2> QED BY <1>2, <2>1 DEF BridgeInv, PendingWait
<1>9. PromiseStep
  <2>1. \A d \in Calls : Verdict(d)' = Verdict(d) /\ call'[d].key = call[d].key
    BY <1>2 DEF Verdict
  <2> QED BY <2>1, StutterIsStep DEF world
<1> QED BY <1>4, <1>5, <1>6, <1>7, <1>8, <1>9, <1>10 DEF BridgeInv

-----------------------------------------------------------------------------
LEMMA AttemptStep ==
    ASSUME BridgeInv, NEW c \in Calls, NEW n, <<c, n>> \in pending, n # 0,
           NEW res \in Results,
           res = "ok" => call[c].key \in stored,
           AttemptEnds(c, res), UNCHANGED <<flusher, active, world>>
    PROVE  BridgeInv' /\ PromiseStep
<1>1. /\ call[c].pc = "waiting" /\ call[c].n = n /\ n \in 0..MaxAttempts
      /\ pending \subseteq Ids /\ <<c, 0>> \in Ids
      /\ call[c] \in CallRec /\ deferred' = deferred /\ deferred \in Seq(Keys)
      /\ \A id \in pending : id = <<id[1], id[2]>>
      /\ storeIds' = storeIds \ {<<c, n>>} /\ storeIds = {id \in pending : id[2] # 0}
  BY MaxAttemptsType DEF BridgeInv, BridgeTypeOK, PendingWait, AwaitedArePending, AttemptEnds, Ids
<1> DEFINE closed == pending \ {<<c, n>>}
<1>2. closed \subseteq pending /\ \A id \in closed : id[1] # c
  BY <1>1 DEF BridgeInv, PendingWait
<1>6. storeIds' = {id \in closed : id[2] # 0} /\ \A id \in pending : id[1] # c => id \in closed
  BY <1>1
<1>3. CASE res = "ok" \/ ~Transient(res)
  <2>1. /\ call' = Ended(c, IF res = "ok" THEN Nil ELSE res, IF res = "ok" THEN "ok" ELSE "failed")
        /\ inflight' = Released(c) /\ pending' = closed /\ wire' = Live(wire, closed)
        /\ \A id \in pending' : id \in storeIds => id \in storeIds'
    BY <1>1, <1>3 DEF AttemptEnds, Retries, Transient
  <2>2. (IF res = "ok" THEN Nil ELSE res) \in Failures \cup {Nil}
        /\ (IF res = "ok" THEN "ok" ELSE "failed") \in {"ok", "failed"}
    BY DEF Results
  <2> HIDE DEF closed
  <2>3. PICK last \in Failures \cup {Nil}, out \in {"ok", "failed"} :
            last = (IF res = "ok" THEN Nil ELSE res) /\ out = IF res = "ok" THEN "ok" ELSE "failed"
    BY <2>2
  <2>4. /\ call' = Ended(c, last, out) /\ (out = "ok" => call[c].key \in stored)
        /\ deferred' \in Seq(Keys)
    BY <1>1, <2>1, <2>3
  <2>5. RequestsEnd(c)
    BY <1>1, <1>2, <1>6, <2>1 DEF RequestsEnd
  <2> QED BY <1>1, <2>1, <2>4, <2>5, EndStep
<1>4. CASE Retries(res, n)
  <2>1. /\ call' = [call EXCEPT ![c] = [call[c] EXCEPT !.pc = "delay", !.last = res]]
        /\ pending' = closed /\ wire' = Live(wire, closed) /\ inflight' = inflight
    BY ZenonT(40), <1>1, <1>4 DEF AttemptEnds, Retries, Transient
  <2>2. PICK R \in CallRec : R = [call[c] EXCEPT !.pc = "delay", !.last = res]
    BY <1>1, <1>4 DEF CallRec, Retries, Transient, Failures
  <2>3. R.pc = "delay" /\ R.key = call[c].key /\ R.out = call[c].out /\ R.n = n /\ R.cut = call[c].cut
    BY <1>1, <2>2 DEF CallRec
  <2>5. R.n < MaxAttempts
    BY <1>1, <1>4, <2>3, RetriesFit
  <2> HIDE DEF closed
  <2>4. MovesOn(c, R, n)
    BY <1>1, <2>1, <2>2, <2>3, <2>5 DEF MovesOn
  <2>6. RequestsMoveOn(c, R, n)
    BY <1>1, <1>2, <1>6, <2>1, <2>3 DEF RequestsMoveOn, Live
  <2> QED BY <1>1, <2>1, <2>4, <2>6, MoveStep
<1>5. CASE Transient(res) /\ ~Retries(res, n)
  <2>1. /\ call' = [call EXCEPT ![c] = [call[c] EXCEPT !.pc = "lookup", !.last = res]]
        /\ pending' = closed \cup {<<c, 0>>} /\ inflight' = inflight
        /\ wire' = Live(wire, closed) \cup {Request(<<c, 0>>)}
    BY <1>1, <1>5 DEF AttemptEnds, Transient
  <2>2. PICK R \in CallRec : R = [call[c] EXCEPT !.pc = "lookup", !.last = res]
    BY <1>1, <1>5 DEF CallRec, Transient, Failures
  <2>3. R.pc = "lookup" /\ R.key = call[c].key /\ R.out = call[c].out /\ R.cut = call[c].cut
    BY <1>1, <2>2 DEF CallRec
  <2>4. 0 \in 0..MaxAttempts
    BY MaxAttemptsType
  <2> HIDE DEF closed
  <2>5. MovesOn(c, R, 0)
    BY <1>1, <2>1, <2>2, <2>3, <2>4 DEF MovesOn
  <2>6. RequestsMoveOn(c, R, 0)
    BY <1>1, <1>2, <1>6, <2>1, <2>3 DEF RequestsMoveOn, Live
  <2> QED BY <1>1, <2>1, <2>5, <2>6, MoveStep
<1> QED BY <1>1, <1>3, <1>4, <1>5 DEF AttemptEnds

LEMMA LookupStep ==
    ASSUME BridgeInv, NEW c \in Calls, <<c, 0>> \in pending, NEW hit \in BOOLEAN,
           hit => call[c].key \in stored,
           LookupEnds(c, hit), UNCHANGED <<flusher, active, world>>
    PROVE  BridgeInv' /\ PromiseStep
<1>1. /\ call[c].pc = "lookup" /\ call[c] \in CallRec /\ deferred \in Seq(Keys)
      /\ \A id \in pending : id = <<id[1], id[2]>>
  BY DEF BridgeInv, BridgeTypeOK, PendingWait, Ids
<1>2. call[c].key \in Keys
  BY <1>1 DEF BridgeInv, AskedHaveKeys
<1>3. deferred' \in Seq(Keys)
  <2>1. CASE Len(deferred) < MaxDeferred
    BY <1>1, <1>2, <2>1 DEF LookupEnds, Deferred
  <2>2. CASE ~(Len(deferred) < MaxDeferred)
    <3>1. Len(deferred) >= 1
      BY <1>1, <2>2, BridgeAssumption
    <3>2. Tail(deferred) \in Seq(Keys)
      BY <1>1, <3>1
    <3> QED BY <1>1, <1>2, <2>2, <3>2 DEF LookupEnds, Deferred
  <2> QED BY <2>1, <2>2
<1>4. RequestsEnd(c)
  BY <1>1 DEF RequestsEnd, LookupEnds, BridgeInv, PendingWait, AwaitedArePending
<1>5. PICK out \in {"ok", "failed"} : out = IF hit THEN "ok" ELSE "failed"
  OBVIOUS
<1>6. /\ call' = Ended(c, call[c].last, out) /\ inflight' = Released(c)
      /\ wire' = Live(wire, pending \ {<<c, 0>>})
      /\ call[c].last \in Failures \cup {Nil}
  BY <1>1, <1>5 DEF LookupEnds, CallRec
<1> QED BY <1>1, <1>3, <1>4, <1>5, <1>6, EndStep

LEMMA SettleStep ==
    ASSUME BridgeInv, NEW id, NEW res, Settles(id, res),
           id[2] # 0 => res \in Results /\ (res = "ok" => call[id[1]].key \in stored),
           id[2] = 0 => (res = "hit" => call[id[1]].key \in stored)
    PROVE  BridgeInv' /\ PromiseStep
<1>1. id \in pending /\ id = <<id[1], id[2]>> /\ id[1] \in Calls
  BY DEF Settles, BridgeInv, BridgeTypeOK, Ids
<1>2. CASE id[2] # 0
  BY <1>1, <1>2, AttemptStep DEF Settles
<1>3. CASE id[2] = 0
  <2>1. PICK hit \in BOOLEAN : hit = (res = "hit")
    OBVIOUS
  <2>2. <<id[1], 0>> \in pending /\ LookupEnds(id[1], hit) /\ UNCHANGED <<flusher, active, world>>
    BY <1>1, <1>3, <2>1 DEF Settles
  <2> QED BY <1>1, <1>3, <2>1, <2>2, LookupStep
<1> QED BY <1>2, <1>3

LEMMA RetryStep ==
    ASSUME BridgeInv, NEW c \in Calls, RetryPosts(c)
    PROVE  BridgeInv' /\ PromiseStep
<1>1. call[c] \in CallRec /\ call \in [Calls -> CallRec] /\ call[c].pc = "delay"
      /\ storeIds = {id \in pending : id[2] # 0} /\ \A id \in pending : id[1] # c
  BY DEF BridgeInv, BridgeTypeOK, RetryPosts, PendingWait, AwaitedArePending
<1>2. PICK n \in 0..MaxAttempts : n = call[c].n + 1
  BY <1>1, MaxAttemptsType DEF BridgeInv, DelayFits, CallRec
<1>3. n # 0 /\ <<c, n>> \in Ids
  BY <1>1, <1>2 DEF CallRec, Ids
<1>4. PICK R \in CallRec : R = [call[c] EXCEPT !.pc = "waiting", !.n = n]
  BY <1>1 DEF CallRec
<1>5. R.pc = "waiting" /\ R.n = n /\ R.key = call[c].key /\ R.out = call[c].out /\ R.cut = call[c].cut
  BY <1>1, <1>4 DEF CallRec
<1>6. call' = [call EXCEPT ![c] = R]
  BY <1>1, <1>2, <1>4 DEF RetryPosts
<1>7. MovesOn(c, R, n)
  BY <1>1, <1>3, <1>5, <1>6 DEF MovesOn
<1>8. RequestsMoveOn(c, R, n)
  <2>1. /\ pending' = pending \cup {<<c, n>>} /\ storeIds' = storeIds \cup {<<c, n>>}
        /\ wire' = wire \cup {Request(<<c, n>>)}
    BY <1>2 DEF RetryPosts, Posted
  <2> QED BY <1>1, <1>3, <1>5, <2>1 DEF RequestsMoveOn
<1> QED BY <1>7, <1>8, MoveStep DEF RetryPosts

-----------------------------------------------------------------------------
(* The runs in S are aborted with their joiners; cut runs go on. *)
LEMMA TeardownStep ==
    ASSUME BridgeInv, Teardown PROVE BridgeInv' /\ PromiseStep
<1> DEFINE leaders == {inflight[k] : k \in Keys} \ {Nil}
<1> DEFINE stopped == {c \in leaders : call[c].pc \in {"waiting", "delay"}}
<1> DEFINE S == {d \in Calls : d \in stopped \/ (call[d].pc = "joined" /\ call[d].by \in stopped)}
<1>1. /\ call \in [Calls -> CallRec] /\ pending \subseteq Ids
      /\ leaders \subseteq Calls
  BY DEF BridgeInv, BridgeTypeOK
<1>2. /\ call' = [d \in Calls |->
             IF d \in S THEN [call[d] EXCEPT !.pc = "done", !.out = "aborted"]
             ELSE IF d \in leaders THEN [call[d] EXCEPT !.cut = TRUE] ELSE call[d]]
      /\ pending' = pending \ storeIds /\ storeIds' = {} /\ wire' = Live(wire, pending')
      /\ inflight' = [k \in Keys |-> Nil]
      /\ UNCHANGED <<deferred, flusher, active, world>>
  BY DEF Teardown
<1>3. \A d \in S : d \in Calls /\ call[d].pc \in {"waiting", "delay", "joined"}
  OBVIOUS
<1> HIDE DEF leaders, stopped, S
<1>5. /\ \A d \in S : call'[d] \in CallRec /\ call'[d].pc = "done" /\ call'[d].out = "aborted"
                      /\ call'[d].key = call[d].key
      /\ \A d \in Calls \ S : /\ call'[d] \in CallRec
                              /\ call'[d].pc = call[d].pc /\ call'[d].out = call[d].out
                              /\ call'[d].key = call[d].key /\ call'[d].n = call[d].n
                              /\ call'[d].by = call[d].by
                              /\ call'[d].cut => call[d].cut \/ d \in leaders
  <2>1. ASSUME NEW d \in Calls, d \in S
        PROVE  /\ call'[d] \in CallRec /\ call'[d].pc = "done" /\ call'[d].out = "aborted"
               /\ call'[d].key = call[d].key
    <3>1. call'[d] = [call[d] EXCEPT !.pc = "done", !.out = "aborted"] /\ call[d] \in CallRec
      BY <1>1, <1>2, <2>1
    <3> QED BY <3>1 DEF CallRec
  <2>2. ASSUME NEW d \in Calls, d \notin S, d \in leaders
        PROVE  /\ call'[d] \in CallRec
               /\ call'[d].pc = call[d].pc /\ call'[d].out = call[d].out
               /\ call'[d].key = call[d].key /\ call'[d].n = call[d].n
               /\ call'[d].by = call[d].by
    <3>1. call'[d] = [call[d] EXCEPT !.cut = TRUE] /\ call[d] \in CallRec
      BY <1>1, <1>2, <2>2
    <3> QED BY <3>1 DEF CallRec
  <2>3. ASSUME NEW d \in Calls, d \notin S, d \notin leaders
        PROVE  call'[d] = call[d] /\ call[d] \in CallRec
    BY <1>1, <1>2, <2>3
  <2> QED BY <1>3, <2>1, <2>2, <2>3
<1>6. KeysKept
  BY <1>3, <1>5 DEF KeysKept
<1>7. BridgeTypeOK'
  <2>1. call' \in [Calls -> CallRec]
    BY <1>2, <1>5
  <2>2. wire' \subseteq Message
    BY <1>2, <1>6, LiveKept DEF world
  <2> QED BY <1>2, <2>1, <2>2 DEF BridgeInv, BridgeTypeOK, world
<1>8. OpenWhileRunning' /\ AskedHaveKeys' /\ DelayFits'
  BY <1>3, <1>5, <1>6 DEF BridgeInv, OpenWhileRunning, AskedHaveKeys, DelayFits, Open, KeysKept
<1>9. JoinedShareKey'
  BY <1>3, <1>5, <1>6 DEF BridgeInv, JoinedShareKey, KeysKept
<1>10. InflightKeys'
  BY <1>2 DEF InflightKeys
<1>14. ASSUME NEW d \in Calls, d \notin S, Running(d) PROVE call[d].pc = "lookup" /\ call'[d].cut
  <2>1. CASE call[d].cut
    <3>1. call[d].pc = "lookup"
      BY <1>14, <2>1 DEF BridgeInv, CutLooksUp, Running
    <3>2. call'[d].cut
      BY <1>1, <1>2, <1>14, <2>1 DEF CallRec
    <3> QED BY <3>1, <3>2
  <2>2. CASE ~call[d].cut
    <3>1. call[d].key \in Keys /\ inflight[call[d].key] = d
      BY <1>14, <2>2 DEF BridgeInv, AskedHaveKeys, OneLeaderPerKey, Running
    <3>2. d \in leaders /\ d \notin stopped
      BY <1>14, <3>1, BridgeAssumption DEF leaders, S
    <3>3. call[d].pc = "lookup"
      BY <1>14, <3>2 DEF stopped, Running
    <3>4. call'[d] = [call[d] EXCEPT !.cut = TRUE] /\ call[d] \in CallRec
      BY <1>1, <1>2, <1>14, <3>2
    <3> QED BY <3>3, <3>4 DEF CallRec
  <2> QED BY <2>1, <2>2
<1>15. OneLeaderPerKey'
  BY <1>5, <1>14 DEF OneLeaderPerKey, Running
<1>16. AwaitedArePending' /\ CutLooksUp'
  <2>1. ASSUME NEW d \in Calls
        PROVE  /\ call'[d].pc # "waiting"
               /\ call'[d].pc = "lookup" => <<d, 0>> \in pending'
    <3>1. call'[d].pc # "waiting"
      BY <1>5, <1>14 DEF Running
    <3>2. call'[d].pc = "lookup" => call[d].pc = "lookup"
      BY <1>5
    <3>3. <<d, 0>>[2] = 0
      OBVIOUS
    <3> QED BY <1>2, <3>1, <3>2, <3>3 DEF BridgeInv, AwaitedArePending
  <2>2. AwaitedArePending'
    BY <1>2, <2>1 DEF AwaitedArePending
  <2>3. ASSUME NEW d \in Calls, call'[d].cut PROVE call'[d].pc \in {"lookup", "done"}
    <3>1. CASE d \in S
      BY <1>5, <3>1
    <3>2. CASE d \notin S /\ call[d].cut
      BY <1>5, <3>2 DEF BridgeInv, CutLooksUp
    <3>3. CASE d \notin S /\ d \in leaders
      <4>1. Running(d)
        BY <3>3 DEF leaders, BridgeInv, InflightKeys
      <4> QED BY <1>5, <1>14, <3>3, <4>1
    <3> QED BY <1>5, <2>3, <3>1, <3>2, <3>3
  <2> QED BY <2>2, <2>3 DEF CutLooksUp
<1>11. PendingWait'
  <2>1. ASSUME NEW id \in pending' PROVE id \in pending /\ id[1] \in Calls /\ id \notin storeIds
    BY <1>1, <1>2 DEF Ids
  <2>2. ASSUME NEW id \in pending' PROVE id[1] \notin S
    <3>1. CASE id[2] = 0
      BY <1>3, <2>1, <3>1 DEF BridgeInv, PendingWait
    <3>2. CASE id[2] # 0
      BY <1>3, <2>1, <3>2 DEF BridgeInv, PendingWait
    <3> QED BY <3>1, <3>2
  <2> QED BY <1>5, <2>1, <2>2 DEF BridgeInv, PendingWait
<1>12. WireSound'
  BY <1>2, <1>6, LiveKept DEF WireSound, world
<1>13. PromiseStep
  <2>1. \A d \in S : Verdict(d) = "open" /\ Verdict(d)' = "failed"
    BY <1>3, <1>5 DEF Verdict, BridgeInv, OpenWhileRunning, Open
  <2>2. \A d \in Calls \ S : Verdict(d)' = Verdict(d)
    BY <1>5 DEF Verdict
  <2>3. \A d \in Calls : call'[d].key = call[d].key
    BY <1>3, <1>5
  <2>4. [d \in Calls |-> Verdict(d)'] = [d \in Calls |-> IF d \in S THEN "failed" ELSE Verdict(d)]
    BY <2>1, <2>2
  <2>5. S \in SUBSET Calls
    BY <1>3
  <2>6. Promise!Answer(S, "failed")
    BY <1>2, <1>3, <2>1, <2>3, <2>4 DEF Promise!Answer, world
  <2> QED BY <2>5, <2>6, AnswerIsStep
<1> QED BY <1>7, <1>8, <1>9, <1>10, <1>11, <1>12, <1>13, <1>15, <1>16 DEF BridgeInv

-----------------------------------------------------------------------------
(* The relay and the background move messages and leave the calls alone. *)
LEMMA WireStep ==
    ASSUME BridgeInv, UNCHANGED page, orphaned' \in BOOLEAN,
           relay' \in {"absent", "active", "dead", "superseded"},
           stored' = stored,
           wire' \subseteq Message, \A m \in wire' : m \in wire \/ MessageSound(m)'
    PROVE  BridgeInv' /\ PromiseStep
<1>1. KeysKept
  BY DEF KeysKept, page
<1>2. WireSound'
  BY <1>1, WireKept DEF WireSound
<1>3. BridgeTypeOK'
  BY DEF BridgeInv, BridgeTypeOK, page
<1>4. TablesSound'
  BY TablesKept DEF page
<1>5. PromiseStep
  BY StutterIsStep DEF page, Verdict
<1> QED BY <1>2, <1>3, <1>4, <1>5 DEF BridgeInv, TablesSound

(* A reply that does not say yes, or says yes of a stored chunk, is sound. *)
LEMMA AnsweredSound ==
    ASSUME BridgeInv, NEW m \in wire, NEW res \in Results \cup {"hit", "miss"},
           m.id[2] = 0 <=> res \in {"hit", "miss"},
           res \in {"ok", "hit"} => KeyOf(m.id) \in stored', UNCHANGED call,
           Answered(m, res)
    PROVE  wire' \subseteq Message /\ \A n \in wire' : n \in wire \/ MessageSound(n)'
<1>1. m \in Message /\ m.id \in Ids /\ call[m.id[1]].pc # "unasked"
  BY DEF BridgeInv, BridgeTypeOK, WireSound, MessageSound, Message
<1>2. Reply(m.id, res) \in Message
  BY <1>1, MessageTypes
<1>3. MessageSound(Reply(m.id, res))'
  BY <1>1 DEF MessageSound, Reply, KeyOf
<1>4. wire' \subseteq wire \cup {Reply(m.id, res)}
  BY DEF Answered, Live
<1> QED BY <1>2, <1>3, <1>4 DEF BridgeInv, BridgeTypeOK

LEMMA UnsentSound ==
    ASSUME BridgeInv, NEW m \in wire, NEW res \in Failures, UNCHANGED <<call, stored>>,
           Unsent(m, res)
    PROVE  wire' \subseteq Message /\ \A n \in wire' : n \in wire \/ MessageSound(n)'
<1>1. PICK r \in Results \cup {"hit", "miss"} : r = IF m.id[2] = 0 THEN "miss" ELSE res
  BY DEF Results
<1>2. Answered(m, r) /\ (m.id[2] = 0 <=> r \in {"hit", "miss"}) /\ r \notin {"ok", "hit"}
  BY <1>1 DEF Unsent, Failures
<1> QED BY <1>2, AnsweredSound

LEMMA RelayStep ==
    ASSUME BridgeInv, NEW m \in wire, RelayTakes(m) PROVE BridgeInv' /\ PromiseStep
<1>1. /\ relay \in {"absent", "active", "dead", "superseded"} /\ orphaned \in BOOLEAN
      /\ wire \subseteq Message /\ m \in Message
      /\ UNCHANGED <<page, orphaned, stored>> /\ UNCHANGED call
  BY DEF BridgeInv, BridgeTypeOK, RelayTakes, page
<1>2. CASE wire' = wire \ {m} /\ UNCHANGED relay
  BY <1>1, <1>2, WireStep
<1>3. CASE wire' = (wire \ {m}) \cup {[m EXCEPT !.at = "background"]} /\ UNCHANGED relay /\ m.at = "relay"
  <2>1. [m EXCEPT !.at = "background"] \in Message
    BY <1>1, <1>3 DEF Message
  <2>2. MessageSound([m EXCEPT !.at = "background"])'
    BY <1>1, <1>3 DEF MessageSound, Message, BridgeInv, WireSound
  <2> QED BY <1>1, <1>3, <2>1, <2>2, WireStep
<1>4. ASSUME NEW res \in Failures, Unsent(m, res), relay' \in {relay, "dead"}
      PROVE  BridgeInv' /\ PromiseStep
  BY <1>1, <1>4, UnsentSound, WireStep
<1>5. \A res \in {"refused", "invalidated", "transient", "unreachable"} : res \in Failures
  BY DEF Failures
<1> QED BY <1>2, <1>3, <1>4, <1>5 DEF RelayTakes

LEMMA BackgroundStep ==
    ASSUME BridgeInv, NEW m \in wire, BackgroundFails(m) \/ BackgroundLooksUp(m)
    PROVE  BridgeInv' /\ PromiseStep
<1>1. UNCHANGED <<page, relay, orphaned, stored>> /\ UNCHANGED call
      /\ relay \in {"absent", "active", "dead", "superseded"} /\ orphaned \in BOOLEAN
  BY DEF BridgeInv, BridgeTypeOK, BackgroundFails, BackgroundLooksUp, page, world
<1>2. PICK res \in Results \cup {"hit", "miss"} :
          /\ Answered(m, res) /\ (m.id[2] = 0 <=> res \in {"hit", "miss"})
          /\ res \in {"ok", "hit"} => KeyOf(m.id) \in stored
  BY DEF BackgroundFails, BackgroundLooksUp, Results, Failures
<1> QED BY <1>1, <1>2, AnsweredSound, WireStep

LEMMA StoreStep ==
    ASSUME BridgeInv, NEW m \in wire, BackgroundStores(m) PROVE BridgeInv' /\ PromiseStep
<1>1. PICK res \in {"ok", "transient"} : Answered(m, res)
  BY DEF BackgroundStores
<1>2. /\ m.id[2] # 0 /\ m.id[1] \in Calls /\ call[m.id[1]].pc # "unasked"
      /\ stored' = stored \cup {KeyOf(m.id)} /\ UNCHANGED <<page, relay, orphaned>> /\ UNCHANGED call
  BY DEF BackgroundStores, BridgeInv, BridgeTypeOK, WireSound, MessageSound, Message, Ids, page
<1>3. KeyOf(m.id) \in Keys
  BY <1>2 DEF KeyOf, BridgeInv, AskedHaveKeys
<1>4. wire' \subseteq Message /\ \A n \in wire' : n \in wire \/ MessageSound(n)'
  BY <1>1, <1>2, AnsweredSound DEF Results, Failures
<1>5. KeysKept
  BY <1>2 DEF KeysKept
<1>6. WireSound'
  BY <1>2, <1>4, <1>5, WireKept DEF WireSound
<1>7. BridgeTypeOK'
  BY <1>2, <1>3, <1>4 DEF BridgeInv, BridgeTypeOK, page
<1>8. TablesSound'
  BY <1>2, TablesKept DEF page
<1>9. PromiseStep
  <2>1. PICK k \in Keys : k = KeyOf(m.id)
    BY <1>3
  <2>2. Promise!Store(k)
    BY <1>2, <2>1 DEF Promise!Store, KeyOf, Verdict
  <2>3. Promise!PromiseNext
    BY <2>2, Zenon DEF Promise!PromiseNext
  <2> QED BY <2>3 DEF PromiseStep
<1> QED BY <1>6, <1>7, <1>8, <1>9 DEF BridgeInv, TablesSound

-----------------------------------------------------------------------------
LEMMA FlushStep ==
    ASSUME BridgeInv, NEW f \in Flushers, FlushBegins(f) \/ FlushGoesOn(f)
    PROVE  BridgeInv' /\ PromiseStep
<1>1. /\ deferred \in Seq(Keys) /\ flusher \in [Flushers -> FlusherRec] /\ flusher[f] \in FlusherRec
      /\ flusher[f].batch \in Seq(Keys)
  BY DEF BridgeInv, BridgeTypeOK, FlusherRec
<1>2. CASE FlushBegins(f)
  <2>1. PICK c \in Calls : Asked(c, Head(deferred))
                         /\ flusher' = [flusher EXCEPT ![f] = [batch |-> Tail(deferred), cur |-> c]]
    BY <1>2 DEF FlushBegins
  <2>2. Head(deferred) \in Keys /\ Tail(deferred) \in Seq(Keys)
    BY <1>1, <1>2 DEF FlushBegins
  <2>3. flusher' \in [Flushers -> FlusherRec]
    BY <1>1, <2>1, <2>2 DEF FlusherRec
  <2>4. deferred' \in Seq(Keys) /\ UNCHANGED <<active, world>>
    BY <1>2 DEF FlushBegins
  <2> QED BY <2>1, <2>2, <2>3, <2>4, AskStep
<1>3. CASE FlushGoesOn(f) /\ flusher[f].batch # <<>>
  <2>1. PICK c \in Calls : Asked(c, Head(flusher[f].batch))
             /\ flusher' = [flusher EXCEPT ![f] = [batch |-> Tail(flusher[f].batch), cur |-> c]]
    BY <1>3 DEF FlushGoesOn
  <2>2. Head(flusher[f].batch) \in Keys /\ Tail(flusher[f].batch) \in Seq(Keys)
    BY <1>1, <1>3
  <2>3. flusher' \in [Flushers -> FlusherRec]
    BY <1>1, <2>1, <2>2 DEF FlusherRec
  <2>4. deferred' \in Seq(Keys) /\ UNCHANGED <<active, world>>
    BY <1>1, <1>3 DEF FlushGoesOn
  <2> QED BY <2>1, <2>2, <2>3, <2>4, AskStep
<1>4. CASE FlushGoesOn(f) /\ flusher[f].batch = <<>>
  <2>1. /\ flusher' = [flusher EXCEPT ![f] = IdleFlusher]
        /\ UNCHANGED <<call, inflight, pending, storeIds, wire, deferred, active, world>>
    BY <1>4 DEF FlushGoesOn
  <2>2. BridgeTypeOK'
    BY <1>1, <2>1, FreshIsCall DEF BridgeInv, BridgeTypeOK, world
  <2>3. KeysKept
    BY <2>1 DEF KeysKept
  <2>4. WireSound'
    BY <2>1, <2>3, WireKept DEF WireSound, world
  <2>5. TablesSound'
  BY <2>1, TablesKept DEF page
<2>6. PromiseStep
    BY <2>1, StutterIsStep DEF world, Verdict
  <2> QED BY <2>2, <2>4, <2>5, <2>6 DEF BridgeInv, TablesSound
<1> QED BY <1>2, <1>3, <1>4

LEMMA QuietStep ==
    ASSUME BridgeInv, Activate \/ UNCHANGED vars PROVE BridgeInv' /\ PromiseStep
<1>1. /\ UNCHANGED <<call, inflight, pending, storeIds, deferred, flusher, wire, world>>
      /\ active' \in BOOLEAN
  BY DEF Activate, vars, page, BridgeInv, BridgeTypeOK
<1>2. BridgeTypeOK'
  BY <1>1 DEF BridgeInv, BridgeTypeOK, world
<1>3. KeysKept
  BY <1>1 DEF KeysKept
<1>4. WireSound'
  BY <1>1, <1>3, WireKept DEF WireSound, world
<1>5. TablesSound'
  BY <1>1, TablesKept DEF page
<1>6. PromiseStep
  BY <1>1, StutterIsStep DEF world, Verdict
<1> QED BY <1>2, <1>4, <1>5, <1>6 DEF BridgeInv, TablesSound

LEMMA BridgeStep ==
    ASSUME BridgeInv, [BridgeNext]_vars PROVE BridgeInv' /\ PromiseStep
<1>1. ASSUME NEW c \in Calls, NEW k \in Keys, Ask(c, k) PROVE BridgeInv' /\ PromiseStep
  <2>1. deferred' \in Seq(Keys) /\ flusher' \in [Flushers -> FlusherRec]
    BY <1>1 DEF Ask, BridgeInv, BridgeTypeOK
  <2> QED BY <1>1, <2>1, AskStep DEF Ask
<1>2. ASSUME NEW m \in wire, PageHears(m) PROVE BridgeInv' /\ PromiseStep
  <2>1. m \in Message /\ MessageSound(m) /\ m.at = "page"
    BY <1>2 DEF BridgeInv, BridgeTypeOK, WireSound, PageHears
  <2>2. m.id[2] # 0 => m.res \in Results
    BY <2>1 DEF Message, MessageSound
  <2> QED BY <1>2, <2>1, <2>2, SettleStep DEF PageHears, MessageSound
<1>3. ASSUME NEW id \in pending, RequestTimesOut(id) PROVE BridgeInv' /\ PromiseStep
  <2>1. PICK res \in {"miss", "transient"} : res = IF id[2] = 0 THEN "miss" ELSE "transient"
    OBVIOUS
  <2>2. Settles(id, res) /\ (id[2] # 0 => res \in Results) /\ res \notin {"ok", "hit"}
    BY <1>3, <2>1 DEF RequestTimesOut, Results, Failures
  <2> QED BY <2>2, SettleStep
<1>4. Inject \/ Reload => BridgeInv' /\ PromiseStep
  <2> SUFFICES ASSUME Inject \/ Reload PROVE BridgeInv' /\ PromiseStep
    OBVIOUS
  <2>1. /\ UNCHANGED page /\ orphaned' \in BOOLEAN /\ stored' = stored /\ wire' = wire
        /\ relay' \in {"absent", "active", "dead", "superseded"} /\ wire \subseteq Message
    BY DEF Inject, Reload, BridgeInv, BridgeTypeOK
  <2> QED BY <2>1, WireStep
<1> QED
  BY <1>1, <1>2, <1>3, <1>4, RelayStep, BackgroundStep, StoreStep, RetryStep, TeardownStep,
     FlushStep, QuietStep
  DEF BridgeNext

-----------------------------------------------------------------------------
(* The page's state is well-typed in every run: of the in-flight table, the
   requests and the flush of deferred stores (core.js). *)
THEOREM TypeCorrect == BridgeSpec => []BridgeTypeOK
<1>1. BridgeInit => BridgeInv
  BY InitBridge
<1>2. BridgeInv /\ [BridgeNext]_vars => BridgeInv'
  BY BridgeStep
<1>3. BridgeInv => BridgeTypeOK
  BY DEF BridgeInv
<1> QED BY <1>1, <1>2, <1>3, PTL DEF BridgeSpec

(* storeChunkFromPage keeps the promise of StoreCalls for every number of
   calls, every set of keys and every retry ladder. *)
THEOREM ImplementsPromise == BridgeSpec => KeepsPromise
<1>1. BridgeInit => BridgeInv /\ Promise!PromiseInit
  BY InitBridge
<1>2. BridgeInv /\ [BridgeNext]_vars => BridgeInv' /\ [Promise!PromiseNext]_(Promise!promise)
  BY BridgeStep DEF PromiseStep
<1> QED BY <1>1, <1>2, PTL DEF BridgeSpec, KeepsPromise, Promise!PromiseSpec

(* The tables of core.js describe the same requests, in every run: a resolver,
   a store id and a waiting call stand or fall together. *)
THEOREM TablesAgree == BridgeSpec => []PendingAreAwaited
<1>1. BridgeInit => BridgeInv
  BY InitBridge
<1>2. BridgeInv /\ [BridgeNext]_vars => BridgeInv'
  BY BridgeStep
<1>3. ASSUME BridgeInv PROVE PendingAreAwaited
  <2> DEFINE W == {<<c, call[c].n>> : c \in {d \in Calls : call[d].pc = "waiting"}}
  <2> DEFINE L == {<<c, 0>> : c \in {d \in Calls : call[d].pc = "lookup"}}
  <2>1. ASSUME NEW id \in pending PROVE id \in W \cup L
    <3>1. id = <<id[1], id[2]>> /\ id[1] \in Calls
      BY <1>3 DEF BridgeInv, BridgeTypeOK, Ids
    <3>2. CASE id[2] = 0
      BY <1>3, <3>1, <3>2 DEF BridgeInv, PendingWait
    <3>3. CASE id[2] # 0
      BY <1>3, <3>1, <3>3 DEF BridgeInv, PendingWait
    <3> QED BY <3>2, <3>3
  <2>2. W \cup L \subseteq pending
    <3>1. W \subseteq pending
      <4>1. \A c \in Calls : call[c].pc = "waiting" => <<c, call[c].n>> \in pending
        BY <1>3 DEF BridgeInv, AwaitedArePending
      <4>2. ASSUME NEW w \in W PROVE w \in pending
        <5>1. PICK c \in Calls : call[c].pc = "waiting" /\ w = <<c, call[c].n>>
          BY <4>2
        <5> QED BY <4>1, <5>1
      <4> QED BY <4>2
    <3>2. L \subseteq pending
      BY <1>3 DEF BridgeInv, AwaitedArePending
    <3> QED BY <3>1, <3>2
  <2>3. storeIds = {id \in pending : id[2] # 0}
    BY <1>3 DEF BridgeInv, AwaitedArePending, PendingWait
  <2> HIDE DEF W, L
  <2>4. pending = W \cup L
    BY <2>1, <2>2
  <2> QED BY <2>3, <2>4 DEF PendingAreAwaited, W, L
<1> QED BY <1>1, <1>2, <1>3, PTL DEF BridgeSpec

(* At most one uncut run per key, in every run of the page: the end of a run
   that a teardown cut off never releases its successor's entry. *)
THEOREM LeadersUnique == BridgeSpec => []OneLeaderPerKey
<1>1. BridgeInit => BridgeInv
  BY InitBridge
<1>2. BridgeInv /\ [BridgeNext]_vars => BridgeInv'
  BY BridgeStep
<1>3. BridgeInv => OneLeaderPerKey
  BY DEF BridgeInv
<1> QED BY <1>1, <1>2, <1>3, PTL DEF BridgeSpec

-----------------------------------------------------------------------------
(* PlayerRequests. *)

ReqRec == [pc : Pcs, range : Ranges, rung : 1 .. Top, asked : BOOLEAN,
           taps : BOOLEAN, cut : {"no", "lookup", "join", "ladder", "native"},
           loads : Nat, bytes : Bytes \cup {None}, status : {0, 200, 206}]
CaptureRec == [key : CacheKeys \cup {None}, bytes : Bytes \cup {None}, read : BOOLEAN]
Store == [CacheKeys -> Bytes \cup {None}]

(* A request that is not done has been given nothing and was not told that it
   is aborted; one that is done has been given one answer at most, and none
   when it was aborted with its lookup out. *)
Heard(rec) ==
    /\ rec.pc # "done" => rec.loads = 0 /\ rec.cut # "lookup" /\ rec.bytes = None
    /\ rec.loads <= (IF rec.cut = "lookup" THEN 0 ELSE 1)

HeardInv == PlayerTypeOK /\ \A r \in Requests : Heard(req[r])

(* A step of one request replaces its record. *)
Turns(r, new) == req' = [req EXCEPT ![r] = new]

LEMMA TopIs == Top = 9
BY DEF Top, Rungs

LEMMA AboveType == \A rung \in 1 .. Top : Above(rung) \subseteq 1 .. Top
BY TopIs DEF Above

LEMMA KeyType == \A range \in Ranges : CacheKeyOf(range) \in CacheKeys /\ Named(range) \in Bytes
BY DEF CacheKeyOf, CacheKeys, Named, Bytes, Ranges

LEMMA RightType == \A k \in CacheKeys : Right(k) \in Bytes
BY DEF CacheKeys, Right, Bytes

LEMMA PutType ==
    ASSUME NEW s \in Store, NEW k, NEW b \in Bytes \cup {None}
    PROVE  Put(s, k, b) \in Store
BY DEF Store, Put

LEMMA StatusType ==
    /\ \A r : CachedStatus(r) \in {0, 200, 206}
    /\ \A range, bytes : StatusOf(range, bytes) \in {0, 200, 206}
BY DEF CachedStatus, StatusOf

(* A request at work is given an answer, and is done. *)
Given(rec, b, st) == [rec EXCEPT !.pc = "done", !.bytes = b, !.status = st, !.loads = @ + 1]

LEMMA GivenHeard ==
    ASSUME NEW rec \in ReqRec, Heard(rec), rec.pc # "done",
           NEW b \in Bytes \cup {None}, NEW st \in {0, 200, 206}
    PROVE  Given(rec, b, st) \in ReqRec /\ Heard(Given(rec, b, st))
<1> DEFINE new == Given(rec, b, st)
<1>1. new \in ReqRec
  <2>1. "done" \in Pcs
    BY DEF Pcs
  <2>2. rec.loads + 1 \in Nat
    BY DEF ReqRec
  <2> QED BY ZenonT(40), <2>1, <2>2 DEF ReqRec, Given
<1>2. new.pc = "done" /\ new.loads = rec.loads + 1 /\ new.cut = rec.cut
  BY DEF ReqRec, Given
<1>3. rec.loads = 0 /\ rec.cut # "lookup"
  BY DEF Heard
<1> QED BY <1>1, <1>2, <1>3 DEF Heard

(* A request at work goes on, or ends, with nothing given. *)
Gone(rec, pc, range, rung, asked, taps, cut) ==
    [rec EXCEPT !.pc = pc, !.range = range, !.rung = rung, !.asked = asked,
                !.taps = taps, !.cut = cut]
Cuts == {"no", "lookup", "join", "ladder", "native"}

LEMMA GoesHeard ==
    ASSUME NEW rec \in ReqRec, Heard(rec), rec.pc # "done", NEW pc \in Pcs,
           NEW range \in Ranges, NEW rung \in 1 .. Top, NEW asked \in BOOLEAN,
           NEW taps \in BOOLEAN, NEW cut \in Cuts, cut = "lookup" => pc = "done"
    PROVE  LET new == Gone(rec, pc, range, rung, asked, taps, cut)
           IN  new \in ReqRec /\ Heard(new)
<1> DEFINE new == Gone(rec, pc, range, rung, asked, taps, cut)
<1>1. new \in ReqRec
  BY ZenonT(40) DEF ReqRec, Gone, Cuts
<1>2. new.pc = pc /\ new.cut = cut /\ new.loads = rec.loads /\ new.bytes = rec.bytes
  BY DEF ReqRec, Gone
<1>3. rec.loads = 0 /\ rec.bytes = None
  BY DEF Heard
<1> QED BY <1>1, <1>2, <1>3 DEF Heard

StepHeard(r) == \E new \in ReqRec : Turns(r, new) /\ Heard(new)

LEMMA ReqType ==
    ASSUME HeardInv
    PROVE  /\ req \in [Requests -> ReqRec] /\ hot \in Store /\ disk \in Store
           /\ backfill \in Store /\ capture \in [Requests -> CaptureRec]
           /\ \A r \in Requests : Heard(req[r]) /\ Key(r) \in CacheKeys
<1>1. req \in [Requests -> ReqRec]
  BY DEF HeardInv, PlayerTypeOK, ReqRec
<1>2. \A r \in Requests : req[r].range \in Ranges
  BY <1>1 DEF ReqRec
<1>3. \A r \in Requests : Key(r) \in CacheKeys
  BY <1>2, KeyType DEF Key
<1> QED BY <1>1, <1>3 DEF HeardInv, PlayerTypeOK, Store, CaptureRec

LEMMA ServedHeard ==
    ASSUME HeardInv, NEW r \in Requests, req[r].pc # "done",
           NEW b \in Bytes \cup {None}, NEW st \in {0, 200, 206}, Served(r, b, st)
    PROVE  StepHeard(r)
<1>1. Given(req[r], b, st) \in ReqRec /\ Heard(Given(req[r], b, st))
  BY ReqType, GivenHeard
<1>2. Turns(r, Given(req[r], b, st))
  BY ReqType DEF Served, Turns, Given, ReqRec
<1> QED BY <1>1, <1>2 DEF StepHeard

(* The fields of a request that a step may change without answering it. *)
LEMMA GoneHeard ==
    ASSUME HeardInv, NEW r \in Requests, req[r].pc # "done", NEW pc \in Pcs,
           NEW rung \in 1 .. Top, NEW asked \in BOOLEAN, NEW taps \in BOOLEAN,
           NEW cut \in Cuts, cut = "lookup" => pc = "done",
           req' = [req EXCEPT ![r].pc = pc, ![r].rung = rung, ![r].asked = asked,
                              ![r].taps = taps, ![r].cut = cut]
    PROVE  StepHeard(r)
<1> DEFINE new == Gone(req[r], pc, req[r].range, rung, asked, taps, cut)
<1>1. req[r] \in ReqRec /\ Heard(req[r]) /\ req[r].range \in Ranges
  BY ReqType DEF ReqRec
<1>2. new \in ReqRec /\ Heard(new)
  BY <1>1, GoesHeard
<1>3. new = [req[r] EXCEPT !.pc = pc, !.rung = rung, !.asked = asked, !.taps = taps, !.cut = cut]
  BY ZenonT(40), <1>1 DEF Gone, ReqRec
<1>4. Turns(r, new)
  BY ZenonT(40), <1>3, ReqType DEF Turns
<1> QED BY <1>2, <1>4 DEF StepHeard

(* What a step that only moves a request leaves as it is. *)
LEMMA FieldTypes ==
    ASSUME HeardInv, NEW r \in Requests, req[r].pc # "done"
    PROVE  /\ req[r].rung \in 1 .. Top /\ req[r].asked \in BOOLEAN /\ req[r].taps \in BOOLEAN
           /\ req[r].cut \in Cuts \ {"lookup"}
BY ReqType DEF ReqRec, Heard, Cuts

LEMMA MovesHeard ==
    ASSUME HeardInv, NEW r \in Requests, req[r].pc # "done", NEW pc \in Pcs, Goes(r, pc)
    PROVE  StepHeard(r)
<1> DEFINE rec == req[r]
<1>1. req' = [req EXCEPT ![r].pc = pc, ![r].rung = rec.rung, ![r].asked = rec.asked,
                         ![r].taps = rec.taps, ![r].cut = rec.cut]
  BY ReqType DEF Goes, ReqRec
<1> QED BY <1>1, FieldTypes, GoneHeard

LEMMA ClimbsHeard ==
    ASSUME HeardInv, NEW r \in Requests, req[r].pc # "done", NEW rung \in 1 .. Top,
           NEW asked \in BOOLEAN, Climbs(r, rung, asked)
    PROVE  StepHeard(r)
<1> DEFINE rec == req[r]
<1>1. PICK up \in Above(rung) :
        req' = [req EXCEPT ![r].pc = "ladder", ![r].rung = up, ![r].asked = asked]
  BY DEF Climbs
<1>2. up \in 1 .. Top /\ "ladder" \in Pcs
  BY <1>1, AboveType DEF Pcs
<1>3. req' = [req EXCEPT ![r].pc = "ladder", ![r].rung = up, ![r].asked = asked,
                         ![r].taps = rec.taps, ![r].cut = rec.cut]
  <2>1. req[r] \in ReqRec
    BY ReqType
  <2>2. [req[r] EXCEPT !.pc = "ladder", !.rung = up, !.asked = asked]
          = [req[r] EXCEPT !.pc = "ladder", !.rung = up, !.asked = asked,
                           !.taps = rec.taps, !.cut = rec.cut]
    BY ZenonT(40), <2>1 DEF ReqRec
  <2> QED BY ZenonT(40), <1>1, <2>2
<1> QED BY <1>2, <1>3, FieldTypes, GoneHeard

(* Ends, from where a request can end unanswered, and made, from "new". *)
LEMMA BeginsHeard ==
    ASSUME HeardInv, NEW r \in Requests, req[r].pc # "done", NEW range \in Ranges,
           NEW pc \in Pcs, NEW asked \in BOOLEAN,
           req' = [req EXCEPT ![r].pc = pc, ![r].range = range, ![r].asked = asked]
    PROVE  StepHeard(r)
<1> DEFINE rec == req[r]
           new == Gone(rec, pc, range, rec.rung, asked, rec.taps, rec.cut)
<1>1. new \in ReqRec /\ Heard(new)
  BY ReqType, FieldTypes, GoesHeard
<1>2. Turns(r, new)
  BY ReqType DEF Turns, Gone, ReqRec
<1> QED BY <1>1, <1>2 DEF StepHeard

LEMMA HotServesHeard ==
    ASSUME HeardInv, NEW r \in Requests, req[r].pc # "done", NEW range \in Ranges,
           HotServes(r, range)
    PROVE  StepHeard(r)
<1> DEFINE rec == req[r]
           mid == Gone(rec, rec.pc, range, rec.rung, rec.asked, rec.taps, rec.cut)
           st == IF range = "closed" THEN 206 ELSE 200
           new == Given(mid, hot[CacheKeyOf(range)], st)
<1>1. rec \in ReqRec /\ Heard(rec) /\ rec.pc \in Pcs /\ rec.loads = 0
  BY ReqType DEF ReqRec, Heard
<1>2. mid \in ReqRec /\ Heard(mid)
  BY <1>1, FieldTypes, GoesHeard
<1>3. mid.pc # "done" /\ hot[CacheKeyOf(range)] \in Bytes \cup {None} /\ st \in {0, 200, 206}
  BY <1>1, ReqType, KeyType DEF Gone, ReqRec, Store
<1>4. new \in ReqRec /\ Heard(new)
  BY <1>2, <1>3, GivenHeard
<1>5. Turns(r, new)
  BY <1>1, ReqType DEF HotServes, Turns, Gone, Given, ReqRec
<1> QED BY <1>4, <1>5 DEF StepHeard

(* A reply that comes too late changes nothing but that it is no longer awaited. *)
LEMMA LateHeard ==
    ASSUME HeardInv, NEW r \in Requests, XhrLookupArrivesLate(r)
    PROVE  StepHeard(r)
<1> DEFINE new == [req[r] EXCEPT !.asked = FALSE]
<1>1. new \in ReqRec
  <2>1. req[r] \in ReqRec /\ FALSE \in BOOLEAN
    BY ReqType
  <2> QED BY <2>1, ZenonT(40) DEF ReqRec
<1>2. /\ new.pc = req[r].pc /\ new.cut = req[r].cut
      /\ new.loads = req[r].loads /\ new.bytes = req[r].bytes
  BY ReqType DEF ReqRec
<1>3. Heard(new)
  BY <1>2, ReqType DEF Heard
<1>4. Turns(r, new)
  BY ReqType DEF XhrLookupArrivesLate, Turns, ReqRec
<1> QED BY <1>1, <1>3, <1>4 DEF StepHeard

LEMMA BeginHeard ==
    ASSUME HeardInv, NEW r \in Requests, NEW range \in Ranges,
           FetchBegins(r, range) \/ XhrBegins(r, range)
    PROVE  StepHeard(r)
<1>1. req[r].pc # "done"
  BY DEF FetchBegins, XhrBegins
<1>2. req[r].asked \in BOOLEAN /\ req[r] \in ReqRec /\ req \in [Requests -> ReqRec]
  BY <1>1, FieldTypes, ReqType
<1>3. CASE HotServes(r, range)
  BY <1>1, <1>3, HotServesHeard
<1>4. CASE \E pc \in {"native again", "lookup", "join"} :
             req' = [req EXCEPT ![r].pc = pc, ![r].range = range]
  <2>1. PICK pc \in {"native again", "lookup", "join"} :
             req' = [req EXCEPT ![r].pc = pc, ![r].range = range]
    BY <1>4
  <2>2. req' = [req EXCEPT ![r].pc = pc, ![r].range = range, ![r].asked = req[r].asked]
    <3>1. [req[r] EXCEPT !.pc = pc, !.range = range]
            = [req[r] EXCEPT !.pc = pc, !.range = range, !.asked = req[r].asked]
      BY <1>2 DEF ReqRec
    <3> QED BY <1>2, <2>1, <3>1
  <2>3. pc \in Pcs
    BY DEF Pcs
  <2> QED BY <1>1, <1>2, <2>2, <2>3, BeginsHeard
<1>5. CASE req' = [req EXCEPT ![r].pc = "lookup", ![r].range = range, ![r].asked = TRUE]
  <2>1. "lookup" \in Pcs
    BY DEF Pcs
  <2> QED BY <1>1, <1>5, <2>1, BeginsHeard
<1> QED BY <1>3, <1>4, <1>5 DEF FetchBegins, XhrBegins, PassesThrough

LEMMA RungsType ==
    ASSUME HeardInv, NEW r \in Requests, req[r].pc # "done", req[r].rung < Top
    PROVE  req[r].rung + 1 \in 1 .. Top
BY FieldTypes, TopIs

LEMMA WorkHeard ==
    ASSUME HeardInv, NEW r \in Requests, Proceeds(r)
    PROVE  StepHeard(r)
<1> DEFINE rec == req[r]
<1>1. CASE FetchLookupMisses(r)
  <2>1. rec.pc # "done" /\ \E pc \in {"lookup again", "collapse"} : Goes(r, pc)
    BY <1>1 DEF FetchLookupMisses
  <2>2. {"lookup again", "collapse"} \subseteq Pcs
    BY DEF Pcs
  <2> QED BY <2>1, <2>2, MovesHeard
<1>2. CASE XhrLookupTimesOut(r)
  <2>1. rec.pc # "done" /\ 3 \in 1 .. Top
    BY <1>2, TopIs DEF XhrLookupTimesOut
  <2> QED BY <1>2, <2>1, ClimbsHeard DEF XhrLookupTimesOut
<1>3. CASE CollapseEnds(r)
  <2>1. rec.pc # "done"
    BY <1>3 DEF CollapseEnds, Collapsing, On
  <2>2. {"native", "done"} \subseteq Pcs /\ 4 \in 1 .. Top
    BY TopIs DEF Pcs
  <2>3. CASE Goes(r, "native") \/ Goes(r, "done")
    BY <2>1, <2>2, <2>3, MovesHeard
  <2>4. CASE Climbs(r, 4, FALSE)
    BY <2>1, <2>2, <2>4, ClimbsHeard
  <2>5. CASE rec.pc = "ladder" /\ Misses(r)
    <3>1. rec.rung < Top
      BY <1>3, <2>5 DEF CollapseEnds, Collapsing, On
    <3>2. rec.rung + 1 \in 1 .. Top /\ rec.asked \in BOOLEAN
      BY <2>1, <3>1, RungsType, FieldTypes
    <3> QED BY <2>1, <2>5, <3>2, ClimbsHeard DEF Misses
  <2> QED BY <1>3, <2>3, <2>4, <2>5 DEF CollapseEnds, Ends
<1>4. CASE BeltMisses(r)
  <2>1. rec.pc # "done" /\ rec.rung < Top
    BY <1>4 DEF BeltMisses, On
  <2>2. rec.rung + 1 \in 1 .. Top /\ rec.asked \in BOOLEAN
    BY <2>1, RungsType, FieldTypes
  <2> QED BY <1>4, <2>1, <2>2, ClimbsHeard DEF BeltMisses, Misses
<1>5. CASE LadderEnds(r)
  <2>1. rec.pc # "done" /\ "native" \in Pcs
    BY <1>5 DEF LadderEnds, Pcs
  <2>2. req' = [req EXCEPT ![r].pc = "native", ![r].rung = rec.rung, ![r].asked = rec.asked,
                           ![r].taps = TRUE, ![r].cut = rec.cut]
    BY ZenonT(40), <1>5, ReqType DEF LadderEnds, ReqRec
  <2> QED BY <2>1, <2>2, FieldTypes, GoneHeard
<1>6. CASE NativeFails(r)
  <2>1. rec.pc # "done" /\ \E pc \in {"extension", "native again", "done"} : Goes(r, pc)
    BY <1>6 DEF NativeFails, Ends
  <2>2. {"extension", "native again", "done"} \subseteq Pcs
    BY DEF Pcs
  <2> QED BY <2>1, <2>2, MovesHeard
<1> QED BY <1>1, <1>2, <1>3, <1>4, <1>5, <1>6 DEF Proceeds

(* What a request may be answered with. *)
LEMMA SourceTypes ==
    ASSUME HeardInv, NEW r \in Requests
    PROVE  /\ disk[Key(r)] \in Bytes \cup {None} /\ hot[Key(r)] \in Bytes \cup {None}
           /\ Right(Key(r)) \in Bytes
           /\ Answers(req[r].range) \subseteq Bytes
           /\ \A from \in CollapseSources(r) : from.bytes \in Bytes \cup {None}
<1>1. Key(r) \in CacheKeys /\ req[r].range \in Ranges
  BY ReqType DEF ReqRec
<1>2. disk[Key(r)] \in Bytes \cup {None} /\ hot[Key(r)] \in Bytes \cup {None} /\ Right(Key(r)) \in Bytes
  BY <1>1, ReqType, RightType DEF Store
<1>3. Answers(req[r].range) \subseteq Bytes
  BY <1>1, KeyType DEF Answers, Bytes
<1>4. \A from \in CollapseSources(r) : from.bytes \in Bytes \cup {None}
  BY <1>2 DEF CollapseSources
<1> QED BY <1>2, <1>3, <1>4

LEMMA AnswersHeard ==
    ASSUME HeardInv, NEW r \in Requests,
           \/ FetchLookupHits(r) \/ FetchCollapses(r) \/ XhrCollapses(r)
           \/ BeltHolds(r) \/ NativeAnswers(r) \/ AnswersUntapped(r)
    PROVE  StepHeard(r)
<1>1. req[r].pc # "done"
  BY DEF FetchLookupHits, FetchCollapses, XhrCollapses, BeltHolds, NativeAnswers,
         AnswersUntapped, Collapsing, On
<1>2. \E b \in Bytes \cup {None}, st \in {0, 200, 206} : Served(r, b, st)
  <2>1. CASE FetchLookupHits(r) \/ BeltHolds(r)
    BY <2>1, SourceTypes, StatusType DEF FetchLookupHits, BeltHolds
  <2>2. CASE FetchCollapses(r) \/ XhrCollapses(r)
    BY <2>2, SourceTypes, StatusType DEF FetchCollapses, XhrCollapses
  <2>3. CASE NativeAnswers(r) \/ AnswersUntapped(r)
    <3>1. \E b \in Answers(req[r].range) : Served(r, b, StatusOf(req[r].range, b))
      BY <2>3 DEF NativeAnswers, AnswersUntapped
    <3> QED BY <3>1, SourceTypes, StatusType
  <2> QED BY <2>1, <2>2, <2>3
<1> QED BY <1>1, <1>2, ServedHeard

LEMMA LookupHeard ==
    ASSUME HeardInv, NEW r \in Requests, XhrLookupHits(r) \/ XhrLookupMisses(r)
    PROVE  StepHeard(r)
<1> DEFINE rec == req[r]
<1>1. rec.pc # "done"
  BY DEF XhrLookupHits, XhrLookupMisses
<1>2. CASE XhrLookupMisses(r)
  <2>1. 1 \in 1 .. Top
    BY TopIs
  <2> QED BY <1>1, <1>2, <2>1, ClimbsHeard DEF XhrLookupMisses
<1>3. CASE XhrLookupHits(r)
  <2> DEFINE mid == Gone(rec, rec.pc, rec.range, rec.rung, FALSE, rec.taps, rec.cut)
             new == Given(mid, disk[Key(r)], CachedStatus(r))
  <2>1. rec \in ReqRec /\ Heard(rec) /\ rec.pc \in Pcs /\ rec.range \in Ranges
    BY ReqType DEF ReqRec
  <2>2. mid \in ReqRec /\ Heard(mid)
    BY <1>1, <2>1, FieldTypes, GoesHeard
  <2>3. mid.pc # "done"
    BY <1>1, <2>1 DEF Gone, ReqRec
  <2>4. new \in ReqRec /\ Heard(new)
    <3>1. disk[Key(r)] \in Bytes \cup {None} /\ CachedStatus(r) \in {0, 200, 206}
      BY SourceTypes, StatusType
    <3> HIDE DEF mid
    <3> QED BY <2>2, <2>3, <3>1, GivenHeard
  <2>5. Turns(r, new)
    BY <1>3, <2>1, ReqType DEF XhrLookupHits, Turns, Gone, Given, ReqRec
  <2> QED BY <2>4, <2>5 DEF StepHeard
<1> QED BY <1>2, <1>3

LEMMA AbortHeard ==
    ASSUME HeardInv, NEW r \in Requests, XhrAborts(r)
    PROVE  StepHeard(r)
<1> DEFINE rec == req[r]
<1>1. rec.pc # "done" /\ rec.pc \in Pcs /\ "done" \in Pcs
  BY ReqType DEF XhrAborts, ReqRec, Pcs
<1>2. \E pc \in Pcs, cut \in Cuts \ {"no"} :
         /\ cut = "lookup" => pc = "done"
         /\ req' = [req EXCEPT ![r].pc = pc, ![r].cut = cut]
  <2>1. CASE req' = [req EXCEPT ![r].pc = "done", ![r].cut = "lookup"]
    BY <1>1, <2>1 DEF Cuts
  <2>2. CASE req' = [req EXCEPT ![r].pc = "done", ![r].cut = "native"]
    BY <1>1, <2>2 DEF Cuts
  <2>3. CASE \E cut \in {"join", "ladder"} : req' = [req EXCEPT ![r].cut = cut]
    <3>1. PICK cut \in {"join", "ladder"} : req' = [req EXCEPT ![r].cut = cut]
      BY <2>3
    <3>2. req' = [req EXCEPT ![r].pc = rec.pc, ![r].cut = cut]
      BY <3>1, ReqType DEF ReqRec
    <3>3. cut \in Cuts \ {"no"} /\ cut # "lookup"
      BY DEF Cuts
    <3> QED BY <1>1, <3>2, <3>3
  <2> QED BY <2>1, <2>2, <2>3 DEF XhrAborts
<1>3. PICK pc \in Pcs, cut \in Cuts \ {"no"} :
         /\ cut = "lookup" => pc = "done"
         /\ req' = [req EXCEPT ![r].pc = pc, ![r].cut = cut]
  BY <1>2
<1>4. req' = [req EXCEPT ![r].pc = pc, ![r].rung = rec.rung, ![r].asked = rec.asked,
                         ![r].taps = rec.taps, ![r].cut = cut]
  BY ZenonT(40), <1>3, ReqType DEF ReqRec
<1>5. cut \in Cuts /\ (cut = "lookup" => pc = "done")
  BY <1>3
<1>6. rec.rung \in 1 .. Top /\ rec.asked \in BOOLEAN /\ rec.taps \in BOOLEAN
  BY <1>1, FieldTypes
<1> HIDE DEF rec
<1> QED BY <1>1, <1>4, <1>5, <1>6, GoneHeard DEF rec

(* Whatever happens, the record of one request is replaced by one that is Heard,
   or no record is. *)
LEMMA StepsHear ==
    ASSUME HeardInv, [PlayerNext]_playerVars
    PROVE  (\E r \in Requests : StepHeard(r)) \/ UNCHANGED req
<1>1. CASE UNCHANGED playerVars
  BY <1>1 DEF playerVars
<1>2. CASE \E r \in Requests, range \in Ranges : FetchBegins(r, range) \/ XhrBegins(r, range)
  BY <1>2, BeginHeard
<1>3. CASE \E r \in Requests : Proceeds(r)
  BY <1>3, WorkHeard
<1>4. CASE \E r \in Requests :
             \/ FetchLookupHits(r) \/ FetchCollapses(r) \/ XhrCollapses(r)
             \/ BeltHolds(r) \/ NativeAnswers(r) \/ AnswersUntapped(r)
  BY <1>4, AnswersHeard
<1>5. CASE \E r \in Requests : XhrLookupHits(r) \/ XhrLookupMisses(r)
  BY <1>5, LookupHeard
<1>6. CASE \E r \in Requests : XhrLookupArrivesLate(r)
  BY <1>6, LateHeard
<1>7. CASE \E r \in Requests : XhrAborts(r)
  BY <1>7, AbortHeard
<1>8. CASE \E r \in Requests : CaptureReads(r) \/ CaptureStores(r)
  BY <1>8 DEF CaptureReads, CaptureStores
<1>9. CASE \E k \in CacheKeys : PrefetchLands(k) \/ Forgets(k) \/ BackfillEnds(k)
  BY <1>9 DEF PrefetchLands, Forgets, BackfillEnds
<1> QED BY <1>1, <1>2, <1>3, <1>4, <1>5, <1>6, <1>7, <1>8, <1>9 DEF PlayerNext

-----------------------------------------------------------------------------
(* What a step does to the stores: each entry stays, goes, or becomes what
   somebody has. *)

(* Who writes to the stores. *)
LEMMA StoreSteps ==
    ASSUME [PlayerNext]_playerVars
    PROVE  \/ UNCHANGED <<hot, disk, capture, backfill>>
           \/ \E r \in Requests : FetchLookupHits(r) \/ XhrLookupHits(r) \/ BeltHolds(r)
           \/ \E r \in Requests : FetchCollapses(r)
           \/ \E r \in Requests : XhrCollapses(r)
           \/ \E r \in Requests : NativeAnswers(r)
           \/ \E r \in Requests : CaptureReads(r)
           \/ \E r \in Requests : CaptureStores(r)
           \/ \E k \in CacheKeys : PrefetchLands(k) \/ Forgets(k) \/ BackfillEnds(k)
<1>1. ASSUME NEW r \in Requests, NEW range \in Ranges,
             FetchBegins(r, range) \/ XhrBegins(r, range)
      PROVE  UNCHANGED <<hot, disk, capture, backfill>>
  BY <1>1 DEF FetchBegins, XhrBegins, PassesThrough, HotServes, stores
<1>2. ASSUME NEW r \in Requests, Proceeds(r)
      PROVE  UNCHANGED <<hot, disk, capture, backfill>>
  BY <1>2 DEF Proceeds, FetchLookupMisses, XhrLookupTimesOut, CollapseEnds, BeltMisses,
              LadderEnds, NativeFails, stores
<1>3. ASSUME NEW r \in Requests,
             XhrLookupMisses(r) \/ XhrLookupArrivesLate(r) \/ XhrAborts(r) \/ AnswersUntapped(r)
      PROVE  UNCHANGED <<hot, disk, capture, backfill>>
  BY <1>3 DEF XhrLookupMisses, XhrLookupArrivesLate, XhrAborts, AnswersUntapped, stores
<1>4. CASE UNCHANGED playerVars
  BY <1>4 DEF playerVars, stores
<1> QED BY <1>1, <1>2, <1>3, <1>4 DEF PlayerNext

(* What a write-back holds. *)
Tapped(r, b) == [key |-> Key(r), bytes |-> b, read |-> r \in Xhrs]

LEMMA TappedType ==
    ASSUME HeardInv, NEW r \in Requests, NEW b \in Bytes \cup {None}
    PROVE  Tapped(r, b) \in CaptureRec
<1>1. Key(r) \in CacheKeys
  BY ReqType
<1>2. (r \in Xhrs) \in BOOLEAN
  OBVIOUS
<1> QED BY <1>1, <1>2, Zenon DEF Tapped, CaptureRec

LEMMA IdleType == Idle \in CaptureRec
BY DEF Idle, CaptureRec

(* The rest of the state keeps its type. *)
RestType == /\ hot' \in Store /\ disk' \in Store /\ backfill' \in Store
            /\ capture' \in [Requests -> CaptureRec]

LEMMA CapturesType ==
    ASSUME HeardInv, NEW r \in Requests, NEW b \in Bytes \cup {None}
    PROVE  Captures(r, b) \in [Requests -> CaptureRec]
<1>1. Captures(r, b) = capture \/ Captures(r, b) = [capture EXCEPT ![r] = Tapped(r, b)]
  BY DEF Captures, Tapped
<1> QED BY <1>1, ReqType, TappedType

LEMMA RestKept ==
    ASSUME HeardInv, [PlayerNext]_playerVars
    PROVE  RestType
<1>0. /\ hot \in Store /\ disk \in Store /\ backfill \in Store
      /\ capture \in [Requests -> CaptureRec]
  BY ReqType
<1>1. CASE UNCHANGED <<hot, disk, capture, backfill>>
  BY <1>0, <1>1 DEF RestType
<1>2. CASE \E r \in Requests :
              FetchLookupHits(r) \/ XhrLookupHits(r) \/ BeltHolds(r)
  BY <1>0, <1>2, SourceTypes, PutType
     DEF RestType, FetchLookupHits, XhrLookupHits, BeltHolds
<1>3. CASE \E r \in Requests : FetchCollapses(r)
  BY <1>0, <1>3, SourceTypes, PutType DEF RestType, FetchCollapses
<1>4. CASE \E r \in Requests : XhrCollapses(r)
  <2>1. PICK r \in Requests : XhrCollapses(r)
    BY <1>4
  <2>2. PICK from \in CollapseSources(r) :
          IF req[r].range = "open"
          THEN hot' \in {hot, Put(hot, "url", from.bytes)} /\ UNCHANGED backfill
          ELSE /\ hot' = Put(hot, Key(r), from.bytes)
               /\ backfill' = IF ~from.cached /\ backfill[Key(r)] = None
                              THEN Put(backfill, Key(r), from.bytes) ELSE backfill
    BY <2>1 DEF XhrCollapses
  <2>3. from.bytes \in Bytes \cup {None}
    BY <2>2, SourceTypes
  <2>4. \A s \in Store : \A k : Put(s, k, from.bytes) \in Store
    BY <2>3, PutType
  <2>5. hot' \in Store /\ backfill' \in Store
    BY <1>0, <2>2, <2>4
  <2> QED BY <1>0, <2>1, <2>5 DEF RestType, XhrCollapses
<1>5. CASE \E r \in Requests : NativeAnswers(r)
  <2>1. PICK r \in Requests : NativeAnswers(r)
    BY <1>5
  <2>2. \E b \in Bytes : capture' = Captures(r, b) \/ capture' = capture
    BY <2>1, SourceTypes DEF NativeAnswers
  <2> QED BY <1>0, <2>1, <2>2, CapturesType DEF RestType, NativeAnswers, stores
<1>6. CASE \E r \in Requests : CaptureReads(r)
  <2>1. PICK r \in Requests : CaptureReads(r)
    BY <1>6
  <2>2. capture[r] \in CaptureRec /\ capture[r].bytes \in Bytes \cup {None}
    BY <1>0 DEF CaptureRec
  <2>3. [capture[r] EXCEPT !.read = TRUE] \in CaptureRec
    BY <2>2, Zenon DEF CaptureRec
  <2>4. [capture EXCEPT ![r].read = TRUE] = [capture EXCEPT ![r] = [capture[r] EXCEPT !.read = TRUE]]
    BY <1>0
  <2>5. capture' \in [Requests -> CaptureRec]
    BY <1>0, <2>1, <2>3, <2>4, IdleType DEF CaptureReads
  <2>6. hot' \in Store
    BY <1>0, <2>1, <2>2, PutType DEF CaptureReads
  <2> QED BY <1>0, <2>1, <2>5, <2>6 DEF RestType, CaptureReads
<1>7. CASE \E r \in Requests : CaptureStores(r)
  <2>1. PICK r \in Requests : CaptureStores(r)
    BY <1>7
  <2>2. capture[r].bytes \in Bytes \cup {None}
    BY <1>0 DEF CaptureRec
  <2> QED BY <1>0, <2>1, <2>2, IdleType, PutType DEF RestType, CaptureStores
<1>8. CASE \E k \in CacheKeys : PrefetchLands(k) \/ Forgets(k) \/ BackfillEnds(k)
  <2>1. PICK k \in CacheKeys : PrefetchLands(k) \/ Forgets(k) \/ BackfillEnds(k)
    BY <1>8
  <2>2. Right(k) \in Bytes \cup {None} /\ backfill[k] \in Bytes \cup {None} /\ None \in Bytes \cup {None}
    BY <1>0, RightType DEF Store
  <2> QED BY <1>0, <2>1, <2>2, PutType DEF RestType, PrefetchLands, Forgets, BackfillEnds
<1> QED BY <1>1, <1>2, <1>3, <1>4, <1>5, <1>6, <1>7, <1>8, StoreSteps

-----------------------------------------------------------------------------
LEMMA TypeIs ==
    PlayerTypeOK <=>
        /\ req \in [Requests -> ReqRec] /\ hot \in Store /\ disk \in Store
        /\ capture \in [Requests -> CaptureRec] /\ backfill \in Store
BY DEF PlayerTypeOK, ReqRec, CaptureRec, Store

LEMMA HeardStart == PlayerInit => HeardInv
<1> SUFFICES ASSUME PlayerInit PROVE HeardInv
  OBVIOUS
<1>1. Fresh \in ReqRec /\ Heard(Fresh)
  <2>1. 1 \in 1 .. Top /\ "new" \in Pcs /\ "none" \in Ranges
    BY TopIs DEF Pcs, Ranges
  <2>2. Fresh \in ReqRec
    BY <2>1 DEF Fresh, ReqRec
  <2> QED BY <2>2 DEF Fresh, Heard
<1>2. req \in [Requests -> ReqRec] /\ \A r \in Requests : Heard(req[r])
  BY <1>1 DEF PlayerInit
<1>3. hot \in Store /\ disk \in Store /\ backfill \in Store
  BY RightType DEF PlayerInit, Store
<1>4. capture \in [Requests -> CaptureRec]
  BY IdleType DEF PlayerInit
<1> QED BY <1>2, <1>3, <1>4, TypeIs DEF HeardInv

LEMMA HeardKept == HeardInv /\ [PlayerNext]_playerVars => HeardInv'
<1> SUFFICES ASSUME HeardInv, [PlayerNext]_playerVars PROVE HeardInv'
  OBVIOUS
<1>1. req \in [Requests -> ReqRec] /\ \A r \in Requests : Heard(req[r])
  BY ReqType
<1>2. req' \in [Requests -> ReqRec] /\ \A r \in Requests : Heard(req'[r])
  <2>1. CASE UNCHANGED req
    BY <1>1, <2>1
  <2>2. CASE \E r \in Requests : StepHeard(r)
    BY <1>1, <2>2 DEF StepHeard, Turns
  <2> QED BY <2>1, <2>2, StepsHear
<1>3. RestType
  BY RestKept
<1>4. PlayerTypeOK'
  BY <1>2, <1>3 DEF PlayerTypeOK, ReqRec, CaptureRec, Store, RestType
<1> QED BY <1>2, <1>4 DEF HeardInv

(* The player's records, stores and write-backs keep their declared sets. *)
THEOREM PlayerTypesKept == PlayerSpec => []PlayerTypeOK
<1>1. HeardInv => PlayerTypeOK
  BY DEF HeardInv
<1> QED BY <1>1, HeardStart, HeardKept, PTL DEF PlayerSpec

(* However the reply of the background, the lookup's timer, an abort, a joined
   wire and the ladder race, a request is given one answer at most, and none
   after an abort told the player that its lookup is off. *)
THEOREM AnswersAreHeardOnce == PlayerSpec => []HeardOnce
<1>1. HeardInv => HeardOnce
  BY DEF HeardInv, HeardOnce, Heard
<1> QED BY <1>1, HeardStart, HeardKept, PTL DEF PlayerSpec

-----------------------------------------------------------------------------
(* Right bytes. The server honours the Range header, a fetch does not ask for an
   open range (its answer would be written back under the key of the whole
   object), and no request is made both ways. *)

RightAnswer(range, b, st) == b = Named(range) \/ (b = "whole" /\ st = 200)

RightReq ==
    \A r \in Requests :
        /\ r \in Fetches => req[r].range # "open"
        /\ req[r].bytes # None => RightAnswer(req[r].range, req[r].bytes, req[r].status)

(* A store, and a write-back, hold under a key the bytes of that key. *)
RightStore(s) == \A k \in CacheKeys : s[k] \in {None, Right(k)}
RightCapture(c) == c = Idle \/ (c.key \in CacheKeys /\ c.bytes = Right(c.key))

RightInv ==
    /\ HeardInv /\ RightReq
    /\ RightStore(hot) /\ RightStore(disk) /\ RightStore(backfill)
    /\ \A r \in Requests : RightCapture(capture[r])

Orderly ==
    /\ HonoursRanges /\ Fetches \cap Xhrs = {}
    /\ FetchRanges \subseteq {"none", "closed"}

(* The exact slice under the key of a range, the whole object under the other. *)
LEMMA KeyIsRight ==
    ASSUME NEW range \in Ranges
    PROVE  /\ range # "open" => Right(CacheKeyOf(range)) = Named(range)
           /\ range = "open" => Right(CacheKeyOf(range)) = "whole" /\ CacheKeyOf(range) = "url"
BY DEF Ranges, Right, CacheKeyOf, Named

LEMMA CachedIsRight ==
    ASSUME RightInv, NEW r \in Requests
    PROVE  /\ req[r].range \in Ranges /\ Key(r) \in CacheKeys
           /\ RightAnswer(req[r].range, Right(Key(r)), CachedStatus(r))
           /\ RightAnswer(req[r].range, Right(Key(r)), 200)
           /\ disk[Key(r)] # None => disk[Key(r)] = Right(Key(r))
           /\ \A from \in CollapseSources(r) : from.bytes = Right(Key(r))
<1>1. req[r].range \in Ranges /\ Key(r) \in CacheKeys
  BY ReqType DEF RightInv, ReqRec
<1>2. disk[Key(r)] \in {None, Right(Key(r))} /\ hot[Key(r)] \in {None, Right(Key(r))}
  BY <1>1 DEF RightInv, RightStore
<1>3. \A from \in CollapseSources(r) : from.bytes = Right(Key(r))
  BY <1>2 DEF CollapseSources
<1>4. RightAnswer(req[r].range, Right(Key(r)), CachedStatus(r))
  BY <1>1, KeyIsRight DEF RightAnswer, CachedStatus, Key
<1>5. RightAnswer(req[r].range, Right(Key(r)), 200)
  BY <1>1, KeyIsRight DEF RightAnswer, Key
<1> QED BY <1>1, <1>2, <1>3, <1>4, <1>5

LEMMA PutRight ==
    ASSUME NEW s \in Store, RightStore(s), NEW k \in CacheKeys, NEW b \in {None, Right(k)}
    PROVE  RightStore(Put(s, k, b))
BY DEF RightStore, Put, Store

LEMMA NetworkIsRight ==
    ASSUME Orderly, RightInv, NEW r \in Requests, NEW b \in Answers(req[r].range)
    PROVE  /\ b = Named(req[r].range)
           /\ RightAnswer(req[r].range, b, StatusOf(req[r].range, b))
           /\ \A q \in Requests : RightCapture(Captures(r, b)[q])
<1>1. b = Named(req[r].range)
  BY DEF Orderly, Answers
<1>2. req[r].range \in Ranges /\ Key(r) \in CacheKeys
  BY CachedIsRight
<1>3. CASE Captures(r, b) = capture
  BY <1>1, <1>3 DEF RightAnswer, RightInv
<1>4. CASE Captures(r, b) # capture
  <2>1. Captures(r, b) = [capture EXCEPT ![r] = Tapped(r, b)]
    BY <1>4 DEF Captures, Tapped
  <2>2. r \in Fetches \/ Key(r) = "range" \/ StatusOf(req[r].range, b) = 200
    BY <1>4 DEF Captures
  <2>3. r \in Fetches => req[r].range # "open"
    BY DEF RightInv, RightReq
  <2>4. req[r].range # "open"
    BY <1>1, <1>2, <2>2, <2>3 DEF Key, CacheKeyOf, StatusOf, Ranges
  <2>5. b = Right(Key(r))
    BY <1>1, <1>2, <2>4, KeyIsRight DEF Key
  <2>6. RightCapture(Tapped(r, b))
    BY <1>2, <2>5 DEF RightCapture, Tapped
  <2>7. capture \in [Requests -> CaptureRec] /\ \A q \in Requests : RightCapture(capture[q])
    BY ReqType DEF RightInv
  <2>8. \A q \in Requests : RightCapture(Captures(r, b)[q])
    BY <2>1, <2>6, <2>7
  <2> QED BY <1>1, <2>8 DEF RightAnswer
<1> QED BY <1>3, <1>4

-----------------------------------------------------------------------------
LEMMA ServedRight ==
    ASSUME RightInv, NEW r \in Requests, NEW b, NEW st, Served(r, b, st),
           RightAnswer(req[r].range, b, st)
    PROVE  RightReq'
<1>1. req \in [Requests -> ReqRec] /\ RightReq
  BY ReqType DEF RightInv
<1>2. \A q \in Requests : req'[q].range = req[q].range
  BY <1>1 DEF Served, ReqRec
<1>3. req'[r].bytes = b /\ req'[r].status = st
  BY <1>1 DEF Served, ReqRec
<1>4. \A q \in Requests \ {r} : req'[q] = req[q]
  BY <1>1 DEF Served
<1> QED BY <1>1, <1>2, <1>3, <1>4 DEF RightReq

(* A request goes on with what it had. *)
Unanswered ==
    \A q \in Requests : /\ req'[q].range = req[q].range
                        /\ req'[q].bytes = req[q].bytes /\ req'[q].status = req[q].status

LEMMA UnansweredRight == RightInv /\ Unanswered => RightReq'
BY DEF RightInv, RightReq, Unanswered

LEMMA MovesUnanswered ==
    ASSUME RightInv, NEW r \in Requests,
           \/ Proceeds(r) \/ XhrLookupMisses(r) \/ XhrLookupArrivesLate(r) \/ XhrAborts(r)
    PROVE  Unanswered
<1>0. req \in [Requests -> ReqRec]
  BY ReqType DEF RightInv
<1>1. ASSUME NEW pc, Goes(r, pc) PROVE Unanswered
  BY <1>0, <1>1 DEF Goes, Unanswered, ReqRec
<1>2. ASSUME NEW rung, NEW asked, Climbs(r, rung, asked) PROVE Unanswered
  BY <1>0, <1>2 DEF Climbs, Unanswered, ReqRec
<1>3. CASE LadderEnds(r)
  BY <1>0, <1>3 DEF LadderEnds, Unanswered, ReqRec
<1>4. CASE XhrLookupArrivesLate(r)
  BY <1>0, <1>4 DEF XhrLookupArrivesLate, Unanswered, ReqRec
<1>5. CASE XhrAborts(r)
  <2>1. ASSUME NEW pc, NEW cut, req' = [req EXCEPT ![r].pc = pc, ![r].cut = cut] PROVE Unanswered
    BY <1>0, <2>1 DEF Unanswered, ReqRec
  <2>2. ASSUME NEW cut, req' = [req EXCEPT ![r].cut = cut] PROVE Unanswered
    BY <1>0, <2>2 DEF Unanswered, ReqRec
  <2> QED BY <1>5, <2>1, <2>2 DEF XhrAborts
<1>6. CASE FetchLookupMisses(r) \/ NativeFails(r)
  BY <1>1, <1>6 DEF FetchLookupMisses, NativeFails, Ends
<1>7. CASE XhrLookupTimesOut(r) \/ XhrLookupMisses(r)
  BY <1>2, <1>7 DEF XhrLookupTimesOut, XhrLookupMisses
<1>8. CASE CollapseEnds(r) \/ BeltMisses(r)
  BY <1>1, <1>2, <1>8 DEF CollapseEnds, BeltMisses, Misses, Ends
<1> QED BY <1>3, <1>4, <1>5, <1>6, <1>7, <1>8 DEF Proceeds

LEMMA BeginsRight ==
    ASSUME Orderly, RightInv, NEW r \in Requests, NEW range \in Ranges,
           FetchBegins(r, range) \/ XhrBegins(r, range)
    PROVE  RightReq'
<1>1. req \in [Requests -> ReqRec] /\ RightReq /\ Heard(req[r])
  BY ReqType DEF RightInv
<1>2. r \in Fetches => range # "open"
  BY DEF Orderly, FetchBegins, XhrBegins
<1>3. req[r].bytes = None
  BY <1>1 DEF Heard, FetchBegins, XhrBegins
<1>4. \A q \in Requests \ {r} : req'[q] = req[q]
  BY <1>1 DEF FetchBegins, XhrBegins, PassesThrough, HotServes
<1>5. HotServes(r, range) \/ (req'[r].range = range /\ req'[r].bytes = req[r].bytes)
  <2>1. ASSUME NEW pc, req' = [req EXCEPT ![r].pc = pc, ![r].range = range]
        PROVE  req'[r].range = range /\ req'[r].bytes = req[r].bytes
    BY <1>1, <2>1 DEF ReqRec
  <2>2. ASSUME NEW pc, NEW asked,
               req' = [req EXCEPT ![r].pc = pc, ![r].range = range, ![r].asked = asked]
        PROVE  req'[r].range = range /\ req'[r].bytes = req[r].bytes
    BY <1>1, <2>2 DEF ReqRec
  <2> QED BY <2>1, <2>2 DEF FetchBegins, XhrBegins, PassesThrough
<1>6. req'[r].range = range
  <2>1. CASE HotServes(r, range)
    BY <1>1, <2>1 DEF HotServes, ReqRec
  <2>2. CASE ~HotServes(r, range)
    BY <1>1, <1>5, <2>2
  <2> QED BY <2>1, <2>2
<1>7. req'[r].bytes = None \/ RightAnswer(range, req'[r].bytes, req'[r].status)
  <2>1. CASE HotServes(r, range)
    <3>1. hot[CacheKeyOf(range)] = Right(CacheKeyOf(range)) /\ range # "open"
      BY <2>1, KeyType DEF HotServes, RightInv, RightStore
    <3>2. req'[r].bytes = hot[CacheKeyOf(range)]
      BY <1>1, <2>1 DEF HotServes, ReqRec
    <3> QED BY <3>1, <3>2, KeyIsRight DEF RightAnswer
  <2>2. CASE ~HotServes(r, range)
    BY <1>3, <1>5, <2>2
  <2> QED BY <2>1, <2>2
<1> QED BY <1>1, <1>2, <1>4, <1>6, <1>7 DEF RightReq

LEMMA ReqKeptRight ==
    ASSUME Orderly, RightInv, [PlayerNext]_playerVars
    PROVE  RightReq'
<1>0. /\ HeardInv /\ RightReq
      /\ \A r \in Requests : req[r].range \in Ranges
  BY CachedIsRight DEF RightInv
<1>1. CASE UNCHANGED req
  BY <1>0, <1>1 DEF RightReq
<1>2. CASE \E r \in Requests, range \in Ranges : FetchBegins(r, range) \/ XhrBegins(r, range)
  BY <1>2, BeginsRight
<1>3. CASE \E r \in Requests :
             Proceeds(r) \/ XhrLookupMisses(r) \/ XhrLookupArrivesLate(r) \/ XhrAborts(r)
  BY <1>3, MovesUnanswered, UnansweredRight
<1>4. CASE \E r \in Requests : FetchLookupHits(r) \/ BeltHolds(r)
  BY <1>4, CachedIsRight, ServedRight DEF FetchLookupHits, BeltHolds, CacheHits
<1>5. CASE \E r \in Requests : FetchCollapses(r) \/ XhrCollapses(r)
  BY <1>5, CachedIsRight, ServedRight DEF FetchCollapses, XhrCollapses
<1>6. CASE \E r \in Requests : NativeAnswers(r) \/ AnswersUntapped(r)
  <2>1. PICK r \in Requests : \E b \in Answers(req[r].range) :
                                 Served(r, b, StatusOf(req[r].range, b))
    BY <1>6 DEF NativeAnswers, AnswersUntapped
  <2> QED BY <2>1, NetworkIsRight, ServedRight
<1>7. CASE \E r \in Requests : XhrLookupHits(r)
  <2>1. PICK r \in Requests : XhrLookupHits(r)
    BY <1>7
  <2>2. req \in [Requests -> ReqRec]
    BY <1>0, ReqType
  <2>3. \A q \in Requests : req'[q].range = req[q].range
    BY <2>1, <2>2 DEF XhrLookupHits, ReqRec
  <2>4. req'[r].bytes = disk[Key(r)] /\ req'[r].status = CachedStatus(r)
    BY <2>1, <2>2 DEF XhrLookupHits, ReqRec
  <2>5. \A q \in Requests \ {r} : req'[q] = req[q]
    BY <2>1, <2>2 DEF XhrLookupHits
  <2>6. RightAnswer(req[r].range, req'[r].bytes, req'[r].status)
    BY <2>1, <2>4, CachedIsRight DEF XhrLookupHits, CacheHits
  <2> QED BY <1>0, <2>3, <2>5, <2>6 DEF RightReq
<1>8. CASE \/ \E r \in Requests : CaptureReads(r) \/ CaptureStores(r)
           \/ \E k \in CacheKeys : PrefetchLands(k) \/ Forgets(k) \/ BackfillEnds(k)
  BY <1>1, <1>8 DEF CaptureReads, CaptureStores, PrefetchLands, Forgets, BackfillEnds
<1>9. CASE UNCHANGED playerVars
  BY <1>1, <1>9 DEF playerVars
<1> QED BY <1>2, <1>3, <1>4, <1>5, <1>6, <1>7, <1>8, <1>9 DEF PlayerNext

(* What reaches the stores is a cached answer, a page wire for the key, or a
   write-back. *)
LEMMA StoresKeptRight ==
    ASSUME Orderly, RightInv, [PlayerNext]_playerVars
    PROVE  /\ RightStore(hot)' /\ RightStore(disk)' /\ RightStore(backfill)'
           /\ \A r \in Requests : RightCapture(capture'[r])
<1> DEFINE Goal == /\ RightStore(hot') /\ RightStore(disk') /\ RightStore(backfill')
                   /\ \A r \in Requests : RightCapture(capture'[r])
<1>0. /\ HeardInv /\ hot \in Store /\ disk \in Store /\ backfill \in Store
      /\ capture \in [Requests -> CaptureRec]
      /\ RightStore(hot) /\ RightStore(disk) /\ RightStore(backfill)
      /\ \A r \in Requests : RightCapture(capture[r])
  BY ReqType DEF RightInv
<1>1. CASE UNCHANGED <<hot, disk, capture, backfill>>
  BY <1>0, <1>1
<1>2. CASE \E r \in Requests :
              FetchLookupHits(r) \/ XhrLookupHits(r) \/ BeltHolds(r)
  <2>1. PICK r \in Requests : /\ CacheHits(r) /\ hot' = Put(hot, Key(r), disk[Key(r)])
                              /\ UNCHANGED <<disk, capture, backfill>>
    BY <1>2 DEF FetchLookupHits, XhrLookupHits, BeltHolds
  <2>2. Key(r) \in CacheKeys /\ disk[Key(r)] = Right(Key(r))
    BY <2>1, CachedIsRight DEF CacheHits
  <2>3. RightStore(Put(hot, Key(r), disk[Key(r)]))
    BY <1>0, <2>2, PutRight
  <2> QED BY <1>0, <2>1, <2>3
<1>3. CASE \E r \in Requests : FetchCollapses(r)
  <2>0. PICK r \in Requests : FetchCollapses(r)
    BY <1>3
  <2>1. PICK from \in CollapseSources(r) :
          hot' = Put(hot, Key(r), from.bytes) /\ UNCHANGED <<disk, capture, backfill>>
    BY <2>0 DEF FetchCollapses
  <2>2. Key(r) \in CacheKeys /\ from.bytes = Right(Key(r))
    BY <2>1, CachedIsRight
  <2>3. RightStore(Put(hot, Key(r), from.bytes))
    BY <1>0, <2>2, PutRight
  <2> QED BY <1>0, <2>1, <2>3
<1>4. CASE \E r \in Requests : XhrCollapses(r)
  <2>1. PICK r \in Requests : XhrCollapses(r)
    BY <1>4
  <2>2. PICK from \in CollapseSources(r) :
          IF req[r].range = "open"
          THEN hot' \in {hot, Put(hot, "url", from.bytes)} /\ UNCHANGED backfill
          ELSE /\ hot' = Put(hot, Key(r), from.bytes)
               /\ backfill' = IF ~from.cached /\ backfill[Key(r)] = None
                              THEN Put(backfill, Key(r), from.bytes) ELSE backfill
    BY <2>1 DEF XhrCollapses
  <2>3. Key(r) \in CacheKeys /\ from.bytes = Right(Key(r)) /\ req[r].range \in Ranges
    BY <2>2, CachedIsRight
  <2>4. RightStore(Put(hot, Key(r), from.bytes)) /\ RightStore(Put(backfill, Key(r), from.bytes))
    BY <1>0, <2>3, PutRight
  <2>5. req[r].range = "open" => Key(r) = "url"
    BY <2>3, KeyIsRight DEF Key
  <2>6. RightStore(hot') /\ RightStore(backfill')
    BY <1>0, <2>2, <2>4, <2>5
  <2> QED BY <1>0, <2>1, <2>6 DEF XhrCollapses
<1>5. CASE \E r \in Requests : NativeAnswers(r)
  <2>1. PICK r \in Requests : NativeAnswers(r)
    BY <1>5
  <2>2. \E b \in Answers(req[r].range) : capture' = Captures(r, b) \/ capture' = capture
    BY <2>1 DEF NativeAnswers
  <2>3. \A q \in Requests : RightCapture(capture'[q])
    BY <1>0, <2>2, NetworkIsRight
  <2> QED BY <1>0, <2>1, <2>3 DEF NativeAnswers, stores
<1>6. CASE \E r \in Requests : CaptureReads(r)
  <2>1. PICK r \in Requests : CaptureReads(r)
    BY <1>6
  <2>2. capture[r].key \in CacheKeys /\ capture[r].bytes = Right(capture[r].key)
    BY <1>0, <2>1 DEF CaptureReads, RightCapture
  <2>3. RightStore(Put(hot, capture[r].key, capture[r].bytes))
    BY <1>0, <2>2, PutRight
  <2>4. \A q \in Requests : RightCapture([capture EXCEPT ![r].read = TRUE][q])
    <3>1. [capture EXCEPT ![r].read = TRUE][r].key = capture[r].key
      BY <1>0 DEF CaptureRec
    <3>2. [capture EXCEPT ![r].read = TRUE][r].bytes = capture[r].bytes
      BY <1>0 DEF CaptureRec
    <3>3. \A q \in Requests \ {r} : [capture EXCEPT ![r].read = TRUE][q] = capture[q]
      BY <1>0
    <3> QED BY <1>0, <2>2, <3>1, <3>2, <3>3 DEF RightCapture
  <2>5. \A q \in Requests : RightCapture([capture EXCEPT ![r] = Idle][q])
    BY <1>0 DEF RightCapture
  <2>6. RightStore(hot') /\ \A q \in Requests : RightCapture(capture'[q])
    BY <1>0, <2>1, <2>3, <2>4, <2>5 DEF CaptureReads
  <2> QED BY <1>0, <2>1, <2>6 DEF CaptureReads
<1>7. CASE \E r \in Requests : CaptureStores(r)
  <2>1. PICK r \in Requests : CaptureStores(r)
    BY <1>7
  <2>2. capture[r].key \in CacheKeys /\ capture[r].bytes = Right(capture[r].key)
    BY <1>0, <2>1 DEF CaptureStores, RightCapture
  <2>3. RightStore(Put(disk, capture[r].key, capture[r].bytes))
    BY <1>0, <2>2, PutRight
  <2>4. \A q \in Requests : RightCapture([capture EXCEPT ![r] = Idle][q])
    BY <1>0 DEF RightCapture
  <2> QED BY <1>0, <2>1, <2>3, <2>4 DEF CaptureStores
<1>8. CASE \E k \in CacheKeys : PrefetchLands(k) \/ Forgets(k) \/ BackfillEnds(k)
  <2>1. PICK k \in CacheKeys : PrefetchLands(k) \/ Forgets(k) \/ BackfillEnds(k)
    BY <1>8
  <2>2. backfill[k] \in {None, Right(k)}
    BY <1>0 DEF RightStore
  <2>3. \A s \in Store, b \in {None, Right(k)} : RightStore(s) => RightStore(Put(s, k, b))
    BY PutRight
  <2>4. RightStore(hot') /\ RightStore(disk') /\ RightStore(backfill')
    BY <1>0, <2>1, <2>2, <2>3 DEF PrefetchLands, Forgets, BackfillEnds
  <2> QED BY <1>0, <2>1, <2>4 DEF PrefetchLands, Forgets, BackfillEnds
<1>9. Goal
  BY <1>1, <1>2, <1>3, <1>4, <1>5, <1>6, <1>7, <1>8, StoreSteps
<1> QED BY <1>9 DEF RightStore

LEMMA RightStart == Orderly /\ PlayerInit => RightInv
<1> SUFFICES ASSUME PlayerInit PROVE RightInv
  OBVIOUS
<1>1. HeardInv
  BY HeardStart
<1>2. RightReq
  BY DEF PlayerInit, Fresh, RightReq
<1>3. RightStore(hot) /\ RightStore(disk) /\ RightStore(backfill)
  BY DEF PlayerInit, RightStore
<1>4. \A r \in Requests : RightCapture(capture[r])
  BY DEF PlayerInit, RightCapture
<1> QED BY <1>1, <1>2, <1>3, <1>4 DEF RightInv

LEMMA RightKept == Orderly /\ RightInv /\ [PlayerNext]_playerVars => RightInv'
<1> SUFFICES ASSUME Orderly, RightInv, [PlayerNext]_playerVars PROVE RightInv'
  OBVIOUS
<1>1. HeardInv'
  BY HeardKept DEF RightInv
<1>2. RightReq'
  BY ReqKeptRight
<1> QED BY <1>1, <1>2, StoresKeptRight DEF RightInv, RightStore

(* From a server that honours ranges, and without a fetch for an open range, a
   request gets the bytes it asked for, or the whole object with a 200, however
   many requests share the object's two keys: over hot bytes, the background's
   cache, collapsed wires and the write-backs of each other's answers. *)
THEOREM AnswersAreRight == ASSUME Orderly PROVE PlayerSpec => []RightBytes
<1>1. PlayerInit => RightInv
  BY RightStart
<1>2. RightInv /\ [PlayerNext]_playerVars => RightInv'
  BY RightKept
<1>3. RightInv => RightBytes
  BY DEF RightInv, RightReq, RightAnswer, RightBytes
<1> QED BY <1>1, <1>2, <1>3, PTL DEF PlayerSpec
=============================================================================
