----------------------------- MODULE StoreQueue -----------------------------
(***************************************************************************)
(* The queue of IndexedDB writes (background/cache/store-queue.js): at     *)
(* most Concurrency writes run, at most Depth are queued or running, the   *)
(* writes of a key follow each other through a chain of promises whose     *)
(* last link is the key's tail, and player captures ("high") overtake or   *)
(* evict speculative writes ("low").                                       *)
(*                                                                         *)
(* Calls arrive as messages, one per turn of the event loop; everything a  *)
(* settled promise causes (the next pump, the next link of a chain, the    *)
(* removal of a tail) is a microtask, so it happens before the next call.  *)
(***************************************************************************)
EXTENDS Naturals, SequencesExt

CONSTANTS
    Tasks,        \* the calls of enqueueStoreWrite
    Keys,         \* normalized store keys
    KeyOf,        \* [Tasks -> Keys \cup {Nil}], Nil: a call without a key
    Priority,     \* [Tasks -> {"high", "low"}]
    Concurrency,  \* STORE_WRITE_CONCURRENCY
    Depth,        \* STORE_WRITE_MAX_QUEUE_DEPTH
    MaxTails,     \* MAX_PER_KEY_TAILS
    Nil

(* resolveMaxQueueDepth never falls below the concurrency, and the shipped
   limits are 4, 256 and 512. *)
ASSUME QueueAssumption ==
    /\ IsFiniteSet(Tasks) /\ IsFiniteSet(Keys)
    /\ KeyOf \in [Tasks -> Keys \cup {Nil}] /\ Nil \notin Keys /\ Nil \notin Tasks
    /\ Priority \in [Tasks -> {"high", "low"}]
    /\ Concurrency \in Nat \ {0} /\ Depth \in Nat /\ MaxTails \in Nat
    /\ Concurrency <= Depth

VARIABLES
    state,      \* how far each call has come
    waitQueue,  \* the queued calls, next to start first
    active,     \* the number of running writes, as the code counts them
    perKeyTail, \* key -> call whose chain link ends the key's chain, or Nil
    prev,       \* call -> call it was chained behind, or Nil
    pumpDue,    \* a queueMicrotask(pumpWaitQueue) has not run yet
    ticket,     \* history: the place of a call among those for its key, from 1
    calls       \* history: calls made for each key

vars == <<state, waitQueue, active, perKeyTail, prev, pumpDue, ticket, calls>>

States == {"new", "chained", "queued", "running", "ok", "failed", "dropped"}

Settled(t) == state[t] \in {"ok", "failed", "dropped"}
Running == {t \in Tasks : state[t] = "running"}

(* The call was chained behind one that has not settled. *)
Behind(t) == prev[t] # Nil /\ ~Settled(prev[t])

LiveKeys(tails) == {k \in Keys : tails[k] # Nil}

(* The position of the first low-priority entry, or one past the end. *)
FirstLow(q) ==
    LET low == {i \in 1..Len(q) : Priority[q[i]] = "low"}
    IN  IF low = {} THEN Len(q) + 1 ELSE Min(low)

(* insertByPriority: a capture goes before the first speculative write. *)
Inserted(q, t) ==
    IF Priority[t] = "low" THEN Append(q, t) ELSE InsertAt(q, FirstLow(q), t)

-----------------------------------------------------------------------------
(* pumpWaitQueue on queue q, with the calls in states st: the heads of the
   queue start while there is room. *)
Pump(q, st) ==
    LET room == IF active < Concurrency THEN Concurrency - active ELSE 0
        n == IF room < Len(q) THEN room ELSE Len(q)
        started == {q[i] : i \in 1..n}
    IN  /\ state' = [t \in Tasks |-> IF t \in started THEN "running" ELSE st[t]]
        /\ waitQueue' = SubSeq(q, n + 1, Len(q))
        /\ active' = active + n

(* enqueueUnbounded when the queue is full and nothing gives way. *)
Refused(t) ==
    /\ Len(waitQueue) + active >= Depth
    /\ Priority[t] = "low" \/ FirstLow(waitQueue) > Len(waitQueue)
    /\ state' = [state EXCEPT ![t] = "dropped"]
    /\ UNCHANGED <<waitQueue, active>>

(* The queue is full: a capture takes the place of the first speculative
   write, whose caller is told of the back-pressure. *)
Evicts(t) ==
    LET low == FirstLow(waitQueue) IN
    /\ Len(waitQueue) + active >= Depth
    /\ Priority[t] = "high" /\ low <= Len(waitQueue)
    /\ Pump(Inserted(RemoveAt(waitQueue, low), t),
            [state EXCEPT ![waitQueue[low]] = "dropped", ![t] = "queued"])

Enters(t) ==
    /\ Len(waitQueue) + active < Depth
    /\ Pump(Inserted(waitQueue, t), [state EXCEPT ![t] = "queued"])

Enqueue(t) == Refused(t) \/ Evicts(t) \/ Enters(t)

(* prunePerKeyTails: above the limit the longest present keys are forgotten,
   here any of them. *)
Pruned(tails) ==
    IF Cardinality(LiveKeys(tails)) <= MaxTails
    THEN {tails}
    ELSE {[k \in Keys |-> IF k \in kept THEN tails[k] ELSE Nil] :
             kept \in kSubset(MaxTails, LiveKeys(tails))}

-----------------------------------------------------------------------------
(* Nothing is left for a microtask to do. *)
Quiet ==
    /\ ~pumpDue
    /\ \A t \in Tasks : state[t] = "chained" => Behind(t)
    /\ \A k \in LiveKeys(perKeyTail) : ~Settled(perKeyTail[k])

Called(t) ==
    /\ Quiet
    /\ state[t] = "new"
    /\ calls' = [calls EXCEPT ![KeyOf[t]] = @ + 1]
    /\ ticket' = [ticket EXCEPT ![t] = calls'[KeyOf[t]]]

(* enqueueStoreWrite with a key: the call is chained behind the tail. *)
Call(t) ==
    /\ Called(t)
    /\ KeyOf[t] # Nil
    /\ state' = [state EXCEPT ![t] = "chained"]
    /\ prev' = [prev EXCEPT ![t] = perKeyTail[KeyOf[t]]]
    /\ perKeyTail' \in Pruned([perKeyTail EXCEPT ![KeyOf[t]] = t])
    /\ UNCHANGED <<waitQueue, active, pumpDue>>

CallWithoutKey(t) ==
    /\ Called(t)
    /\ KeyOf[t] = Nil
    /\ Enqueue(t)
    /\ UNCHANGED <<perKeyTail, prev, pumpDue>>

(* A faulty LinkSettles: a failed write breaks the chain of its key. *)
LinkSettlesIfOk(t) ==
    /\ state[t] = "chained"
    /\ prev[t] # Nil => state[prev[t]] = "ok"
    /\ Enqueue(t)
    /\ UNCHANGED <<perKeyTail, prev, pumpDue, ticket, calls>>

(* The previous link has settled, one way or the other. *)
LinkSettles(t) ==
    /\ state[t] = "chained"
    /\ ~Behind(t)
    /\ Enqueue(t)
    /\ UNCHANGED <<perKeyTail, prev, pumpDue, ticket, calls>>

(* A faulty Finish: the next pump is forgotten. *)
FinishWithoutPump(t, outcome) ==
    /\ state[t] = "running"
    /\ state' = [state EXCEPT ![t] = outcome]
    /\ active' = IF active > 0 THEN active - 1 ELSE 0
    /\ UNCHANGED <<waitQueue, perKeyTail, prev, pumpDue, ticket, calls>>

(* finish: the write ended well or not; its caller is answered. *)
Finish(t, outcome) ==
    /\ state[t] = "running"
    /\ state' = [state EXCEPT ![t] = outcome]
    /\ active' = IF active > 0 THEN active - 1 ELSE 0
    /\ pumpDue' = TRUE
    /\ UNCHANGED <<waitQueue, perKeyTail, prev, ticket, calls>>

PumpRuns ==
    /\ pumpDue
    /\ pumpDue' = FALSE
    /\ Pump(waitQueue, state)
    /\ UNCHANGED <<perKeyTail, prev, ticket, calls>>

(* A faulty ReleaseTail: the tail goes whoever's link it is. *)
ReleaseAnyTail(t) ==
    /\ Settled(t) /\ KeyOf[t] # Nil /\ perKeyTail[KeyOf[t]] # Nil
    /\ perKeyTail' = [perKeyTail EXCEPT ![KeyOf[t]] = Nil]
    /\ UNCHANGED <<state, waitQueue, active, prev, pumpDue, ticket, calls>>

(* The finally of a settled call: its own link leaves the table. *)
ReleaseTail(t) ==
    /\ Settled(t) /\ KeyOf[t] # Nil /\ perKeyTail[KeyOf[t]] = t
    /\ perKeyTail' = [perKeyTail EXCEPT ![KeyOf[t]] = Nil]
    /\ UNCHANGED <<state, waitQueue, active, prev, pumpDue, ticket, calls>>

-----------------------------------------------------------------------------
Init ==
    /\ state = [t \in Tasks |-> "new"]
    /\ waitQueue = <<>>
    /\ active = 0
    /\ perKeyTail = [k \in Keys |-> Nil]
    /\ prev = [t \in Tasks |-> Nil]
    /\ pumpDue = FALSE
    /\ ticket = [t \in Tasks |-> 0]
    /\ calls = [k \in Keys \cup {Nil} |-> 0]

Microtask ==
    \/ PumpRuns
    \/ \E t \in Tasks : LinkSettles(t) \/ ReleaseTail(t)

Next ==
    \/ \E t \in Tasks : Call(t) \/ CallWithoutKey(t)
    \/ \E t \in Tasks, outcome \in {"ok", "failed"} : Finish(t, outcome)
    \/ Microtask

Spec == Init /\ [][Next]_vars

(* Microtasks run; a write ends, since every await of cacheChunk against
   IndexedDB has a timeout (db.js:214-290). Calls are never forced. *)
LiveSpec ==
    /\ Spec
    /\ WF_vars(Microtask)
    /\ WF_vars(\E t \in Tasks, outcome \in {"ok", "failed"} : Finish(t, outcome))

-----------------------------------------------------------------------------
TypeOK ==
    /\ state \in [Tasks -> States]
    /\ waitQueue \in Seq(Tasks)
    /\ active \in Nat
    /\ perKeyTail \in [Keys -> Tasks \cup {Nil}]
    /\ prev \in [Tasks -> Tasks \cup {Nil}]
    /\ pumpDue \in BOOLEAN
    /\ ticket \in [Tasks -> Nat]
    /\ calls \in [Keys \cup {Nil} -> Nat]

(* The counter is exact across evictions, drops, failures and late pumps, and
   neither limit is ever exceeded. *)
Bounded ==
    /\ active = Cardinality(Running)
    /\ active <= Concurrency
    /\ Len(waitQueue) + active <= Depth

(* "the same key always serializes so two writers cannot race"
   (store-queue.js:134): when a call has entered the queue, every earlier call
   for its key has settled. Holds although tails are pruned, because the limit
   on tails exceeds the queue depth. *)
SameKeySerializes ==
    \A s, t \in Tasks :
        /\ KeyOf[s] = KeyOf[t] /\ KeyOf[s] # Nil
        /\ 0 < ticket[s] /\ ticket[s] < ticket[t]
        /\ state[t] # "chained"
        => Settled(s)

(* Once the microtasks are done, no write waits while a slot is free: the pump
   deferred by finish is never lost. *)
NoIdleSlot == Quiet => waitQueue = <<>> \/ active >= Concurrency

(* Every caller is answered, the evicted and those behind a failed write too:
   "Failures on one key never poison later writes" (store-queue.js:135). The
   calls are finitely many and an answer is final, so this is the same as
   ticket[t] > 0 ~> Settled(t) for every call. *)
EveryCallIsAnswered ==
    <>[](\A t \in Tasks : ticket[t] > 0 => Settled(t))

=============================================================================
