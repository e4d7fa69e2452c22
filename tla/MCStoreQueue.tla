---------------------------- MODULE MCStoreQueue ----------------------------
(* What becomes of a store, in kinds that share no state: five calls of the
   write queue, three of one key, one of another, one without; or the registry,
   with one key sent to the second of two tabs by two flushes that overlap, or
   with three keys, of which a payload holds two, sent to one tab whose page keeps
   one and trims the rest, as the shipped limits have it (1600 and 800). The three
   are stored in order. *)
EXTENDS StoreQueue, RegistrySync, TLC

CONSTANTS t1, t2, t3, t4, t5, k1, k2, k3

MCKeyOf == (t1 :> k1) @@ (t2 :> k1) @@ (t3 :> k1) @@ (t4 :> k2) @@ (t5 :> Nil)
MCPriority == (t1 :> "low") @@ (t2 :> "high") @@ (t3 :> "low") @@ (t4 :> "low") @@ (t5 :> "high")

Ordered == {SelectSeq(<<k1, k2, k3>>, LAMBDA k : k \in stored) : stored \in SUBSET RegKeys}

VARIABLE kind

MCInit ==
    /\ Init /\ SyncInit
    /\ kind \in {"queue", "overlap", "surplus"}
MCNext ==
    /\ \/ kind = "queue" /\ Next /\ UNCHANGED syncVars
       \/ kind # "queue" /\ SyncNext /\ UNCHANGED vars
    /\ kind = "overlap" => ToSet(registry') \subseteq {k1} /\ page'[2].intents = {}
    /\ kind = "surplus" => /\ 1 \notin media' /\ flush'[2].pc = "idle"
                           /\ page'[2].trust # "stale" /\ ~page'[2].doubted /\ registry' \in Ordered
    /\ UNCHANGED kind
MCSpec ==
    /\ MCInit /\ [][MCNext]_<<kind, vars, syncVars>>
    /\ WF_vars(Microtask)
    /\ WF_vars(\E t \in Tasks, outcome \in {"ok", "failed"} : Finish(t, outcome))
=============================================================================
