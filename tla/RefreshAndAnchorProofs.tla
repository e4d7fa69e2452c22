----------------------- MODULE RefreshAndAnchorProofs -----------------------
(***************************************************************************)
(* Proofs about ManifestRefresh, for any number of state objects, frames,  *)
(* retries and probes: its timers and its states agree, and a tab is left  *)
(* to itself only for one of three causes. And about Anchor, for any       *)
(* places and episodes: which segments may move the anchor far, and what   *)
(* it may still owe to an old episode.                                     *)
(***************************************************************************)
EXTENDS ManifestRefresh, Anchor, FiniteSetTheorems, TLAPS

(* An object that is not made yet holds no timer and has asked nothing. *)
Unmade ==
    /\ \A k \in Kinds, x \in Objects : x > made => handle[k][x] = 0
    /\ \A c \in calls : c.by \in 1..made

(* The handle of a probe is never copied. *)
HealIsOwn == \A x \in Objects : handle["heal"][x] \in {0, x}

(* In auth_expired the probe of the very attempt that expired is pending: an
   earlier one may find the tab refused. *)
Probed ==
    tab # 0 /\ obj[tab].st = "auth_expired" =>
        \/ causes # {}
        \/ \E o \in Objects : Pending("heal", o) /\ obj[o].gen = obj[tab].gen

(* While the tab refreshes a retry is pending, or the timeout of an object that
   takes itself to refresh still. *)
Timed ==
    tab # 0 /\ obj[tab].st = "refreshing" =>
        \/ "replaced" \in causes
        \/ \E o \in Objects : Pending("retry", o)
        \/ \E o \in Objects : Pending("timeout", o) /\ obj[o].st = "refreshing"

IInv == TypeOK /\ OwnTimersEnd /\ Unmade /\ HealIsOwn /\ Probed /\ Timed

-----------------------------------------------------------------------------
(* What the operators on timers and fields return. *)
LEMMA ClearedIs ==
    ASSUME NEW h \in Handles, NEW K \in SUBSET Kinds, NEW o \in Objects
    PROVE  /\ Cleared(h, K, o) \in Handles
           /\ \A k \in Kinds, x \in Objects :
                 Cleared(h, K, o)[k][x] = IF k \in K /\ h[k][x] = h[k][o] THEN 0 ELSE h[k][x]
<1>1. \A k \in Kinds, x \in Objects :
         Cleared(h, K, o)[k][x] = IF k \in K /\ h[k][x] = h[k][o] THEN 0 ELSE h[k][x]
    BY DEF Cleared, Handles
<1>2. Cleared(h, K, o) \in Handles
    BY RefreshAssumption DEF Cleared, Handles, Objects
<1> QED BY <1>1, <1>2

LEMMA ArmedIs ==
    ASSUME NEW h \in Handles, NEW j \in Kinds, NEW o \in Objects
    PROVE  /\ Armed(h, j, o) \in Handles
           /\ \A k \in Kinds, x \in Objects :
                 Armed(h, j, o)[k][x] = IF k # j THEN h[k][x]
                                        ELSE IF x = o THEN o
                                        ELSE IF h[k][x] = h[k][o] THEN 0 ELSE h[k][x]
<1> DEFINE c == Cleared(h, {j}, o)
<1>1. /\ c \in Handles
      /\ \A k \in Kinds, x \in Objects :
            c[k][x] = IF k \in {j} /\ h[k][x] = h[k][o] THEN 0 ELSE h[k][x]
    BY ClearedIs
<1>2. Armed(h, j, o) = [c EXCEPT ![j][o] = o]
    BY DEF Armed
<1>3. o \in 0..MaxObjects
    BY RefreshAssumption DEF Objects
<1> HIDE DEF c
<1>4. Armed(h, j, o) \in Handles
    BY <1>1, <1>2, <1>3 DEF Handles
<1>5. \A k \in Kinds, x \in Objects :
         Armed(h, j, o)[k][x] = IF k = j /\ x = o THEN o ELSE c[k][x]
    BY <1>1, <1>2 DEF Handles
<1> QED BY <1>1, <1>4, <1>5

LEMMA EnteredIs ==
    ASSUME NEW r \in Fields,
           NEW s \in {"healthy", "refreshing", "recovering", "auth_expired"}
    PROVE  /\ Entered(r, s) \in Fields
           /\ Entered(r, s).st = s /\ Entered(r, s).gen = r.gen
<1>0. /\ 0 \in Nat /\ 0 \in 0..MaxProbes /\ 0 \in 0..Target /\ 2 \in 0..2
      /\ FALSE \in BOOLEAN /\ TRUE \in BOOLEAN
    BY RefreshAssumption
<1>1. CASE r.st = s
    BY <1>1, Zenon DEF Entered
<1>2. CASE r.st # s /\ s = "healthy"
    <2>1. Entered(r, s) = [r EXCEPT !.st = s, !.attempt = 0, !.successes = 0, !.warm = FALSE]
        BY <1>2 DEF Entered
    <2> QED BY <1>0, <2>1 DEF Fields
<1>3. CASE r.st # s /\ s = "recovering"
    <2>1. Entered(r, s) = [r EXCEPT !.st = s, !.attempt = 0, !.heal = 0, !.successes = 0,
                                    !.warm = TRUE]
        BY <1>3 DEF Entered
    <2> QED BY <1>0, <2>1 DEF Fields
<1>4. CASE r.st # s /\ s = "auth_expired"
    <2>1. Entered(r, s) = [r EXCEPT !.st = s, !.wait = 2]
        BY <1>4 DEF Entered
    <2> QED BY <1>0, <2>1 DEF Fields
<1>5. CASE r.st # s /\ s = "refreshing"
    <2>1. Entered(r, s) = [r EXCEPT !.st = s]
        BY <1>5 DEF Entered
    <2> QED BY <1>0, <2>1 DEF Fields
<1> QED BY <1>1, <1>2, <1>3, <1>4, <1>5

LEMMA ClearedByIs ==
    ASSUME NEW r, NEW s
    PROVE  /\ ClearedBy(r, s) \in SUBSET Kinds
           /\ r.st = s => ClearedBy(r, s) = {}
           /\ r.st # s /\ s = "healthy" => ClearedBy(r, s) = Kinds
<1>1. r.st = s => ClearedBy(r, s) = {}
    BY DEF ClearedBy
<1>2. r.st # s /\ s = "healthy" => ClearedBy(r, s) = Kinds
    BY DEF ClearedBy
<1>3. ClearedBy(r, s) \in SUBSET Kinds
    BY DEF ClearedBy, Kinds
<1> QED BY <1>1, <1>2, <1>3

LEMMA RetiredIs ==
    ASSUME NEW r \in Fields
    PROVE  Retired(r) \in Fields /\ Retired(r).st = r.st /\ Retired(r).gen = r.gen
<1>1. 0 \in Nat /\ 0 \in 0..MaxProbes /\ 0 \in 0..Target /\ 0 \in 0..2 /\ FALSE \in BOOLEAN
    BY RefreshAssumption
<1>2. Fresh \in Fields
    BY <1>1 DEF Fresh, Fields
<1> QED BY <1>2 DEF Retired, Fields

-----------------------------------------------------------------------------
(* An attempt leaves the tab refreshing, with its own timeout pending. *)
LEMMA AttemptKeeps ==
    ASSUME IInv, tab # 0, NEW r \in Fields, NEW h \in Handles, Attempt(r, h),
           \A k \in Kinds, x \in Objects : h[k][x] \in {0, handle[k][x]},
           UNCHANGED <<made, tab, answers>>, requests' \in 0..MaxRequests
    PROVE  IInv'
<1>0. "timeout" \in Kinds
    BY DEF Kinds
<1>1. tab \in Objects /\ tab \in 1..made
    BY RefreshAssumption DEF IInv, TypeOK, Objects
<1>2. /\ handle' \in Handles
      /\ \A k \in Kinds, x \in Objects :
            handle'[k][x] = IF k # "timeout" THEN h[k][x]
                            ELSE IF x = tab THEN tab
                            ELSE IF h[k][x] = h[k][tab] THEN 0 ELSE h[k][x]
    <2>1. handle' = Armed(h, "timeout", tab)
        BY DEF Attempt
    <2> HIDE DEF Handles
    <2> QED BY ONLY <1>0, <1>1, <2>1, ArmedIs, h \in Handles
<1> DEFINE e == Entered(r, "refreshing")
<1>3. e \in Fields /\ e.st = "refreshing"
    BY EnteredIs
<1>4. obj' = [obj EXCEPT ![tab] = [e EXCEPT !.gen = r.gen + 1, !.charged = FALSE,
                                            !.wait = IF @ = 2 THEN 2 ELSE 1]]
    BY DEF Attempt
<1> HIDE DEF e
<1>5. obj' \in [Objects -> Fields] /\ obj'[tab].st = "refreshing"
    <2> DEFINE u == [e EXCEPT !.gen = r.gen + 1, !.charged = FALSE,
                              !.wait = IF @ = 2 THEN 2 ELSE 1]
    <2>1. r.gen + 1 \in Nat /\ (IF e.wait = 2 THEN 2 ELSE 1) \in 0..2
        BY DEF Fields
    <2>2. u \in Fields /\ u.st = "refreshing"
        BY <1>3, <2>1 DEF Fields
    <2>3. obj \in [Objects -> Fields] /\ obj' = [obj EXCEPT ![tab] = u]
        BY <1>4 DEF IInv, TypeOK
    <2> HIDE DEF u
    <2> QED BY <1>1, <2>2, <2>3
<1>6. TypeOK'
    BY <1>1, <1>2, <1>5 DEF IInv, TypeOK, Attempt, Fields
<1>7. OwnTimersEnd'
    BY <1>5 DEF OwnTimersEnd
<1>8. Unmade'
    BY <1>1, <1>2 DEF IInv, TypeOK, Unmade, Attempt, Objects
<1>9. HealIsOwn'
    BY <1>2 DEF IInv, HealIsOwn, Kinds
<1>10. Probed'
    BY <1>5 DEF Probed
<1>11. Timed'
    <2>1. handle'["timeout"][tab] = tab
        BY <1>0, <1>1, <1>2
    <2> QED BY <1>1, <1>5, <2>1 DEF Timed, Pending
<1> QED BY <1>6, <1>7, <1>8, <1>9, <1>10, <1>11 DEF IInv

(* A failed attempt is charged to the object o, which need not be the tab's: it gets
   a retry or expires. *)
LEMMA ChargeKeeps ==
    ASSUME IInv, NEW o \in Objects, o \in 1..made, NEW r \in Fields, NEW h \in Handles,
           Charge(o, r, h), r.st = obj[o].st, r.gen = obj[o].gen,
           \/ h = handle
           \/ h = Cleared(handle, {"timeout"}, o) /\ Pending("timeout", o),
           UNCHANGED <<made, tab, requests>>, calls' \subseteq calls,
           answers' \subseteq Nat \X Frames
    PROVE  IInv'
<1>0. "timeout" \in Kinds /\ "retry" \in Kinds /\ "heal" \in Kinds
      /\ \A k \in Kinds : k \in {"timeout", "retry", "heal"}
    BY DEF Kinds
<1>1. /\ handle \in Handles /\ obj \in [Objects -> Fields] /\ tab \in 0..made
      /\ tab # 0 => tab \in Objects
    BY RefreshAssumption DEF IInv, TypeOK, Objects
<1>2. \A k \in Kinds, x \in Objects :
         /\ h[k][x] = handle[k][x] \/ h[k][x] = 0
         /\ k # "timeout" => h[k][x] = handle[k][x]
         /\ handle[k][x] # handle[k][o] => h[k][x] = handle[k][x]
    <2>1. CASE h = handle
        BY <2>1
    <2>2. CASE h = Cleared(handle, {"timeout"}, o)
        <3>1. {"timeout"} \in SUBSET Kinds
            BY <1>0
        <3>2. \A k \in Kinds, x \in Objects :
                 h[k][x] = IF k \in {"timeout"} /\ handle[k][x] = handle[k][o]
                           THEN 0 ELSE handle[k][x]
            BY ONLY <1>1, <2>2, <3>1, ClearedIs, o \in Objects
        <3> QED BY <3>2
    <2> QED BY <2>1, <2>2
<1>3. CASE r.st # "refreshing"
    <2>1. /\ obj' = [obj EXCEPT ![o] = r] /\ handle' = h
          /\ UNCHANGED causes
        BY <1>3 DEF Charge
    <2>2. obj' \in [Objects -> Fields]
          /\ \A x \in Objects : obj'[x].st = obj[x].st /\ obj'[x].gen = obj[x].gen
        BY <1>1, <2>1
    <2>3. TypeOK'
        BY <2>1, <2>2 DEF IInv, TypeOK
    <2>4. OwnTimersEnd'
        BY <1>0, <1>1, <1>2, <2>1, <2>2 DEF IInv, OwnTimersEnd
    <2>5. Unmade'
        BY <1>2, <2>1 DEF IInv, Unmade
    <2>6. HealIsOwn'
        BY <1>0, <1>2, <2>1 DEF IInv, HealIsOwn
    <2>7. Probed'
        BY <1>0, <1>1, <1>2, <2>1, <2>2 DEF IInv, Probed, Pending
    <2>8. Timed'
        <3>1. ASSUME NEW x \in Objects, Pending("timeout", x), obj[x].st = "refreshing"
              PROVE  h["timeout"][x] = x
            <4>1. CASE h = handle
                BY <4>1, <3>1 DEF Pending
            <4>2. CASE Pending("timeout", o)
                BY <1>0, <1>2, <1>3, <3>1, <4>2 DEF Pending
            <4> QED BY <4>1, <4>2
        <3> QED BY <1>0, <1>1, <1>2, <2>1, <2>2, <3>1 DEF IInv, Timed, Pending
    <2> QED BY <2>3, <2>4, <2>5, <2>6, <2>7, <2>8 DEF IInv
<1>4. CASE r.st = "refreshing" /\ r.attempt < MaxRetries
    <2> DEFINE u == [r EXCEPT !.attempt = @ + 1]
    <2>0. u \in Fields /\ u.st = r.st /\ u.gen = r.gen
        BY DEF Fields
    <2>1. /\ obj' = [obj EXCEPT ![o] = u] /\ handle' = Armed(h, "retry", o)
          /\ UNCHANGED causes
        <3>1. ~(r.attempt >= MaxRetries) /\ ~(r.st # "refreshing")
            BY <1>4, RefreshAssumption DEF Fields
        <3> QED BY <1>4, <3>1 DEF Charge
    <2> HIDE DEF u
    <2>2. obj' \in [Objects -> Fields]
          /\ \A x \in Objects : obj'[x].st = obj[x].st /\ obj'[x].gen = obj[x].gen
        BY <1>1, <2>0, <2>1
    <2>3. /\ handle' \in Handles
          /\ \A k \in Kinds, x \in Objects :
                handle'[k][x] = IF k # "retry" THEN h[k][x]
                                ELSE IF x = o THEN o
                                ELSE IF h[k][x] = h[k][o] THEN 0 ELSE h[k][x]
        <3>1. o \in Objects /\ h \in Handles /\ "retry" \in Kinds
            BY <1>0
        <3> QED BY ONLY <2>1, <3>1, ArmedIs
    <2>4. TypeOK'
        BY <2>1, <2>2, <2>3 DEF IInv, TypeOK
    <2>5. OwnTimersEnd'
        <3>1. tab # 0 /\ obj'[tab].st # "refreshing" => tab # o
            BY <1>1, <1>4, <2>2
        <3>2. \A k \in Kinds : tab # 0 /\ tab # o /\ handle[k][tab] = 0 => handle'[k][tab] = 0
            BY <1>0, <1>1, <1>2, <2>3
        <3> QED BY <1>0, <1>1, <2>2, <3>1, <3>2 DEF IInv, OwnTimersEnd
    <2>6. Unmade'
        BY <1>2, <2>1, <2>3 DEF IInv, TypeOK, Unmade, Objects
    <2>7. HealIsOwn'
        BY <1>0, <1>2, <2>3 DEF IInv, HealIsOwn
    <2>8. Probed'
        BY <1>0, <1>1, <1>2, <2>1, <2>2, <2>3 DEF IInv, Probed, Pending
    <2>9. Timed'
        BY <1>0, <2>3 DEF Timed, Pending
    <2> QED BY <2>4, <2>5, <2>6, <2>7, <2>8, <2>9 DEF IInv
<1>5. CASE r.st = "refreshing" /\ ~(r.attempt < MaxRetries)
    <2> DEFINE e == Entered(r, "auth_expired")
               u == [e EXCEPT !.attempt = @ + 1]
               c == Cleared(h, Kinds, o)
    <2>0. r.attempt >= MaxRetries
        BY <1>5, RefreshAssumption DEF Fields
    <2>1. Expire(o, r, h)
        BY <1>5, <2>0 DEF Charge
    <2>2. e \in Fields /\ e.st = "auth_expired" /\ e.gen = r.gen
        BY EnteredIs
    <2>3. e.heal = r.heal
        BY <1>5 DEF Entered, Fields
    <2> HIDE DEF e
    <2>4. u \in Fields /\ u.st = "auth_expired" /\ u.gen = r.gen /\ u.heal = r.heal
        BY <2>2, <2>3 DEF Fields
    <2>5. /\ c \in Handles
          /\ \A k \in Kinds, x \in Objects :
                c[k][x] = IF h[k][x] = h[k][o] THEN 0 ELSE h[k][x]
        <3>1. Kinds \in SUBSET Kinds
            OBVIOUS
        <3> QED BY ONLY <3>1, ClearedIs, o \in Objects, h \in Handles
    <2>6. /\ handle' \in Handles
          /\ \A k \in Kinds, x \in Objects :
                handle'[k][x] = IF k = "heal" /\ x = o /\ MayProbe(r) THEN o ELSE c[k][x]
        <3>1. CASE MayProbe(r)
            <4>1. handle' = Armed(c, "heal", o)
                BY <2>1, <3>1 DEF Expire
            <4> HIDE DEF c
            <4>2. /\ handle' \in Handles
                  /\ \A k \in Kinds, x \in Objects :
                        handle'[k][x] = IF k # "heal" THEN c[k][x]
                                        ELSE IF x = o THEN o
                                        ELSE IF c[k][x] = c[k][o] THEN 0 ELSE c[k][x]
                <5>1. c \in Handles /\ o \in Objects /\ "heal" \in Kinds
                    BY <1>0, <2>5
                <5> QED BY ONLY <4>1, <5>1, ArmedIs
            <4>3. \A k \in Kinds : c[k][o] = 0
                BY <2>5
            <4> QED BY <3>1, <4>2, <4>3
        <3>2. CASE ~MayProbe(r)
            BY <2>1, <2>5, <3>2 DEF Expire
        <3> QED BY <3>1, <3>2
    <2>7. /\ obj' \in [Objects -> Fields] /\ obj'[o].st = "auth_expired" /\ obj'[o].gen = obj[o].gen
          /\ \A x \in Objects \ {o} : obj'[x] = obj[x]
        <3>1. CASE MayProbe(r)
            <4>1. obj' = [obj EXCEPT ![o] = [u EXCEPT !.heal = @ + 1]]
                BY <2>1, <3>1 DEF Expire, e
            <4> HIDE DEF u
            <4>2. u.heal + 1 \in 0..MaxProbes
                BY <2>4, <3>1, RefreshAssumption DEF MayProbe, Fields
            <4>3. [u EXCEPT !.heal = @ + 1] \in Fields
                BY <2>4, <4>2 DEF Fields
            <4>4. [u EXCEPT !.heal = @ + 1].st = u.st /\ [u EXCEPT !.heal = @ + 1].gen = u.gen
                BY <2>4 DEF Fields
            <4> QED BY <1>1, <2>4, <4>1, <4>3, <4>4
        <3>2. CASE ~MayProbe(r)
            <4>1. obj' = [obj EXCEPT ![o] = u]
                BY <2>1, <3>2 DEF Expire, e
            <4> HIDE DEF u
            <4> QED BY <1>1, <2>4, <4>1
        <3> QED BY <3>1, <3>2
    <2>8. /\ causes' \subseteq {"budget", "scrubbing", "replaced"}
          /\ causes \subseteq causes'
          /\ o # tab => "replaced" \in causes'
          /\ ~MayProbe(r) => "budget" \in causes'
        <3>1. ~MayProbe(r) => r.heal = MaxProbes
            BY RefreshAssumption DEF MayProbe, Fields
        <3>2. causes' = causes \cup (IF o # tab THEN {"replaced"} ELSE {})
                              \cup (IF r.heal = MaxProbes THEN {"budget"} ELSE {})
            BY <2>1 DEF Expire
        <3> QED BY <3>1, <3>2 DEF IInv, TypeOK
    <2> HIDE DEF c
    <2>9. TypeOK'
        <3>1. made' \in 0..MaxObjects /\ tab' \in 0..made' /\ calls' \subseteq [by : Objects, gen : Nat]
              /\ answers' \subseteq Nat \X Frames
            BY <1>1 DEF IInv, TypeOK
        <3> QED BY <1>1, <2>6, <2>7, <2>8, <3>1 DEF IInv, TypeOK
    <2>10. OwnTimersEnd'
        <3>1. CASE o = tab
            BY <1>0, <2>5, <2>6, <2>7, <3>1 DEF OwnTimersEnd
        <3>2. CASE o # tab
            BY <1>0, <1>1, <1>2, <2>5, <2>6, <2>7, <3>2 DEF IInv, OwnTimersEnd
        <3> QED BY <3>1, <3>2
    <2>11. Unmade'
        BY <1>2, <2>5, <2>6 DEF IInv, TypeOK, Unmade, Objects
    <2>12. HealIsOwn'
        BY <1>0, <1>2, <2>5, <2>6 DEF IInv, HealIsOwn
    <2>13. Probed'
        BY <1>0, <2>6, <2>7, <2>8 DEF Probed, Pending
    <2>14. Timed'
        BY <2>7, <2>8 DEF Timed
    <2> QED BY <2>9, <2>10, <2>11, <2>12, <2>13, <2>14 DEF IInv
<1> QED BY <1>3, <1>4, <1>5

(* The tab's object is replaced: the timers it holds a handle of are cleared with the
   refresh, or go on for the new object. *)
LEMMA ReplaceKeeps ==
    ASSUME IInv, NEW r \in Fields, NEW K \in SUBSET Kinds, Replace(r, handle, K),
           r.st \in {"refreshing", "auth_expired"} =>
                tab # 0 /\ r.st = obj[tab].st /\ r.gen = obj[tab].gen /\ K = {},
           r.st \in {"refreshing", "auth_expired"} \/ K = Kinds
                \/ tab = 0 \/ obj[tab].st # "refreshing",
           UNCHANGED <<requests, causes, calls>>, answers' \subseteq answers
    PROVE  IInv'
<1> DEFINE n == made + 1
           copied == [k \in Kinds |->
                        [handle[k] EXCEPT ![n] = IF tab = 0 \/ k = "heal" THEN 0
                                                 ELSE handle[k][tab]]]
<1>0. "timeout" \in Kinds /\ "retry" \in Kinds /\ "heal" \in Kinds
    BY DEF Kinds
<1>1. /\ handle \in Handles /\ obj \in [Objects -> Fields] /\ made \in Nat /\ tab \in 0..made
      /\ tab # 0 => tab \in Objects
      /\ n \in Objects /\ n # tab
    BY RefreshAssumption DEF IInv, TypeOK, Objects, Replace
<1>2. /\ made' = n /\ tab' = n
      /\ obj' = [o \in Objects |-> IF o = n THEN r
                                   ELSE IF o = tab THEN Retired(obj[o]) ELSE obj[o]]
      /\ handle' = Cleared(copied, K, n)
    BY DEF Replace
<1>3. /\ copied \in Handles
      /\ \A k \in Kinds, x \in Objects :
            copied[k][x] = IF x # n THEN handle[k][x]
                           ELSE IF tab = 0 \/ k = "heal" THEN 0 ELSE handle[k][tab]
    <2>1. 0 \in 0..MaxObjects
        BY RefreshAssumption
    <2> QED BY <1>1, <2>1 DEF Handles
<1> HIDE DEF copied
<1>4. /\ handle' \in Handles
      /\ \A k \in Kinds, x \in Objects :
            handle'[k][x] = IF k \in K /\ copied[k][x] = copied[k][n] THEN 0 ELSE copied[k][x]
    <2>1. /\ Cleared(copied, K, n) \in Handles
          /\ \A k \in Kinds, x \in Objects :
                Cleared(copied, K, n)[k][x]
                    = IF k \in K /\ copied[k][x] = copied[k][n] THEN 0 ELSE copied[k][x]
        <3>1. copied \in Handles /\ n \in Objects /\ K \in SUBSET Kinds
            BY <1>1, <1>3
        <3> HIDE DEF n
        <3> QED BY <3>1, ClearedIs
    <2> QED BY <1>2, <2>1
<1>6. /\ obj' \in [Objects -> Fields] /\ obj'[n] = r
      /\ \A x \in Objects \ {n} : obj'[x].st = obj[x].st /\ obj'[x].gen = obj[x].gen
    BY <1>1, <1>2, RetiredIs
<1> HIDE DEF n
<1>7. TypeOK'
    <2>1. made' \in 0..MaxObjects /\ tab' \in 0..made'
        BY <1>1, <1>2, RefreshAssumption DEF Objects
    <2> QED BY <1>4, <1>6, <2>1 DEF IInv, TypeOK
<1>8. OwnTimersEnd'
    <2>1. CASE K = Kinds
        BY <1>0, <1>1, <1>2, <1>4, <2>1 DEF OwnTimersEnd
    <2>2. CASE r.st = "refreshing"
        BY <1>2, <1>6, <2>2 DEF OwnTimersEnd
    <2>3. handle'["heal"][n] = 0
        BY <1>0, <1>1, <1>3, <1>4
    <2>4. CASE tab = 0 \/ obj[tab].st # "refreshing"
        <3>1. copied["timeout"][n] = 0 /\ copied["retry"][n] = 0
            BY <1>0, <1>1, <1>3, <2>4 DEF IInv, OwnTimersEnd
        <3> QED BY <1>0, <1>1, <1>2, <1>4, <2>3, <3>1 DEF OwnTimersEnd
    <2>5. CASE r.st = "auth_expired"
        BY <2>4, <2>5
    <2> QED BY <2>1, <2>2, <2>4, <2>5
<1>9. Unmade'
    <2>1. \A x \in Objects : x > made' => x > made /\ x # n
        BY <1>1, <1>2 DEF n, Objects
    <2>2. \A x \in 1..made : x \in 1..made'
        BY <1>1, <1>2 DEF n
    <2> QED BY <1>3, <1>4, <2>1, <2>2 DEF IInv, Unmade
<1>10. HealIsOwn'
    BY <1>0, <1>3, <1>4 DEF IInv, HealIsOwn
<1>11. ASSUME r.st \in {"refreshing", "auth_expired"}, NEW k \in Kinds, NEW x \in Objects,
              Pending(k, x)
       PROVE  handle'[k][x] = x /\ x # n
    <2>1. n > made /\ n # 0
        BY <1>1 DEF n
    <2>2. x # n
        BY <1>1, <1>11, <2>1 DEF IInv, Unmade, Pending
    <2> QED BY <1>3, <1>4, <1>11, <2>2 DEF Pending
<1>12. Probed'
    BY <1>0, <1>2, <1>6, <1>11 DEF IInv, Probed, Pending
<1>13. Timed'
    BY <1>0, <1>2, <1>6, <1>11 DEF IInv, Timed, Pending
<1> QED BY <1>7, <1>8, <1>9, <1>10, <1>12, <1>13 DEF IInv

(* The tab's object changes its fields, and clears all its timers when it reaches
   health. *)
LEMMA TabKeeps ==
    ASSUME IInv, tab # 0, NEW r \in Fields, NEW K \in SUBSET Kinds,
           obj' = [obj EXCEPT ![tab] = r], handle' = Cleared(handle, K, tab),
           r.gen = obj[tab].gen,
           \/ r.st = obj[tab].st /\ K = {}
           \/ r.st = "healthy" /\ K = Kinds,
           UNCHANGED <<made, tab, calls, answers, requests, causes>>
    PROVE  IInv'
<1>0. "timeout" \in Kinds /\ "retry" \in Kinds /\ "heal" \in Kinds
    BY DEF Kinds
<1>1. handle \in Handles /\ obj \in [Objects -> Fields] /\ tab \in Objects
    BY RefreshAssumption DEF IInv, TypeOK, Objects
<1>2. /\ handle' \in Handles
      /\ \A k \in Kinds, x \in Objects :
            handle'[k][x] = IF k \in K /\ handle[k][x] = handle[k][tab] THEN 0 ELSE handle[k][x]
    BY ONLY <1>1, ClearedIs, K \in SUBSET Kinds, handle' = Cleared(handle, K, tab)
<1>3. obj' \in [Objects -> Fields] /\ obj'[tab] = r
      /\ \A x \in Objects \ {tab} : obj'[x] = obj[x]
    BY <1>1
<1>4. TypeOK'
    BY <1>2, <1>3 DEF IInv, TypeOK
<1>5. OwnTimersEnd'
    BY <1>0, <1>1, <1>2, <1>3 DEF IInv, OwnTimersEnd
<1>6. Unmade'
    BY <1>2 DEF IInv, Unmade
<1>7. HealIsOwn'
    BY <1>0, <1>2 DEF IInv, HealIsOwn
<1>8. Probed'
    BY <1>0, <1>1, <1>2, <1>3 DEF IInv, Probed, Pending
<1>9. Timed'
    BY <1>0, <1>1, <1>2, <1>3 DEF IInv, Timed, Pending
<1> QED BY <1>4, <1>5, <1>6, <1>7, <1>8, <1>9 DEF IInv

(* The tab's object is dropped, or replaced for another episode by one in health. *)
LEMMA EpisodeKeeps ==
    ASSUME IInv, EpisodeSwitches
    PROVE  IInv'
<1> DEFINE r == obj[tab]
           old == IF r.st = "refreshing" THEN Entered(r, "healthy") ELSE [r EXCEPT !.attempt = 0]
           new == [Carried(old) EXCEPT !.st = "healthy"]
           K == IF r.st = "refreshing" THEN Kinds ELSE {"timeout", "retry"}
           n == made + 1
           stopped == Cleared(handle, K, tab)
<1>0. /\ "timeout" \in Kinds /\ "retry" \in Kinds /\ "heal" \in Kinds
      /\ K \in SUBSET Kinds
    BY DEF Kinds
<1>1. /\ handle \in Handles /\ obj \in [Objects -> Fields] /\ made \in Nat /\ tab \in 1..made
      /\ tab \in Objects /\ n \in Objects /\ n # tab /\ 0 \in 0..MaxObjects
    BY RefreshAssumption DEF IInv, TypeOK, Objects, EpisodeSwitches
<1>2. r \in Fields
    BY <1>1
<1>3. old \in Fields
    BY <1>2, EnteredIs DEF Fields
<1>4. /\ made' = n /\ tab' = n
      /\ obj' = [obj EXCEPT ![tab] = Retired(old), ![n] = new]
      /\ handle' = [k \in Kinds |-> [stopped[k] EXCEPT ![n] = 0]]
      /\ UNCHANGED <<calls, answers, requests, causes>>
    BY DEF EpisodeSwitches
<1> HIDE DEF old
<1>5. new \in Fields /\ new.st = "healthy"
    <2>1. 0 \in 0..MaxProbes /\ FALSE \in BOOLEAN
          /\ (IF old.wait = 2 THEN 1 ELSE old.wait) \in 0..2
        BY <1>3, RefreshAssumption DEF Fields
    <2>2. Carried(old) = [old EXCEPT !.charged = FALSE, !.heal = 0,
                                     !.wait = IF old.wait = 2 THEN 1 ELSE old.wait]
        BY <1>3 DEF Carried, Fields
    <2> QED BY <1>3, <2>1, <2>2 DEF Fields
<1>6. Retired(old) \in Fields
    BY <1>3, RetiredIs
<1> HIDE DEF new, K
<1>7. /\ stopped \in Handles
      /\ \A k \in Kinds, x \in Objects :
            stopped[k][x] = IF k \in K /\ handle[k][x] = handle[k][tab] THEN 0 ELSE handle[k][x]
    <2>1. handle \in Handles /\ tab \in Objects /\ K \in SUBSET Kinds
        BY <1>0, <1>1
    <2> QED BY ONLY <2>1, ClearedIs
<1> HIDE DEF stopped, n
<1>8. /\ handle' \in Handles
      /\ \A k \in Kinds, x \in Objects :
            handle'[k][x] \in {0, handle[k][x]} /\ handle'[k][n] = 0
    BY <1>1, <1>4, <1>7 DEF Handles
<1>9. obj' \in [Objects -> Fields] /\ obj'[n].st = "healthy"
    BY <1>1, <1>4, <1>5, <1>6
<1>10. TypeOK'
    <2>1. made' \in 0..MaxObjects /\ tab' \in 0..made'
        BY <1>1, <1>4, RefreshAssumption DEF n, Objects
    <2> QED BY <1>4, <1>8, <1>9, <2>1 DEF IInv, TypeOK
<1>11. OwnTimersEnd'
    BY <1>0, <1>1, <1>4, <1>8 DEF OwnTimersEnd
<1>12. Unmade'
    <2>1. \A x \in Objects : x > made' => x > made
        BY <1>1, <1>4 DEF n, Objects
    <2>2. \A x \in 1..made : x \in 1..made'
        BY <1>1, <1>4 DEF n
    <2> QED BY <1>4, <1>8, <2>1, <2>2 DEF IInv, Unmade
<1>13. HealIsOwn'
    BY <1>0, <1>8 DEF IInv, HealIsOwn
<1>14. Probed' /\ Timed'
    BY <1>4, <1>9 DEF Probed, Timed
<1> QED BY <1>10, <1>11, <1>12, <1>13, <1>14 DEF IInv

-----------------------------------------------------------------------------
(* The handlers in terms of these steps. *)
LEMMA QuietKeeps ==
    ASSUME IInv, answers' \subseteq answers,
           UNCHANGED <<made, tab, obj, handle, calls, requests, causes>>
    PROVE  IInv'
BY DEF IInv, TypeOK, OwnTimersEnd, Unmade, HealIsOwn, Probed, Timed, Pending

LEMMA PreviousIs ==
    ASSUME IInv
    PROVE  /\ Previous \in Fields
           /\ tab = 0 => Previous.st = "healthy"
           /\ tab # 0 => Previous.st = obj[tab].st /\ Previous.gen = obj[tab].gen
<1>0. 0 \in Nat /\ 0 \in 0..MaxProbes /\ 0 \in 0..Target /\ 0 \in 0..2 /\ FALSE \in BOOLEAN
    BY RefreshAssumption
<1>1. CASE tab = 0
    BY <1>0, <1>1 DEF Previous, Fresh, Fields
<1>2. CASE tab # 0
    <2> DEFINE r == obj[tab]
    <2>1. r \in Fields
        BY <1>2, RefreshAssumption DEF IInv, TypeOK, Objects
    <2>2. Previous = Carried(r)
        BY <1>2 DEF Previous
    <2> HIDE DEF r
    <2>3. (IF r.wait = 2 THEN 1 ELSE r.wait) \in 0..2
        BY <2>1 DEF Fields
    <2>4. Carried(r) \in Fields /\ Carried(r).st = r.st /\ Carried(r).gen = r.gen
        BY <1>0, <2>1, <2>3 DEF Carried, Fields
    <2> QED BY <1>2, <2>2, <2>4 DEF r
<1> QED BY <1>1, <1>2

LEMMA AdoptKeeps ==
    ASSUME IInv, Adopt, answers' \subseteq answers,
           UNCHANGED <<calls, requests, causes>>
    PROVE  IInv'
<1> DEFINE q == Previous
           s == IF q.st = "refreshing" THEN "recovering" ELSE q.st
           r == Entered(q, s)
           K == ClearedBy(q, s)
<1>1. q \in Fields /\ (tab = 0 => q.st = "healthy")
      /\ (tab # 0 => q.st = obj[tab].st /\ q.gen = obj[tab].gen)
    BY PreviousIs
<1>2. Replace(r, handle, K)
    BY DEF Adopt
<1> HIDE DEF q
<1>3. s \in {"healthy", "refreshing", "recovering", "auth_expired"}
    BY <1>1 DEF Fields
<1>4. r \in Fields /\ r.st = s /\ r.gen = q.gen
    BY <1>1, <1>3, EnteredIs
<1>5. K \in SUBSET Kinds /\ (q.st = "refreshing" => K = Kinds) /\ (q.st # "refreshing" => K = {})
    BY DEF ClearedBy, Kinds
<1>6. r.st \in {"refreshing", "auth_expired"} =>
          tab # 0 /\ r.st = obj[tab].st /\ r.gen = obj[tab].gen /\ K = {}
    BY <1>1, <1>4, <1>5
<1>7. K = Kinds \/ tab = 0 \/ obj[tab].st # "refreshing"
    BY <1>1, <1>5
<1> HIDE DEF r, K
<1> QED BY <1>2, <1>4, <1>5, <1>6, <1>7, ReplaceKeeps

LEMMA ScheduleKeeps ==
    ASSUME IInv, Schedule
    PROVE  IInv'
<1> DEFINE q == Previous
<1>1. q \in Fields /\ tab # 0 /\ q.st = obj[tab].st /\ q.gen = obj[tab].gen
    BY PreviousIs DEF Schedule
<1>2. Replace(q, handle, {}) /\ {} \in SUBSET Kinds
      /\ UNCHANGED <<calls, answers, requests, causes>>
    BY DEF Schedule
<1> HIDE DEF q
<1>3. /\ q.st \in {"refreshing", "auth_expired"} =>
             tab # 0 /\ q.st = obj[tab].st /\ q.gen = obj[tab].gen /\ {} = {}
      /\ q.st \in {"refreshing", "auth_expired"} \/ obj[tab].st # "refreshing"
    BY <1>1
<1> QED BY <1>1, <1>2, <1>3, ReplaceKeeps

LEMMA LadderKeeps ==
    ASSUME IInv, LadderAdopted
    PROVE  IInv'
<1> DEFINE q == Previous
           s == IF q.st = "auth_expired" THEN "healthy" ELSE q.st
           r == Entered(q, s)
           K == ClearedBy(q, s)
<1>1. q \in Fields /\ (tab = 0 => q.st = "healthy")
      /\ (tab # 0 => q.st = obj[tab].st /\ q.gen = obj[tab].gen)
    BY PreviousIs
<1>2. Replace(r, handle, K) /\ UNCHANGED <<calls, answers, requests, causes>>
    BY DEF LadderAdopted
<1> HIDE DEF q
<1>3. s \in {"healthy", "refreshing", "recovering", "auth_expired"}
    BY <1>1 DEF Fields
<1>4. r \in Fields /\ r.st = s /\ r.gen = q.gen
    BY <1>1, <1>3, EnteredIs
<1>5. K \in SUBSET Kinds /\ (q.st # "auth_expired" => K = {})
    BY DEF ClearedBy, Kinds
<1>6. r.st \in {"refreshing", "auth_expired"} =>
          tab # 0 /\ r.st = obj[tab].st /\ r.gen = obj[tab].gen /\ K = {}
    BY <1>1, <1>4, <1>5
<1>7. r.st \in {"refreshing", "auth_expired"} \/ tab = 0 \/ obj[tab].st # "refreshing"
    BY <1>1, <1>4
<1> HIDE DEF r, K
<1> QED BY <1>2, <1>4, <1>5, <1>6, <1>7, ReplaceKeeps

LEMMA RefreshKeeps ==
    ASSUME IInv, tab # 0, NEW h \in Handles, Refresh(obj[tab], h),
           \A k \in Kinds, x \in Objects : h[k][x] \in {0, handle[k][x]},
           UNCHANGED <<made, tab, answers>>, requests' \in 0..MaxRequests
    PROVE  IInv'
<1> DEFINE r == obj[tab]
           e == Entered(r, "healthy")
           c == Cleared(h, Kinds, tab)
<1>1. tab \in Objects /\ r \in Fields
    BY RefreshAssumption DEF IInv, TypeOK, Objects
<1>2. CASE r.st = "auth_expired"
    <2>1. e \in Fields
        BY <1>1, EnteredIs
    <2>2. /\ c \in Handles
          /\ \A k \in Kinds, x \in Objects :
                c[k][x] = IF k \in Kinds /\ h[k][x] = h[k][tab] THEN 0 ELSE h[k][x]
        <3>1. Kinds \in SUBSET Kinds
            OBVIOUS
        <3> QED BY ONLY <1>1, <3>1, ClearedIs, h \in Handles
    <2>3. Attempt(e, c)
        BY <1>2 DEF Refresh
    <2> HIDE DEF e, c
    <2>4. \A k \in Kinds, x \in Objects : c[k][x] \in {0, handle[k][x]}
        BY <2>2
    <2> QED BY <2>1, <2>2, <2>3, <2>4, AttemptKeeps
<1>3. CASE r.st # "auth_expired"
    <2>1. Attempt(r, h)
        BY <1>3 DEF Refresh
    <2> HIDE DEF r
    <2> QED BY <1>1, <2>1, AttemptKeeps
<1> QED BY <1>2, <1>3

LEMMA NoteFailureKeeps ==
    ASSUME IInv, NEW g, NoteFailure(g), answers' \subseteq answers,
           UNCHANGED <<made, tab, calls, requests>>
    PROVE  IInv'
<1> DEFINE r == obj[tab]
           u == [r EXCEPT !.charged = TRUE]
           fails == tab # 0 /\ r.st = "refreshing" /\ r.gen = g /\ ~r.charged
<1>1. CASE ~fails
    <2>1. UNCHANGED <<obj, handle, causes>>
        BY <1>1 DEF NoteFailure
    <2> QED BY <2>1, QuietKeeps
<1>2. CASE fails
    <2>1. /\ tab \in Objects /\ tab \in 1..made /\ r \in Fields /\ handle \in Handles
          /\ answers' \subseteq Nat \X Frames
        BY <1>2, RefreshAssumption DEF IInv, TypeOK, Objects
    <2>2. u \in Fields /\ u.st = obj[tab].st /\ u.gen = obj[tab].gen
        BY <2>1 DEF Fields
    <2>3. Charge(tab, u, handle)
        BY <1>2 DEF NoteFailure
    <2> HIDE DEF u, r
    <2> QED BY <2>1, <2>2, <2>3, ChargeKeeps
<1> QED BY <1>1, <1>2

LEMMA TimeoutKeeps ==
    ASSUME IInv, NEW o \in Objects, TimeoutFires(o)
    PROVE  IInv'
<1> DEFINE h == Cleared(handle, {"timeout"}, o)
           r == obj[o]
<1>1. /\ handle \in Handles /\ r \in Fields /\ {"timeout"} \in SUBSET Kinds
      /\ answers' \subseteq Nat \X Frames /\ calls' \subseteq calls
      /\ UNCHANGED <<made, tab, requests>>
    BY DEF IInv, TypeOK, TimeoutFires, Kinds
<1>2. o \in 1..made
    <2>1. handle["timeout"][o] = o /\ "timeout" \in Kinds /\ o \in Nat /\ o # 0
        BY DEF TimeoutFires, Pending, Kinds, Objects
    <2>2. ~(o > made)
        BY <2>1 DEF IInv, Unmade
    <2> QED BY <2>1, <2>2 DEF IInv, TypeOK, Objects
<1>3. h \in Handles
    BY ONLY <1>1, ClearedIs, o \in Objects
<1>4. Charge(o, r, h) /\ Pending("timeout", o)
    BY DEF TimeoutFires
<1>5. h = Cleared(handle, {"timeout"}, o) /\ r.st = obj[o].st /\ r.gen = obj[o].gen
    OBVIOUS
<1> HIDE DEF h, r
<1> QED BY <1>1, <1>2, <1>3, <1>4, <1>5, ChargeKeeps

LEMMA DelegatedKeeps ==
    ASSUME IInv, NEW c \in calls, NEW F \in SUBSET Frames, Delegated(c, F)
    PROVE  IInv'
<1>1. /\ c.by \in Objects /\ c.by \in 1..made /\ c.gen \in Nat
      /\ handle \in Handles /\ obj[c.by] \in Fields
    BY DEF IInv, TypeOK, Unmade
<1>2. calls' \subseteq calls /\ answers' \subseteq Nat \X Frames /\ UNCHANGED <<made, tab, requests>>
    BY <1>1 DEF Delegated, IInv, TypeOK
<1>3. CASE F = {}
    <2>1. Charge(c.by, obj[c.by], handle)
        BY <1>3 DEF Delegated
    <2> QED BY <1>1, <1>2, <2>1, ChargeKeeps
<1>4. CASE F # {}
    <2>1. UNCHANGED <<obj, handle, causes>>
        BY <1>4 DEF Delegated
    <2>2. calls' \subseteq [by : Objects, gen : Nat]
        BY <1>2 DEF IInv, TypeOK
    <2> QED BY <1>2, <2>1, <2>2
        DEF IInv, TypeOK, OwnTimersEnd, Unmade, HealIsOwn, Probed, Timed, Pending
<1> QED BY <1>3, <1>4

LEMMA RetryKeeps ==
    ASSUME IInv, NEW o \in Objects, RetryFires(o)
    PROVE  IInv'
<1> DEFINE h == Cleared(handle, {"retry"}, o)
<1>1. handle \in Handles /\ {"retry"} \in SUBSET Kinds
    BY DEF IInv, TypeOK, Kinds
<1>2. /\ h \in Handles
      /\ \A k \in Kinds, x \in Objects :
            h[k][x] = IF k \in {"retry"} /\ handle[k][x] = handle[k][o] THEN 0 ELSE handle[k][x]
    <2>1. handle \in Handles /\ {"retry"} \in SUBSET Kinds
        BY <1>1
    <2> QED BY ONLY <2>1, ClearedIs, o \in Objects
<1>3. \A k \in Kinds, x \in Objects : h[k][x] \in {0, handle[k][x]}
    BY <1>2
<1>4. UNCHANGED <<made, tab, answers, requests>> /\ requests' \in 0..MaxRequests
    BY DEF RetryFires, IInv, TypeOK
<1>5. CASE tab = 0
    <2>1. handle' = h /\ UNCHANGED <<obj, calls, causes>>
        BY <1>5 DEF RetryFires
    <2> HIDE DEF h
    <2>2. TypeOK'
        BY <1>2, <1>4, <2>1 DEF IInv, TypeOK
    <2>3. OwnTimersEnd' /\ Probed' /\ Timed'
        BY <1>4, <1>5 DEF OwnTimersEnd, Probed, Timed
    <2>4. Unmade'
        BY <1>3, <1>4, <2>1 DEF IInv, Unmade
    <2>5. HealIsOwn'
        BY <1>3, <2>1 DEF IInv, HealIsOwn, Kinds
    <2> QED BY <2>2, <2>3, <2>4, <2>5 DEF IInv
<1>6. CASE tab # 0
    <2>1. Attempt(obj[tab], h)
        BY <1>6 DEF RetryFires
    <2>2. obj[tab] \in Fields
        BY <1>6, RefreshAssumption DEF IInv, TypeOK, Objects
    <2> HIDE DEF h
    <2> QED BY <1>2, <1>3, <1>4, <1>6, <2>1, <2>2, AttemptKeeps
<1> QED BY <1>5, <1>6

(* A probe that finds the tab expired and is refused was not its last one. *)
LEMMA ProbeKeeps ==
    ASSUME IInv, NEW o \in Objects, NEW scrubbing \in BOOLEAN, ProbeFires(o, scrubbing)
    PROVE  IInv'
<1> DEFINE h == Cleared(handle, {"heal"}, o)
           expired == tab # 0 /\ obj[tab].st = "auth_expired"
<1>1. handle \in Handles /\ {"heal"} \in SUBSET Kinds /\ (tab # 0 => tab \in Objects)
      /\ obj \in [Objects -> Fields]
    BY RefreshAssumption DEF IInv, TypeOK, Kinds, Objects
<1>2. /\ h \in Handles
      /\ \A k \in Kinds, x \in Objects :
            h[k][x] = IF k \in {"heal"} /\ handle[k][x] = handle[k][o] THEN 0 ELSE handle[k][x]
    <2>1. handle \in Handles /\ {"heal"} \in SUBSET Kinds
        BY <1>1
    <2> QED BY ONLY <2>1, ClearedIs, o \in Objects
<1>3. \A k \in Kinds, x \in Objects : h[k][x] \in {0, handle[k][x]}
    BY <1>2
<1>4. UNCHANGED <<made, tab, answers, requests>> /\ requests' \in 0..MaxRequests
    BY DEF ProbeFires, IInv, TypeOK
<1>5. CASE expired /\ ~Refused /\ ~scrubbing
    <2>1. Refresh(obj[tab], h) /\ tab # 0
        BY <1>5 DEF ProbeFires
    <2> HIDE DEF h
    <2> QED BY <1>2, <1>3, <1>4, <2>1, RefreshKeeps
<1>6. CASE ~(expired /\ ~Refused /\ ~scrubbing)
    <2>1. /\ handle' = h /\ UNCHANGED <<obj, calls>>
          /\ causes' = IF expired /\ scrubbing THEN causes \cup {"scrubbing"} ELSE causes
        BY <1>6 DEF ProbeFires
    <2>2. causes \subseteq causes' /\ causes' \subseteq {"budget", "scrubbing", "replaced"}
        BY <2>1 DEF IInv, TypeOK
    <2>3. expired => causes' # {} \/ obj[tab].gen > obj[o].gen
        <3>1. CASE expired /\ scrubbing
            BY <2>1, <3>1
        <3>2. CASE expired /\ ~scrubbing
            <4>1. obj[tab].wait # 0
                BY <1>6, <3>2 DEF Refused
            <4> QED BY <3>2, <4>1 DEF ProbeFires
        <3> QED BY <3>1, <3>2
    <2> HIDE DEF h
    <2>4. TypeOK'
        BY <1>2, <1>4, <2>1, <2>2 DEF IInv, TypeOK
    <2>5. OwnTimersEnd'
        BY <1>1, <1>3, <1>4, <2>1 DEF IInv, OwnTimersEnd, Kinds
    <2>6. Unmade'
        BY <1>3, <1>4, <2>1 DEF IInv, Unmade
    <2>7. HealIsOwn'
        BY <1>3, <2>1 DEF IInv, HealIsOwn, Kinds
    <2>8. Probed'
        <3> SUFFICES ASSUME expired, causes' = {}
                     PROVE  \E x \in Objects : handle'["heal"][x] = x /\ obj[x].gen = obj[tab].gen
            BY <1>4, <2>1 DEF Probed, Pending
        <3>1. PICK x \in Objects : Pending("heal", x) /\ obj[x].gen = obj[tab].gen
            BY <2>2 DEF IInv, Probed
        <3>2. x # o
            BY <1>1, <2>3, <3>1 DEF Fields
        <3>3. handle["heal"][x] = x /\ handle["heal"][o] = o /\ "heal" \in Kinds
            BY <3>1 DEF Pending, ProbeFires, Kinds
        <3>4. handle'["heal"][x] = x
            BY <1>2, <2>1, <3>2, <3>3
        <3> QED BY <3>1, <3>4
    <2>9. Timed'
        <3>1. \A x \in Objects : handle'["timeout"][x] = handle["timeout"][x]
                                 /\ handle'["retry"][x] = handle["retry"][x]
            BY <1>2, <2>1 DEF Kinds
        <3> QED BY <1>4, <2>1, <2>2, <3>1 DEF IInv, Timed, Pending
    <2> QED BY <2>4, <2>5, <2>6, <2>7, <2>8, <2>9 DEF IInv
<1> QED BY <1>5, <1>6

LEMMA NavigateKeeps ==
    ASSUME IInv, Navigate
    PROVE  IInv'
<1>1. /\ tab \in Objects /\ obj \in [Objects -> Fields] /\ tab' = 0 /\ made \in Nat
      /\ obj' = [obj EXCEPT ![tab] = Retired(obj[tab])]
      /\ UNCHANGED <<made, handle, calls, answers, requests, causes>>
    BY RefreshAssumption DEF Navigate, IInv, TypeOK, Objects
<1>2. Retired(obj[tab]) \in Fields
    BY <1>1, RetiredIs
<1>3. TypeOK'
    BY <1>1, <1>2 DEF IInv, TypeOK
<1>4. OwnTimersEnd' /\ Probed' /\ Timed'
    BY <1>1 DEF OwnTimersEnd, Probed, Timed
<1>5. Unmade' /\ HealIsOwn'
    BY <1>1 DEF IInv, Unmade, HealIsOwn
<1> QED BY <1>3, <1>4, <1>5 DEF IInv

LEMMA SegmentKeeps ==
    ASSUME IInv, SegmentArrives
    PROVE  IInv'
<1> DEFINE r == obj[tab]
           m == IF r.successes < Target THEN r.successes + 1 ELSE Target
           s == IF m = Target THEN "healthy" ELSE r.st
           counted == [r EXCEPT !.successes = m]
           e == Entered(counted, s)
           K == ClearedBy(r, s)
<1>1. tab # 0 /\ r \in Fields
    BY RefreshAssumption DEF SegmentArrives, IInv, TypeOK, Objects
<1>2. m \in 0..Target
    BY <1>1, RefreshAssumption DEF Fields
<1>3. /\ obj' = [obj EXCEPT ![tab] = e] /\ handle' = Cleared(handle, K, tab)
      /\ UNCHANGED <<made, tab, calls, answers, requests, causes>>
    BY DEF SegmentArrives
<1> HIDE DEF m
<1>4. counted \in Fields /\ counted.st = r.st /\ counted.gen = r.gen
    BY <1>1, <1>2 DEF Fields
<1>5. s \in {"healthy", "refreshing", "recovering", "auth_expired"}
    BY <1>1 DEF Fields
<1> HIDE DEF counted
<1>6. e \in Fields /\ e.st = s /\ e.gen = r.gen
    BY <1>4, <1>5, EnteredIs
<1>7. K \in SUBSET Kinds /\ ((s = r.st /\ K = {}) \/ (s = "healthy" /\ K = Kinds))
    <2>1. s = r.st \/ s = "healthy"
        OBVIOUS
    <2>2. /\ K \in SUBSET Kinds
          /\ r.st = s => K = {}
          /\ r.st # s /\ s = "healthy" => K = Kinds
        BY ONLY ClearedByIs
    <2> HIDE DEF K, s, r
    <2> QED BY ONLY <2>1, <2>2
<1>8. e.gen = obj[tab].gen /\ ((e.st = obj[tab].st /\ K = {}) \/ (e.st = "healthy" /\ K = Kinds))
    BY <1>6, <1>7
<1> HIDE DEF e, K, s
<1> QED BY <1>1, <1>3, <1>6, <1>7, <1>8, TabKeeps

LEMMA RunwayKeeps ==
    ASSUME IInv, RunwayRestored
    PROVE  IInv'
<1> DEFINE e == Entered(obj[tab], "healthy")
<1>1. tab # 0 /\ obj[tab] \in Fields
    BY RefreshAssumption DEF RunwayRestored, IInv, TypeOK, Objects
<1>2. /\ obj' = [obj EXCEPT ![tab] = e] /\ handle' = Cleared(handle, Kinds, tab)
      /\ UNCHANGED <<made, tab, calls, answers, requests, causes>>
    BY DEF RunwayRestored
<1>3. e \in Fields /\ e.st = "healthy" /\ e.gen = obj[tab].gen
    BY <1>1, EnteredIs
<1> HIDE DEF e
<1>4. Kinds \in SUBSET Kinds
    OBVIOUS
<1> QED BY <1>1, <1>2, <1>3, <1>4, TabKeeps

LEMMA TimeKeeps ==
    ASSUME IInv, WarmEnds \/ WaitEnds
    PROVE  IInv'
<1> DEFINE r == IF WarmEnds THEN [obj[tab] EXCEPT !.warm = FALSE]
                ELSE [obj[tab] EXCEPT !.wait = @ - 1]
<1>1. tab # 0 /\ tab \in Objects /\ obj[tab] \in Fields /\ handle \in Handles
    BY RefreshAssumption DEF WarmEnds, WaitEnds, IInv, TypeOK, Objects
<1>2. /\ obj' = [obj EXCEPT ![tab] = r]
      /\ UNCHANGED <<made, tab, handle, calls, answers, requests, causes>>
    BY DEF WarmEnds, WaitEnds
<1>3. WarmEnds \/ obj[tab].wait - 1 \in 0..2
    BY <1>1 DEF WaitEnds, Fields
<1>4. r \in Fields /\ r.st = obj[tab].st /\ r.gen = obj[tab].gen
    BY <1>1, <1>3 DEF Fields
<1>5. Cleared(handle, {}, tab) = handle /\ {} \in SUBSET Kinds
    BY <1>1 DEF Cleared, Handles
<1> HIDE DEF r
<1> QED BY <1>1, <1>2, <1>4, <1>5, TabKeeps

-----------------------------------------------------------------------------
LEMMA Initial == Init => IInv
<1> SUFFICES ASSUME Init PROVE IInv
    OBVIOUS
<1>1. 0 \in Nat /\ 0 \in 0..MaxProbes /\ 0 \in 0..Target /\ 0 \in 0..2 /\ 0 \in 0..MaxObjects
      /\ 0 \in 0..MaxRequests /\ 0 \in 0..0 /\ FALSE \in BOOLEAN
    BY RefreshAssumption
<1>2. Fresh \in Fields
    BY <1>1 DEF Fresh, Fields
<1>3. TypeOK
    BY <1>1, <1>2 DEF Init, TypeOK, Handles
<1>4. OwnTimersEnd /\ Probed /\ Timed
    BY DEF Init, OwnTimersEnd, Probed, Timed
<1>5. Unmade /\ HealIsOwn
    BY DEF Init, Unmade, HealIsOwn, Kinds
<1> QED BY <1>3, <1>4, <1>5 DEF IInv

LEMMA Stepwise == IInv /\ [Next]_vars => IInv'
<1> SUFFICES ASSUME IInv, [Next]_vars PROVE IInv'
    OBVIOUS
<1>1. CASE Request
    <2>1. /\ tab # 0 /\ Refresh(obj[tab], handle) /\ UNCHANGED <<made, tab, answers>>
          /\ requests' \in 0..MaxRequests /\ handle \in Handles
        BY <1>1, RefreshAssumption DEF Request, IInv, TypeOK
    <2> QED BY <2>1, RefreshKeeps
<1>2. CASE PlayerCaptures \/ BackgroundCaptures
    <2>1. Adopt /\ UNCHANGED <<calls, answers, requests, causes>>
        BY <1>2 DEF PlayerCaptures, BackgroundCaptures
    <2> QED BY <2>1, AdoptKeeps
<1>3. CASE BackgroundFails
    <2>1. NoteFailure(obj[tab].gen) /\ UNCHANGED <<made, tab, calls, answers, requests>>
        BY <1>3 DEF BackgroundFails
    <2> QED BY <2>1, NoteFailureKeeps
<1>4. ASSUME NEW a \in answers, PageCaptures(a)
      PROVE  IInv'
    <2>1. answers' \subseteq answers /\ UNCHANGED <<calls, requests, causes>>
        BY <1>4 DEF PageCaptures
    <2>2. Adopt \/ UNCHANGED <<made, tab, obj, handle>>
        BY <1>4 DEF PageCaptures
    <2> QED BY <2>1, <2>2, AdoptKeeps, QuietKeeps
<1>5. ASSUME NEW a \in answers, PageFails(a)
      PROVE  IInv'
    <2>1. /\ NoteFailure(a[1]) /\ answers' \subseteq answers
          /\ UNCHANGED <<made, tab, calls, requests>>
        BY <1>5 DEF PageFails
    <2> QED BY <2>1, NoteFailureKeeps
<1>6. ASSUME NEW a \in answers, PageIsSilent(a)
      PROVE  IInv'
    <2>1. /\ answers' \subseteq answers
          /\ UNCHANGED <<made, tab, obj, handle, calls, requests, causes>>
        BY <1>6 DEF PageIsSilent
    <2> QED BY <2>1, QuietKeeps
<1>7. CASE UNCHANGED vars
    BY <1>7, QuietKeeps DEF vars
<1>8. CASE Environment
    BY <1>1, <1>2, <1>3, <1>8, EpisodeKeeps, ScheduleKeeps, LadderKeeps, NavigateKeeps,
       SegmentKeeps, RunwayKeeps, TimeKeeps DEF Environment
<1>9. CASE Program
    BY <1>4, <1>5, <1>6, <1>9, DelegatedKeeps, TimeoutKeeps, RetryKeeps, ProbeKeeps DEF Program
<1> QED BY <1>7, <1>8, <1>9 DEF Next

LEMMA Invariance == Spec => []IInv
BY Initial, Stepwise, PTL DEF Spec

-----------------------------------------------------------------------------
(* Every state object, timer, call and answer of a refresh is well typed; no more
   than MaxProbes probes are charged to an object (manifest-refresh.js:62-86). *)
THEOREM RefreshTypeCorrect == Spec => []TypeOK
<1>1. IInv => TypeOK
    BY DEF IInv
<1> QED BY <1>1, Invariance, PTL

(* A refresh that is over leaves none of its own timers behind
   (transitionRefreshState), whatever objects replaced the one that set them. *)
THEOREM RefreshTimersEnd == Spec => []OwnTimersEnd
<1>1. IInv => OwnTimersEnd
    BY DEF IInv
<1> QED BY <1>1, Invariance, PTL

(* A tab refreshes with a timer pending, and expires with a probe pending, unless
   the probes are used up, a probe fell into a scrub, or an object replaced
   meanwhile used up the retries: no other order of replacements, answers and
   timers stops it. *)
THEOREM ParkedOnlyForACause == Spec => []ParkedForACause
<1>1. IInv => ParkedForACause
    BY DEF IInv, Probed, Timed, ParkedForACause, Driven
<1> QED BY <1>1, Invariance, PTL

-----------------------------------------------------------------------------
(* Anchor. *)

(* The fields of the tab's object, when the voices are of V. *)
Indices == Nat \cup {None}
Tabs(V) ==
    [anchor : V, vouched : BOOLEAN, retained : BOOLEAN, predicted : V, fresh : BOOLEAN,
     observed : V, velocity : V, target : V, switched : Indices, before : V,
     counted : BOOLEAN, seq : V, numbered : BOOLEAN, pending : V,
     since : {"no", "young", "ripe"}, held : BOOLEAN, on : SUBSET Windows]

(* While a streak waits for its second sample, its first is the last segment asked for,
   and nothing is open that makes evaluateAnchorCommit pass over the streak. *)
StreakOf(t, n) ==
    t.pending # None => t.pending = n /\ ~t.retained /\ t.on \cap {"grace", "mute"} = {}

Steady(V, n) == {t \in Tabs(V) : StreakOf(t, n)}
Positions(V, n) == [tab : Steady(V, n), dom : V, tele : V]

(* The voices of an episode, and what was left when it began. *)
Voices == {None, 0} \cup Here \cup left

AnchorInv ==
    /\ tabState \in Steady(Voices, seen) /\ {dom, tele} \subseteq Voices
    /\ episode \in DOMAIN Places /\ seen \in Indices /\ left \subseteq Nat

MayVoice == {V \in SUBSET Indices : {None, 0} \subseteq V}

(* A set of a few indices has a least and a greatest one. *)
Bounded(S) ==
    S = {} \/ /\ \E m \in S : \A x \in S : m <= x
              /\ \E m \in S : \A x \in S : m >= x

LEMMA BoundedTogether ==
    ASSUME NEW A \in SUBSET Nat, NEW B \in SUBSET Nat, Bounded(A), Bounded(B)
    PROVE  Bounded(A \cup B)
<1>1. CASE A = {} \/ B = {}
  <2>1. A \cup B = A \/ A \cup B = B
    BY <1>1
  <2> QED BY <2>1
<1>2. CASE A # {} /\ B # {}
  <2>1. PICK m \in A : \A x \in A : m <= x
    BY <1>2 DEF Bounded
  <2>2. PICK n \in B : \A x \in B : n <= x
    BY <1>2 DEF Bounded
  <2>3. PICK k \in A : \A x \in A : k >= x
    BY <1>2 DEF Bounded
  <2>4. PICK l \in B : \A x \in B : l >= x
    BY <1>2 DEF Bounded
  <2>5. \E p \in A \cup B : \A x \in A \cup B : p <= x
    <3>1. m <= n \/ n <= m
      OBVIOUS
    <3>2. CASE m <= n
      BY <3>2, <2>1, <2>2
    <3>3. CASE n <= m
      BY <3>3, <2>1, <2>2
    <3> QED BY <3>1, <3>2, <3>3
  <2>6. \E p \in A \cup B : \A x \in A \cup B : p >= x
    <3>1. k >= l \/ l >= k
      OBVIOUS
    <3>2. CASE k >= l
      BY <3>2, <2>3, <2>4
    <3>3. CASE l >= k
      BY <3>3, <2>3, <2>4
    <3> QED BY <3>1, <3>2, <3>3
  <2> QED BY <2>5, <2>6 DEF Bounded
<1> QED BY <1>1, <1>2

LEMMA BoundedByFour ==
    ASSUME NEW S \in SUBSET Nat, NEW a, NEW b, NEW c, NEW d, S \subseteq {a, b, c, d}
    PROVE  Bounded(S)
<1>1. \A x : Bounded(S \cap {x}) /\ S \cap {x} \in SUBSET Nat
  <2> SUFFICES ASSUME NEW x PROVE Bounded(S \cap {x})
    OBVIOUS
  <2>1. CASE x \in S
    <3>1. S \cap {x} = {x} /\ x \in Nat
      BY <2>1
    <3> QED BY <3>1 DEF Bounded
  <2>2. CASE x \notin S
    BY <2>2 DEF Bounded
  <2> QED BY <2>1, <2>2
<1>2. Bounded((S \cap {a}) \cup (S \cap {b})) /\ Bounded((S \cap {c}) \cup (S \cap {d}))
  BY <1>1, BoundedTogether
<1>3. Bounded(((S \cap {a}) \cup (S \cap {b})) \cup ((S \cap {c}) \cup (S \cap {d})))
  BY <1>2, BoundedTogether
<1>4. S = ((S \cap {a}) \cup (S \cap {b})) \cup ((S \cap {c}) \cup (S \cap {d}))
  OBVIOUS
<1> QED BY <1>3, <1>4

LEMMA BoundsAre ==
    ASSUME NEW S \in SUBSET Nat, Bounded(S), S # {}
    PROVE  Min(S) \in S /\ Max(S) \in S
<1>1. \E m \in S : \A x \in S : m <= x
  BY DEF Bounded
<1>2. \E m \in S : \A x \in S : m >= x
  BY DEF Bounded
<1> QED BY <1>1, <1>2 DEF Min, Max

(* What a signal says, and where the four of a tab are. *)
Signals(V) == [of : {"anchor", "predictor", "observed", "velocity"}, at : V, weight : 2..4]

LEMMA SignalsAre ==
    ASSUME NEW V \in MayVoice, NEW t \in Tabs(V)
    PROVE  /\ Predictor(t) \in V
           /\ collectAnchorSignals(t) \subseteq Signals(V \ {None})
           /\ \A s \in collectAnchorSignals(t) :
                 s.at \in {t.anchor, Predictor(t), t.observed, t.velocity}
<1>1. Predictor(t) \in V
  BY DEF Predictor, Tabs, MayVoice
<1> DEFINE W == {[of |-> "anchor", at |-> t.anchor, weight |-> 2],
                 [of |-> "predictor", at |-> Predictor(t), weight |-> 3],
                 [of |-> "observed", at |-> t.observed, weight |-> 4],
                 [of |-> "velocity", at |-> t.velocity, weight |-> 2]}
<1>2. W \subseteq Signals(V)
  BY <1>1 DEF Tabs, Signals
<1>3. collectAnchorSignals(t) \subseteq W /\ \A s \in collectAnchorSignals(t) : s.at # None
  BY DEF collectAnchorSignals
<1>4. \A s \in W : s.at \in {t.anchor, Predictor(t), t.observed, t.velocity}
  OBVIOUS
<1>5. \A s \in Signals(V) : s.at # None => s \in Signals(V \ {None})
  BY DEF Signals
<1> HIDE DEF W
<1> QED BY <1>1, <1>2, <1>3, <1>4, <1>5

LEMMA WeightIsNat ==
    ASSUME NEW V, NEW S \in SUBSET Signals(V)
    PROVE  Weight(S) \in Nat
<1> DEFINE O == {"anchor", "predictor", "observed", "velocity"}
           U == UNION {{s.of} \X (1..s.weight) : s \in S}
<1>1. IsFiniteSet(O)
  <2> DEFINE a == "anchor"
             b == "predictor"
             c == "observed"
             d == "velocity"
  <2>1. O = ((({} \cup {a}) \cup {b}) \cup {c}) \cup {d}
    OBVIOUS
  <2> HIDE DEF O, a, b, c, d
  <2> QED BY <2>1, FS_EmptySet, FS_AddElement
<1>2. IsFiniteSet(O \X (1..4))
  <2>1. \A n \in Nat : IsFiniteSet(1..n)
    BY FS_Interval
  <2>2. IsFiniteSet(1..4)
    BY <2>1
  <2> HIDE DEF O
  <2> QED BY <1>1, <2>2, FS_Product
<1>3. U \subseteq O \X (1..4)
  <2>1. \A s \in S : {s.of} \X (1..s.weight) \subseteq O \X (1..4)
    BY DEF Signals
  <2> QED BY <2>1
<1>4. IsFiniteSet(U)
  <2> HIDE DEF U, O
  <2> QED BY <1>2, <1>3, FS_Subset
<1>5. Cardinality(U) \in Nat
  <2> HIDE DEF U
  <2> QED BY <1>4, FS_CardinalityType
<1> QED BY <1>5 DEF Weight

(* The median of the signals is what one of them says. *)
LEMMA MedianIsHeard ==
    ASSUME NEW V \in MayVoice, NEW t \in Tabs(V)
    PROVE  resolveReconcileTargetIndex(t) \in V
<1> DEFINE S == collectAnchorSignals(t)
           A == {s.at : s \in S}
           M == {m \in S : 2 * Weight({l \in S : l.at <= m.at}) >= Weight(S)}
           T == {s.at : s \in M}
<1>0. S \in SUBSET Signals(V \ {None})
  BY SignalsAre
<1>1. A \in SUBSET Nat /\ A \subseteq V /\ \A s \in S : s.at \in Nat /\ s.at \in V
  BY <1>0 DEF Signals, MayVoice, Indices
<1>2. \A B \in SUBSET A : Bounded(B)
  <2> SUFFICES ASSUME NEW B \in SUBSET A PROVE Bounded(B)
    OBVIOUS
  <2>1. B \subseteq {t.anchor, Predictor(t), t.observed, t.velocity}
    BY SignalsAre
  <2> HIDE DEF A, S
  <2> QED BY <1>1, <2>1, BoundedByFour
<1>3. SUFFICES ASSUME S # {} PROVE weightedMedianIndex(S) \in V
  <2>1. None \in V
    BY DEF MayVoice
  <2> QED BY <2>1 DEF resolveReconcileTargetIndex
<1>4. M # {}
  <2>1. Bounded(A) /\ A # {}
    BY <1>2, <1>3
  <2>2. PICK g \in A : \A x \in A : g >= x
    <3> HIDE DEF A
    <3> QED BY <2>1 DEF Bounded
  <2>3. PICK m \in S : g = m.at
    OBVIOUS
  <2>4. {l \in S : l.at <= m.at} = S
    BY <2>2, <2>3, <1>1
  <2>5. Weight(S) \in Nat
    <3> HIDE DEF S
    <3> QED BY <1>0, WeightIsNat
  <2>6. 2 * Weight(S) >= Weight(S)
    <3> HIDE DEF S
    <3> QED BY <2>5
  <2>7. 2 * Weight({l \in S : l.at <= m.at}) >= Weight(S)
    <3> HIDE DEF S
    <3> QED BY <2>4, <2>6
  <2> QED BY <2>7
<1>5. T # {} /\ T \subseteq A
  <2> HIDE DEF S
  <2> QED BY <1>4
<1>6. Min(T) \in T
  <2> HIDE DEF T, A
  <2>1. T \in SUBSET Nat /\ Bounded(T)
    BY <1>1, <1>2, <1>5
  <2> QED BY <2>1, <1>5, BoundsAre
<1>7. weightedMedianIndex(S) = Min(T)
  BY DEF weightedMedianIndex
<1> HIDE DEF S, T, A
<1> QED BY <1>1, <1>5, <1>6, <1>7

(* What the parts of the handlers make of a tab is a tab with the same voices, whose streak
   goes on or ends. *)
Calm == Windows \ {"grace", "mute"}

LEMMA SteadyParts ==
    ASSUME NEW V \in MayVoice, NEW n, NEW t \in Steady(V, n)
    PROVE  /\ \A up : Scheduled(t, up) \in Steady(V, n)
           /\ \A i \in V : AnchorAt(t, i) \in Steady(V, n)
           /\ \A i \in V : Predicted(t, i) \in Steady(V, n)
           /\ \A i \in V : [t EXCEPT !.velocity = i] \in Steady(V, n)
           /\ \A i \in V : [t EXCEPT !.target = i] \in Steady(V, n)
           /\ \A ws \in SUBSET Calm : [t EXCEPT !.on = @ \cup ws] \in Steady(V, n)
           /\ \A ws : [t EXCEPT !.on = @ \ ws] \in Steady(V, n)
           /\ [t EXCEPT !.retained = FALSE] \in Steady(V, n)
           /\ [t EXCEPT !.pending = None] \in Steady(V, n)
           /\ \A s \in {"no", "young", "ripe"} : [t EXCEPT !.since = s] \in Steady(V, n)
           /\ \A h \in BOOLEAN : [t EXCEPT !.held = h] \in Steady(V, n)
<1> USE DEF Steady, StreakOf, Tabs, MayVoice
<1>1. \A up : Scheduled(t, up) \in Steady(V, n)
  BY DEF Scheduled, Upserted
<1>2. \A i \in V : AnchorAt(t, i) \in Steady(V, n)
  BY DEF AnchorAt
<1>3. \A i \in V : Predicted(t, i) \in Steady(V, n)
  BY DEF Predicted
<1>4. \A i \in V : [t EXCEPT !.velocity = i] \in Steady(V, n)
  OBVIOUS
<1>5. \A i \in V : [t EXCEPT !.target = i] \in Steady(V, n)
  OBVIOUS
<1>6. \A ws \in SUBSET Calm : [t EXCEPT !.on = @ \cup ws] \in Steady(V, n)
  BY DEF Calm
<1>7. \A ws : [t EXCEPT !.on = @ \ ws] \in Steady(V, n)
  OBVIOUS
<1>8. [t EXCEPT !.retained = FALSE] \in Steady(V, n)
  OBVIOUS
<1>9. [t EXCEPT !.pending = None] \in Steady(V, n)
  OBVIOUS
<1>10. \A s \in {"no", "young", "ripe"} : [t EXCEPT !.since = s] \in Steady(V, n)
  OBVIOUS
<1>11. \A h \in BOOLEAN : [t EXCEPT !.held = h] \in Steady(V, n)
  OBVIOUS
<1> QED BY <1>1, <1>2, <1>3, <1>4, <1>5, <1>6, <1>7, <1>8, <1>9, <1>10, <1>11

LEMMA SoftCommitKeeps ==
    ASSUME NEW V \in MayVoice, NEW n, NEW t \in Steady(V, n), NEW i \in V, NEW up
    PROVE  softCommitAnchor(t, i, up) \in Steady(V, n)
<1> DEFINE a == AnchorAt(t, i)
           b == [a EXCEPT !.pending = None, !.retained = FALSE]
           c == [b EXCEPT !.on = @ \cup {"churn"}]
<1>1. a \in Steady(V, n)
  BY SteadyParts
<1>2. b \in Steady(V, n)
  <2> HIDE DEF a
  <2>1. b = [[a EXCEPT !.pending = None] EXCEPT !.retained = FALSE]
    BY <1>1 DEF Steady, Tabs
  <2> QED BY <1>1, <2>1, SteadyParts
<1>3. c \in Steady(V, n)
  <2> HIDE DEF b
  <2>1. {"churn"} \in SUBSET Calm
    BY DEF Calm, Windows
  <2> QED BY <1>2, <2>1, SteadyParts
<1>4. softCommitAnchor(t, i, up) = Scheduled(c, up)
  BY DEF softCommitAnchor, markSeekChurnAggressive
<1> HIDE DEF c
<1> QED BY <1>3, <1>4, SteadyParts

LEMMA CommitKeeps ==
    ASSUME NEW V \in MayVoice, NEW n, NEW x \in Positions(V, n), NEW i \in V,
           NEW authority, NEW source, NEW up
    PROVE  commitAnchorFromAuthority(x, i, authority, source, up) \in Positions(V, n)
<1> DEFINE t == x.tab
<1>0. t \in Steady(V, n) /\ x.dom \in V /\ x.tele \in V
  BY DEF Positions
<1>1. \A ws \in SUBSET Windows :
         [AnchorAt(t, i) EXCEPT !.vouched = TRUE, !.pending = None, !.on = @ \cup ws]
             \in Steady(V, n)
  <2> SUFFICES ASSUME NEW ws \in SUBSET Windows
               PROVE  [AnchorAt(t, i) EXCEPT !.vouched = TRUE, !.pending = None, !.on = @ \cup ws]
                          \in Steady(V, n)
    OBVIOUS
  <2> DEFINE a == AnchorAt(t, i)
             b == [a EXCEPT !.vouched = TRUE, !.pending = None, !.on = @ \cup ws]
  <2>1. a \in Steady(V, n)
    BY <1>0, SteadyParts
  <2>2. b \in Steady(V, n)
    <3> HIDE DEF a
    <3> QED BY <2>1 DEF Steady, StreakOf, Tabs, MayVoice
  <2> QED BY <2>2
<1>2. \A h \in Steady(V, n) : [x EXCEPT !.tab = h] \in Positions(V, n)
  BY DEF Positions
<1>3. \A h \in Steady(V, n) : [x EXCEPT !.tab = h, !.tele = i] \in Positions(V, n)
  BY DEF Positions
<1>4. \A h \in Steady(V, n) : [x EXCEPT !.tab = softCommitAnchor(h, i, up)] \in Positions(V, n)
  BY <1>2, SoftCommitKeeps
<1> DEFINE opened(hard) ==
             IF authority # "DOM_SEEKED" THEN {}
             ELSE {"rest"} \cup (IF hard \/ Open(t, {"scrub"}) THEN {"mute"} ELSE {})
           moved(hard) == [AnchorAt(t, i) EXCEPT !.vouched = TRUE, !.pending = None,
                                                 !.on = @ \cup opened(hard)]
<1>5. \A hard : moved(hard) \in Steady(V, n)
  <2>1. \A hard : opened(hard) \in SUBSET Windows
    BY DEF Windows
  <2> HIDE DEF opened
  <2> QED BY <2>1, <1>1
<1>6. \/ commitAnchorFromAuthority(x, i, authority, source, up) = x
      \/ \E hard : commitAnchorFromAuthority(x, i, authority, source, up)
                     = [x EXCEPT !.tab = moved(hard), !.tele = i]
      \/ \E hard : commitAnchorFromAuthority(x, i, authority, source, up)
                     = [x EXCEPT !.tab = softCommitAnchor(moved(hard), i, up)]
  BY Zenon DEF commitAnchorFromAuthority
<1> HIDE DEF moved, opened, t
<1> QED BY <1>3, <1>4, <1>5, <1>6

(* The reconciler. *)
LEMMA PromotedKeeps ==
    ASSUME NEW V \in MayVoice, NEW n, NEW x \in Positions(V, n), NEW t \in Tabs(V), NEW up
    PROVE  Promoted(x, t, up) \in Positions(V, n)
  BY MedianIsHeard, CommitKeeps DEF Promoted

LEMMA ReconcileKeeps ==
    ASSUME NEW V \in MayVoice, NEW n, NEW x \in Positions(V, n), NEW up
    PROVE  /\ maybeReconcileAnchor(x, up) \in Positions(V, n)
           /\ \A t \in Tabs(V) : ReconcileReplaced(x, t, up) \in Positions(V, n)
<1>0. x.tab \in Steady(V, n) /\ x.tab \in Tabs(V)
  BY DEF Positions, Steady
<1>1. Promoted(x, x.tab, up) \in Positions(V, n)
  BY <1>0, PromotedKeeps
<1>2. \A y \in Positions(V, n), t \in Steady(V, n) : [y EXCEPT !.tab = t] \in Positions(V, n)
  BY DEF Positions
<1>3. Evaluated(x.tab) \in Steady(V, n)
  <2> DEFINE s == Evaluated(x.tab).since
  <2>1. s \in {"no", "young", "ripe"} /\ Evaluated(x.tab) = [x.tab EXCEPT !.since = s]
    BY <1>0 DEF Evaluated, Tabs
  <2>2. [x.tab EXCEPT !.since = s] \in Steady(V, n)
    <3> HIDE DEF s
    <3> QED BY <1>0, <2>1, SteadyParts
  <2> QED BY <2>1, <2>2
<1>4. [Promoted(x, x.tab, up) EXCEPT !.tab.since = "no", !.tab.held = TRUE] \in Positions(V, n)
  <2> DEFINE y == Promoted(x, x.tab, up)
             a == [y.tab EXCEPT !.since = "no"]
             b == [a EXCEPT !.held = TRUE]
  <2>1. y.tab \in Steady(V, n)
    BY <1>1 DEF Positions
  <2>2. a \in Steady(V, n)
    BY <2>1, SteadyParts
  <2>3. b \in Steady(V, n)
    <3> HIDE DEF a
    <3> QED BY <2>2, SteadyParts
  <2>4. [y EXCEPT !.tab.since = "no", !.tab.held = TRUE] = [y EXCEPT !.tab = b]
    BY <1>1, <2>1 DEF Positions
  <2>5. [y EXCEPT !.tab = b] \in Positions(V, n)
    <3> HIDE DEF y, b
    <3> QED BY <1>1, <1>2, <2>3 DEF y
  <2> QED BY <2>4, <2>5
<1>5. maybeReconcileAnchor(x, up) \in Positions(V, n)
  BY <1>1, <1>2, <1>3, <1>4 DEF maybeReconcileAnchor
<1>6. \A t \in Tabs(V) : ReconcileReplaced(x, t, up) \in Positions(V, n)
  BY PromotedKeeps DEF ReconcileReplaced
<1> QED BY <1>5, <1>6

LEMMA TeleportKeeps ==
    ASSUME NEW V \in MayVoice, NEW n, NEW x \in Positions(V, n), NEW i \in V, NEW up
    PROVE  Teleported(x, i, up) \in Positions(V, n)
<1> DEFINE a == AnchorAt(x.tab, i)
           b == [a EXCEPT !.on = @ \cup {"teleport", "churn"}, !.target = i, !.retained = FALSE]
<1>0. x.tab \in Steady(V, n)
  BY DEF Positions
<1>1. a \in Steady(V, n)
  BY <1>0, SteadyParts
<1>2. b \in Steady(V, n)
  <2> HIDE DEF a
  <2> QED BY <1>1 DEF Steady, StreakOf, Tabs, MayVoice, Windows
<1>3. Scheduled(b, up) \in Steady(V, n)
  <2> HIDE DEF b
  <2> QED BY <1>2, SteadyParts
<1>4. [x EXCEPT !.tab = Scheduled(b, up)] \in Positions(V, n)
  BY <1>3 DEF Positions
<1>5. \/ Teleported(x, i, up) = maybeReconcileAnchor(x, up)
      \/ Teleported(x, i, up) = [x EXCEPT !.tab = Scheduled(b, up)]
  BY Zenon DEF Teleported
<1> QED BY <1>4, <1>5, ReconcileKeeps

LEMMA ForecastKeeps ==
    ASSUME NEW V \in MayVoice, NEW n, NEW x \in Positions(V, n), NEW i \in V, NEW late, NEW up
    PROVE  SeekPrediction(x, i, late, up) \in Positions(V, n)
<1> DEFINE p == [x EXCEPT !.tab = Predicted(@, i)]
           moved == Scheduled(AnchorAt(p.tab, i), up)
<1>0. x.tab \in Steady(V, n)
  BY DEF Positions
<1>1. Predicted(x.tab, i) \in Steady(V, n)
  BY <1>0, SteadyParts
<1>2. p \in Positions(V, n) /\ p.tab \in Steady(V, n)
  BY <1>1 DEF Positions
<1>3. moved \in Steady(V, n)
  <2> DEFINE a == AnchorAt(p.tab, i)
  <2>1. a \in Steady(V, n)
    <3> HIDE DEF p
    <3> QED BY <1>2, SteadyParts
  <2>2. Scheduled(a, up) \in Steady(V, n)
    <3> HIDE DEF a
    <3> QED BY <2>1, SteadyParts
  <2> QED BY <2>2
<1>4. markSeekChurnAggressive(moved) \in Steady(V, n)
  <2>1. {"churn"} \in SUBSET Calm
    BY DEF Calm, Windows
  <2> HIDE DEF moved
  <2> QED BY <1>3, <2>1, SteadyParts DEF markSeekChurnAggressive
<1>5. \A t \in Steady(V, n) : [p EXCEPT !.tab = t] \in Positions(V, n)
  <2> HIDE DEF p
  <2> QED BY <1>2 DEF Positions
<1>6. \/ SeekPrediction(x, i, late, up) = p
      \/ SeekPrediction(x, i, late, up) = maybeReconcileAnchor(p, up)
      \/ SeekPrediction(x, i, late, up) = [p EXCEPT !.tab = moved]
      \/ SeekPrediction(x, i, late, up) = [p EXCEPT !.tab = markSeekChurnAggressive(moved)]
      \/ SeekPrediction(x, i, late, up)
             = commitAnchorFromAuthority(p, i, "SEEK_PREDICTION", "seek-prediction", up)
  BY Zenon DEF SeekPrediction
<1> HIDE DEF p, moved
<1> QED BY <1>2, <1>3, <1>4, <1>5, <1>6, ReconcileKeeps, CommitKeeps

(* What evaluateAnchorCommit finds of a segment. *)
LEMMA CommitIs ==
    ASSUME NEW V \in MayVoice, NEW n, NEW t \in Steady(V, n), NEW i \in Nat
    PROVE  /\ evaluateAnchorCommit(t, i) \in {"near", "muted", "renewal", "stale", "streak", "far"}
           /\ evaluateAnchorCommit(t, i) \in {"muted", "renewal", "stale"} => t.pending = None
           /\ evaluateAnchorCommit(t, i) \in {"muted", "stale"} => t.anchor # None
           /\ evaluateAnchorCommit(t, i) = "renewal" => Rotating(t)
           /\ evaluateAnchorCommit(t, i) = "far" => ~t.retained /\ t.on \cap {"grace", "mute"} = {}
           /\ evaluateAnchorCommit(t, i) = "streak" => n \in {i, i - 1}
           /\ evaluateAnchorCommit(t, i) = "near" =>
                 t.anchor = None \/ Open(t, {"teleport"}) \/ Dist(i, t.anchor) <= 5
<1> USE AnchorAssumption DEF Steady, StreakOf, Open, Rotating
<1>1. CASE t.anchor = None
  BY <1>1, Zenon DEF evaluateAnchorCommit
<1>2. CASE t.anchor # None /\ Open(t, {"mute"})
  <2>1. evaluateAnchorCommit(t, i) = IF Dist(i, t.anchor) <= 2 THEN "near" ELSE "muted"
    BY <1>2, Zenon DEF evaluateAnchorCommit
  <2>2. t.pending = None
    BY <1>2
  <2>3. Dist(i, t.anchor) <= 2 => Dist(i, t.anchor) <= 5
    <3>1. t.anchor \in Nat
      BY <1>2 DEF Tabs, MayVoice, Indices
    <3>2. \A j \in Nat : Dist(i, j) \in Int
      BY DEF Dist
    <3> QED BY <3>1, <3>2
  <2> QED BY <1>2, <2>1, <2>2, <2>3
<1>3. CASE t.anchor # None /\ ~Open(t, {"mute"})
  <2>1. evaluateAnchorCommit(t, i) =
            IF \/ Open(t, {"teleport"}) /\ t.target # None /\ Dist(i, t.target) <= 7
               \/ Dist(i, t.anchor) <= 5
            THEN "near"
            ELSE IF Rotating(t)
            THEN IF VouchedByRenewal(t, i) THEN "renewal" ELSE "stale"
            ELSE IF evaluatePassiveAnchorSignal(t, i) THEN "streak" ELSE "far"
    BY <1>3, Zenon DEF evaluateAnchorCommit
  <2>2. Rotating(t) => t.pending = None
    OBVIOUS
  <2>3. ~Rotating(t) => ~t.retained /\ t.on \cap {"grace", "mute"} = {}
    BY <1>3
  <2>4. evaluatePassiveAnchorSignal(t, i) => n \in {i, i - 1}
    BY DEF evaluatePassiveAnchorSignal
  <2> QED BY <1>3, <2>1, <2>2, <2>3, <2>4
<1> QED BY <1>1, <1>2, <1>3

(* A segment that is accepted, on a tab whose streak is over. *)
LEMMA ObservedKeeps ==
    ASSUME NEW V \in MayVoice, NEW n, NEW x \in Positions(V, n), NEW i \in V \ {None},
           NEW how, NEW busy, NEW up, how = "renewal" => x.tab.pending = None
    PROVE  /\ Observed(x, i, how, busy, up) \in Positions(V, i)
           /\ x.tab.anchor # None /\ x.tab.since # "ripe" =>
                 Observed(x, i, how, busy, up).tab.anchor \in {i, x.tab.anchor}
<1> DEFINE t == x.tab
           at == [AnchorAt(t, i) EXCEPT
                     !.observed = i, !.retained = FALSE,
                     !.pending = resetPassiveAnchorDeferral(t, how),
                     !.on = IF busy /\ t.anchor \notin {None, i} THEN @ \cup {"churn"} ELSE @]
           back == [at EXCEPT !.anchor = t.anchor]
<1>0. t \in Steady(V, n) /\ t.anchor \in V /\ x.dom \in V /\ x.tele \in V
  BY DEF Positions, Steady, Tabs
<1>1. at \in Steady(V, i) /\ at.anchor = i /\ at.since = t.since
  <2> DEFINE a == AnchorAt(t, i)
             p == resetPassiveAnchorDeferral(t, how)
             w == IF busy /\ t.anchor \notin {None, i} THEN a.on \cup {"churn"} ELSE a.on
             b == [a EXCEPT !.observed = i, !.retained = FALSE, !.pending = p, !.on = w]
  <2>1. a \in Tabs(V) /\ a.anchor = i /\ a.since = t.since
    BY <1>0 DEF AnchorAt, Steady, Tabs
  <2>2. p = None
    BY DEF resetPassiveAnchorDeferral
  <2>3. w \in SUBSET Windows
    <3> HIDE DEF a
    <3> QED BY <2>1 DEF Tabs, Windows
  <2>4. b \in Tabs(V) /\ b.anchor = i /\ b.since = t.since /\ b.pending = None
    <3> HIDE DEF a, p, w
    <3> QED BY <2>1, <2>2, <2>3 DEF Tabs, MayVoice
  <2>5. b \in Steady(V, i)
    <3> HIDE DEF b
    <3> QED BY <2>4 DEF Steady, StreakOf
  <2>6. at = b
    OBVIOUS
  <2> QED BY <2>4, <2>5, <2>6
<1>2. back \in Steady(V, i) /\ back.anchor = t.anchor /\ back.since = t.since
  <2> HIDE DEF at
  <2> QED BY <1>0, <1>1 DEF Steady, Tabs, StreakOf
<1>3. markSeekChurnAggressive(at) \in Steady(V, i) /\ markSeekChurnAggressive(at).anchor = i
  <2> HIDE DEF at
  <2>1. {"churn"} \in SUBSET Calm
    BY DEF Calm, Windows
  <2>2. markSeekChurnAggressive(at) \in Steady(V, i)
    BY <1>1, <2>1, SteadyParts DEF markSeekChurnAggressive
  <2>3. markSeekChurnAggressive(at).anchor = i
    BY <1>1 DEF markSeekChurnAggressive, Steady, Tabs
  <2> QED BY <2>2, <2>3
<1>4. \A h \in Steady(V, i) : /\ [x EXCEPT !.tab = h] \in Positions(V, i)
                              /\ [x EXCEPT !.tab = h].tab = h
                              /\ [x EXCEPT !.tab = h, !.tele = i] \in Positions(V, i)
                              /\ [x EXCEPT !.tab = h, !.tele = i].tab = h
  BY DEF Positions
<1> DEFINE y == [x EXCEPT !.tab = back]
<1>5. y \in Positions(V, i) /\ y.tab = back
  <2> HIDE DEF back
  <2> QED BY <1>2, <1>4
<1>6. /\ maybeReconcileAnchor(y, up) \in Positions(V, i)
      /\ t.anchor # None /\ t.since # "ripe" => maybeReconcileAnchor(y, up).tab.anchor = t.anchor
  <2> HIDE DEF y, back
  <2>1. maybeReconcileAnchor(y, up) \in Positions(V, i)
    BY <1>5, ReconcileKeeps
  <2>2. ASSUME t.anchor # None, t.since # "ripe" PROVE maybeReconcileAnchor(y, up).tab.anchor = t.anchor
    <3>1. ~Promotes(y.tab)
      BY <1>2, <1>5, <2>2 DEF Promotes
    <3>2. maybeReconcileAnchor(y, up) = [y EXCEPT !.tab = Evaluated(@)]
      BY <3>1 DEF maybeReconcileAnchor
    <3>3. Evaluated(y.tab).anchor = y.tab.anchor
      BY <1>2, <1>5 DEF Evaluated, Steady, Tabs
    <3>4. [y EXCEPT !.tab = Evaluated(@)].tab = Evaluated(y.tab)
      BY <1>5 DEF Positions
    <3> QED BY <1>2, <1>5, <3>2, <3>3, <3>4
  <2> QED BY <2>1, <2>2
<1>7. \/ Observed(x, i, how, busy, up) = [x EXCEPT !.tab = at]
      \/ Observed(x, i, how, busy, up) = maybeReconcileAnchor(y, up)
      \/ Observed(x, i, how, busy, up) = [x EXCEPT !.tab = at, !.tele = i]
      \/ Observed(x, i, how, busy, up) = [x EXCEPT !.tab = markSeekChurnAggressive(at)]
  BY Zenon DEF Observed
<1> HIDE DEF at, y, back
<1>8. Observed(x, i, how, busy, up) \in Positions(V, i)
  BY <1>1, <1>3, <1>4, <1>6, <1>7
<1>9. t.anchor # None /\ t.since # "ripe" =>
         Observed(x, i, how, busy, up).tab.anchor \in {i, t.anchor}
  BY <1>1, <1>3, <1>4, <1>6, <1>7
<1> QED BY <1>8, <1>9

(* A renewal finds the anchor again among the voices, or none. *)
LEMMA RenewalKeeps ==
    ASSUME NEW V \in MayVoice, NEW n, NEW t \in Steady(V, n),
           NEW found \in BOOLEAN, NEW retain \in BOOLEAN
    PROVE  /\ AfterRenewal(t, found, retain) \in Steady(V, n)
           /\ AfterRenewal(t, found, retain).pending = None
<1> DEFINE C == [at : V, retained : BOOLEAN]
<1>0. t \in Tabs(V) /\ t.anchor \in V /\ None \in V /\ V \ {None} \subseteq Nat
  BY DEF Steady, Tabs, MayVoice, Indices
<1>1. Kept(t, found, retain) \in C
  BY <1>0 DEF Kept, Tabs
<1>2. ASSUME NEW c \in C PROVE RaisedByPlayhead(t, c) \in C
  <2> DEFINE S == {Predictor(t), t.observed, t.anchor} \ {None}
  <2>1. Predictor(t) \in V /\ t.observed \in V
    BY <1>0, SignalsAre DEF Tabs
  <2>2. S \in SUBSET Nat /\ S \subseteq V
    BY <1>0, <2>1
  <2>3. Bounded(S)
    <3>1. S \subseteq {Predictor(t), t.observed, t.anchor, t.anchor}
      OBVIOUS
    <3> HIDE DEF S
    <3> QED BY <2>2, <3>1, BoundedByFour
  <2>4. t.anchor # None => Max(S) \in V
    <3>1. t.anchor # None => S # {}
      OBVIOUS
    <3> HIDE DEF S
    <3> QED BY <2>2, <2>3, <3>1, BoundsAre
  <2>5. RaisedByPlayhead(t, c) = IF c.at # None /\ c.at <= 2 /\ t.anchor # None /\ Max(S) > c.at + 3
                                 THEN [at |-> Max(S), retained |-> TRUE] ELSE c
    BY DEF RaisedByPlayhead
  <2> HIDE DEF S
  <2> QED BY <2>4, <2>5
<1>3. ASSUME NEW c \in C PROVE RaisedByFloor(t, c) \in C
  <2>1. t.predicted \in V
    BY <1>0 DEF Tabs
  <2> QED BY <1>0, <2>1 DEF RaisedByFloor, Higher
<1>4. ASSUME NEW c \in C PROVE Renewed(t, c) \in Steady(V, n) /\ Renewed(t, c).pending = None
  BY <1>0 DEF Renewed, Steady, StreakOf, Tabs, Windows
<1> HIDE DEF C
<1> QED BY <1>1, <1>2, <1>3, <1>4 DEF AfterRenewal

-----------------------------------------------------------------------------
(* The actions. *)
LEMMA VoicesMay == ASSUME AnchorInv PROVE Voices \in MayVoice
<1>1. Places[episode] \subseteq Nat /\ left \subseteq Nat
  BY AnchorAssumption DEF AnchorInv
<1>2. Voices \subseteq Indices
  <2>1. Here \subseteq Indices /\ left \subseteq Indices
    BY <1>1 DEF Indices, Here
  <2>2. None \in Indices /\ 0 \in Indices
    BY DEF Indices
  <2> QED BY <2>1, <2>2 DEF Voices
<1>3. {None, 0} \subseteq Voices
  BY DEF Voices
<1> QED BY <1>2, <1>3 DEF MayVoice

LEMMA NowIs == ASSUME AnchorInv PROVE Now \in Positions(Voices, seen)
  BY DEF AnchorInv, Positions, Now

(* A handler that heeds no segment and switches no episode. *)
LEMMA MoveKeeps ==
    ASSUME AnchorInv, NEW x \in Positions(Voices, seen), Becomes(x),
           UNCHANGED <<episode, seen, left>>
    PROVE  AnchorInv'
<1>1. Voices' = Voices
  BY DEF Voices, Here
<1>2. tabState' \in Steady(Voices, seen) /\ dom' \in Voices /\ tele' \in Voices
  BY DEF Becomes, Positions
<1>3. Steady(Voices', seen') = Steady(Voices, seen)
  BY <1>1
<1>4. (tabState \in Steady(Voices, seen))' <=> tabState' \in Steady(Voices', seen')
  OBVIOUS
<1> QED BY <1>1, <1>2, <1>3, <1>4 DEF AnchorInv

LEMMA TabMoveKeeps ==
    ASSUME AnchorInv, tabState' \in Steady(Voices, seen), UNCHANGED <<dom, tele, episode, seen, left>>
    PROVE  AnchorInv'
<1> DEFINE x == [tab |-> tabState', dom |-> dom, tele |-> tele]
<1>1. x \in Positions(Voices, seen) /\ Becomes(x)
  BY DEF AnchorInv, Positions, Becomes
<1> HIDE DEF x
<1> QED BY <1>1, MoveKeeps

LEMMA AnchorInitInv == ASSUME AnchorInit PROVE AnchorInv
<1>1. {None, 0} \subseteq Voices /\ NewTab \in Tabs(Voices) /\ NewTab.pending = None
  BY DEF AnchorInit, Voices, NewTab, Tabs, Windows, Indices
<1>2. NewTab \in Steady(Voices, seen)
  BY <1>1 DEF Steady, StreakOf
<1> QED BY <1>1, <1>2, AnchorAssumption DEF AnchorInit, AnchorInv, Indices

LEMMA ChunkKeeps ==
    ASSUME AnchorInv, NEW asked \in Here, NEW busy, NEW up, handleChunkObserved(asked, busy, up)
    PROVE  AnchorInv' /\ JumpIsProven
<1> DEFINE i == remapChunkIndexViaMediaSequence(tabState, asked)
           how == evaluateAnchorCommit(tabState, i)
           V == Voices
<1>0. V \in MayVoice /\ tabState \in Steady(V, seen) /\ Now \in Positions(V, seen) /\ Now.tab = tabState
  BY VoicesMay, NowIs DEF AnchorInv, Now
<1>1. i \in V /\ i \in Nat /\ i # None
  <2>1. asked \in V /\ asked \in Nat /\ asked # None
    BY AnchorAssumption DEF AnchorInv, Voices, Here
  <2>2. tabState.seq \in V /\ (tabState.seq # None => tabState.seq \in Nat)
    BY <1>0 DEF Steady, Tabs, MayVoice, Indices
  <2> QED BY <2>1, <2>2 DEF remapChunkIndexViaMediaSequence
<1> HIDE DEF i
<1>2. CASE shouldRejectAnchorRegression(tabState, i)
  <2>1. UNCHANGED anchorVars
    BY <1>2, Zenon DEF handleChunkObserved, i
  <2>2. AnchorInv'
    BY <2>1, <1>0, TabMoveKeeps DEF anchorVars
  <2>3. JumpIsProven
    <3>1. tabState.anchor # None => tabState.anchor \in Nat
      BY <1>0 DEF Steady, Tabs, MayVoice, Indices
    <3> QED BY <2>1, <3>1 DEF JumpIsProven, anchorVars, Dist
  <2> QED BY <2>2, <2>3
<1>3. CASE ~shouldRejectAnchorRegression(tabState, i)
  <2> DEFINE x == CASE how \in {"near", "renewal", "streak"} -> Observed(Now, i, how, busy, up)
                    [] how = "far" -> [Now EXCEPT !.tab.pending = i]
                    [] OTHER -> Now
  <2>1. Becomes(x) /\ seen' = i /\ UNCHANGED <<episode, left>>
    BY <1>3, Zenon DEF handleChunkObserved, i
  <2>2. /\ how \in {"near", "muted", "renewal", "stale", "streak", "far"}
        /\ how \in {"muted", "renewal", "stale"} => tabState.pending = None
        /\ how = "renewal" => Rotating(tabState)
        /\ how = "far" => ~tabState.retained /\ tabState.on \cap {"grace", "mute"} = {}
        /\ how = "streak" => seen \in {i, i - 1}
        /\ how = "near" =>
              tabState.anchor = None \/ Open(tabState, {"teleport"}) \/ Dist(i, tabState.anchor) <= 5
    BY <1>0, <1>1, CommitIs
  <2> HIDE DEF how
  <2>3. ASSUME how \in {"near", "renewal", "streak"} PROVE x \in Positions(V, i) /\ JumpIsProven
    <3>1. x = Observed(Now, i, how, busy, up)
      BY <2>3
    <3>2. /\ Observed(Now, i, how, busy, up) \in Positions(V, i)
          /\ tabState.anchor # None /\ tabState.since # "ripe" =>
                Observed(Now, i, how, busy, up).tab.anchor \in {i, tabState.anchor}
      BY <1>0, <1>1, <2>2, ObservedKeeps
    <3>3. x \in Positions(V, i)
      BY <3>1, <3>2
    <3>4. tabState.anchor # None /\ tabState.since # "ripe" => tabState'.anchor \in {i, tabState.anchor}
      BY <3>1, <3>2, <2>1 DEF Becomes
    <3>5. JumpIsProven
      <4>1. tabState.anchor # None => Dist(tabState.anchor, tabState.anchor) <= 5
        <5>1. tabState.anchor # None => tabState.anchor \in Nat
          BY <1>0 DEF Steady, Tabs, MayVoice, Indices
        <5> QED BY <5>1 DEF Dist
      <4>2. how = "streak" => seen \in {i - 1, i}
        BY <2>2
      <4> QED BY <2>2, <2>3, <3>4, <4>1, <4>2 DEF JumpIsProven
    <3> QED BY <3>3, <3>5
  <2>4. ASSUME how = "far" PROVE x \in Positions(V, i) /\ JumpIsProven
    <3> DEFINE p == [tabState EXCEPT !.pending = i]
    <3>1. x = [Now EXCEPT !.tab = p]
      BY <2>4 DEF Now
    <3>2. p \in Steady(V, i) /\ p.anchor = tabState.anchor
      BY <1>0, <1>1, <2>2, <2>4 DEF Steady, StreakOf, Tabs
    <3>3. x \in Positions(V, i) /\ x.tab = p
      <4> HIDE DEF p, x
      <4> QED BY <1>0, <3>1, <3>2 DEF Positions
    <3>4. tabState'.anchor = tabState.anchor
      BY <2>1, <3>2, <3>3 DEF Becomes
    <3>5. JumpIsProven
      <4>1. tabState.anchor # None => tabState.anchor \in Nat
        BY <1>0 DEF Steady, Tabs, MayVoice, Indices
      <4> QED BY <3>4, <4>1 DEF JumpIsProven, Dist
    <3> QED BY <3>3, <3>5
  <2>5. ASSUME how \in {"muted", "stale"} PROVE x \in Positions(V, i) /\ JumpIsProven
    <3>1. x = Now
      BY <2>5
    <3>2. Now \in Positions(V, i)
      BY <1>0, <2>2, <2>5 DEF Positions, Steady, StreakOf
    <3>3. tabState' = tabState
      BY <2>1, <3>1, <1>0 DEF Becomes
    <3>4. JumpIsProven
      <4>1. tabState.anchor # None => tabState.anchor \in Nat
        BY <1>0 DEF Steady, Tabs, MayVoice, Indices
      <4> QED BY <3>3, <4>1 DEF JumpIsProven, Dist
    <3> QED BY <3>1, <3>2, <3>4
  <2>6. x \in Positions(V, i) /\ JumpIsProven
    <3> HIDE DEF x
    <3> QED BY <2>2, <2>3, <2>4, <2>5
  <2>7. AnchorInv'
    <3>1. Voices' = V
      BY <2>1 DEF Voices, Here
    <3>2. tabState' \in Steady(V, i) /\ dom' \in V /\ tele' \in V
      <4> HIDE DEF x
      <4> QED BY <2>1, <2>6 DEF Becomes, Positions
    <3>3. (tabState \in Steady(Voices, seen))' <=> tabState' \in Steady(Voices', seen')
      OBVIOUS
    <3>4. tabState' \in Steady(Voices', seen') /\ {dom', tele'} \subseteq Voices'
      BY <2>1, <3>1, <3>2
    <3> QED BY <2>1, <1>1, <3>4, <3>3 DEF AnchorInv, Indices
  <2> QED BY <2>6, <2>7
<1> QED BY <1>2, <1>3

LEMMA InputsAreVoices ==
    ASSUME AnchorInv
    PROVE  /\ Here \cup {0} \subseteq Voices
           /\ \A i \in Here, known \in BOOLEAN : OnTheWire(i, known) \in Voices
  BY DEF Voices, OnTheWire

(* A sample of the seeking controller, part by part. *)
LEMMA SampleKeeps ==
    ASSUME AnchorInv, NEW at \in Voices, NEW says \in Voices, NEW flag, NEW ahead \in Voices,
           NEW prewarm, NEW low, NEW late, NEW up,
           UnifiedSeek(at, says, flag, ahead, prewarm, low, late, up)
    PROVE  AnchorInv'
<1> DEFINE V == Voices
           P == Positions(Voices, seen)
           S == Steady(Voices, seen)
           scrubbing == flag \in {"scrub", "scrub-release"}
           release == flag \in {"release", "scrub-release"}
           snaps == /\ flag = "end" /\ Open(tabState, {"scrub", "passenger"})
                    /\ tabState.anchor # None
           locked == IF scrubbing THEN applyUnifiedSeekPassengerLock(tabState)
                     ELSE IF flag = "end" THEN clearSeekPassengerLock(tabState) ELSE tabState
           own == IF snaps THEN SnapBack(locked, tabState.anchor) ELSE locked
           phase == isSeekPredictionPassengerPhase(own)
           sampled == IF phase THEN [Predicted(own, says) EXCEPT
                                        !.velocity = IF scrubbing THEN ahead ELSE says]
                      ELSE Predicted(own, says)
           replaced == up /\ (snaps \/ (phase /\ prewarm))
           now == [Now EXCEPT !.tab = IF snaps /\ up THEN Upserted(own)
                                      ELSE IF replaced THEN Upserted(sampled) ELSE sampled]
           reconciled == IF replaced THEN ReconcileReplaced(now, sampled, up)
                         ELSE maybeReconcileAnchor(now, up)
           unlocked == IF replaced \/ Replaces(now, up) THEN reconciled
                       ELSE [reconciled EXCEPT !.tab = clearSeekPassengerLock(@)]
<1>0. V \in MayVoice /\ tabState \in S /\ Now \in P /\ tabState.anchor \in V
  BY VoicesMay, NowIs DEF AnchorInv, Steady, Tabs
<1>1. \A t \in S : /\ applyUnifiedSeekPassengerLock(t) \in S
                   /\ clearSeekPassengerLock(t) \in S
                   /\ \A i \in V : SnapBack(t, i) \in S
                   /\ Upserted(t) \in S
                   /\ \A i \in V : Predicted(t, i) \in S /\ [t EXCEPT !.velocity = i] \in S
  <2> SUFFICES ASSUME NEW t \in S
               PROVE  /\ applyUnifiedSeekPassengerLock(t) \in S
                      /\ clearSeekPassengerLock(t) \in S
                      /\ \A i \in V : SnapBack(t, i) \in S
                      /\ Upserted(t) \in S
                      /\ \A i \in V : Predicted(t, i) \in S /\ [t EXCEPT !.velocity = i] \in S
    OBVIOUS
  <2>1. \A ws \in SUBSET Calm : [t EXCEPT !.on = @ \cup ws] \in S
    BY <1>0, SteadyParts
  <2>2. applyUnifiedSeekPassengerLock(t) \in S
    <3>1. {"scrub", "passenger", "recent", "churn"} \in SUBSET Calm
      BY DEF Calm, Windows
    <3> HIDE DEF S
    <3> QED BY <2>1, <3>1 DEF applyUnifiedSeekPassengerLock
  <2>3. clearSeekPassengerLock(t) \in S
    <3>1. \A ws : [t EXCEPT !.on = @ \ ws] \in S
      BY <1>0, SteadyParts
    <3> HIDE DEF S
    <3> QED BY <3>1 DEF clearSeekPassengerLock
  <2>4. \A i \in V : SnapBack(t, i) \in S
    BY <1>0 DEF SnapBack, Steady, StreakOf, Tabs, Windows
  <2>5. Upserted(t) \in S
    BY <1>0 DEF Upserted, Steady, StreakOf, Tabs, MayVoice
  <2>6. \A i \in V : Predicted(t, i) \in S /\ [t EXCEPT !.velocity = i] \in S
    BY <1>0, SteadyParts
  <2> QED BY <2>2, <2>3, <2>4, <2>5, <2>6
<1>2. locked \in S
  <2> HIDE DEF S
  <2> QED BY <1>0, <1>1
<1>3. own \in S
  <2> HIDE DEF S, locked
  <2> QED BY <1>0, <1>1, <1>2
<1>4. sampled \in S
  <2> DEFINE p == Predicted(own, says)
             v == IF scrubbing THEN ahead ELSE says
  <2>1. p \in S /\ v \in V
    <3> HIDE DEF S, own
    <3> QED BY <1>1, <1>3
  <2>2. [p EXCEPT !.velocity = v] \in S
    <3> HIDE DEF S, p, v
    <3> QED BY <1>1, <2>1
  <2>3. sampled = p \/ sampled = [p EXCEPT !.velocity = v]
    <3> HIDE DEF own
    <3> QED OBVIOUS
  <2> HIDE DEF S, p, v, sampled
  <2> QED BY <2>1, <2>2, <2>3
<1>5. \A x \in P, t \in S : [x EXCEPT !.tab = t] \in P
  BY DEF Positions
<1>6. now \in P
  <2> DEFINE t == IF snaps /\ up THEN Upserted(own)
                  ELSE IF replaced THEN Upserted(sampled) ELSE sampled
  <2>1. t \in S
    <3> HIDE DEF S, own, sampled, snaps, replaced
    <3> QED BY <1>1, <1>3, <1>4
  <2> HIDE DEF S, P, t
  <2> QED BY <1>0, <1>5, <2>1 DEF t
<1>7. reconciled \in P
  <2>1. sampled \in Tabs(V)
    <3> HIDE DEF sampled
    <3> QED BY <1>4 DEF Steady
  <2> HIDE DEF P, now, sampled, replaced
  <2> QED BY <1>0, <1>6, <2>1, ReconcileKeeps DEF P
<1>8. unlocked \in P
  <2>1. reconciled.tab \in S
    <3> HIDE DEF reconciled
    <3> QED BY <1>7 DEF Positions
  <2>2. [reconciled EXCEPT !.tab = clearSeekPassengerLock(reconciled.tab)] \in P
    <3> HIDE DEF reconciled, P, S
    <3> QED BY <1>1, <1>5, <1>7, <2>1
  <2> HIDE DEF reconciled, P, S, now, replaced
  <2> QED BY <1>7, <2>2
<1>9. \A x \in P : SeekPrediction(x, at, late, up) \in P
  <2> SUFFICES ASSUME NEW x \in P PROVE SeekPrediction(x, at, late, up) \in P
    OBVIOUS
  <2> QED BY <1>0, ForecastKeeps
<1>10. /\ \/ Becomes(now) \/ Becomes(SeekPrediction(now, at, late, up))
          \/ Becomes(SeekPrediction(unlocked, at, late, up)) \/ Becomes(reconciled)
       /\ UNCHANGED <<episode, seen, left>>
  BY Zenon DEF UnifiedSeek
<1> HIDE DEF now, reconciled, unlocked, P
<1>11. \E x \in P : Becomes(x)
  BY <1>6, <1>7, <1>8, <1>9, <1>10
<1> QED BY <1>10, <1>11, MoveKeeps DEF P

LEMMA PredictionKeeps ==
    ASSUME AnchorInv, NEW i \in Here, NEW late, NEW up, handleSeekPrediction(i, late, up)
    PROVE  AnchorInv'
<1>1. SeekPrediction(Now, i, late, up) \in Positions(Voices, seen)
  BY VoicesMay, NowIs, InputsAreVoices, ForecastKeeps
<1> QED BY <1>1, MoveKeeps DEF handleSeekPrediction

LEMMA ScrubKeeps ==
    ASSUME AnchorInv, NEW active, NEW up, handleScrubbingTrainState(active, up)
    PROVE  AnchorInv'
<1> DEFINE S == Steady(Voices, seen)
           off == [tabState EXCEPT !.on = @ \ {"scrub"}]
           back == SnapBack(off, tabState.anchor)
           on == [tabState EXCEPT !.on = @ \cup {"scrub", "recent", "churn"}]
<1>0. Voices \in MayVoice /\ tabState \in S /\ tabState.anchor \in Voices
  BY VoicesMay DEF AnchorInv, Steady, Tabs
<1>1. off \in S
  BY <1>0, SteadyParts
<1>2. back \in S
  <2> HIDE DEF off
  <2> QED BY <1>0, <1>1 DEF SnapBack, Steady, StreakOf, Tabs, Windows
<1>3. Scheduled(back, up) \in S
  <2> HIDE DEF back
  <2> QED BY <1>0, <1>2, SteadyParts
<1>4. on \in S
  <2>1. {"scrub", "recent", "churn"} \in SUBSET Calm
    BY DEF Calm, Windows
  <2> QED BY <1>0, <2>1, SteadyParts
<1>5. /\ tabState' = on \/ tabState' = off \/ tabState' = Scheduled(back, up)
      /\ UNCHANGED <<dom, tele, episode, seen, left>>
  BY Zenon DEF handleScrubbingTrainState
<1> HIDE DEF on, off, back
<1>6. tabState' \in Steady(Voices, seen)
  BY <1>1, <1>3, <1>4, <1>5
<1> QED BY <1>5, <1>6, TabMoveKeeps

LEMMA ForceKeeps ==
    ASSUME AnchorInv, NEW i \in Voices, NEW soon, NEW up, handleForceTeleportAnchor(i, soon, up)
    PROVE  AnchorInv'
<1> DEFINE P == Positions(Voices, seen)
           churned == markSeekChurnAggressive(tabState)
           x == [Now EXCEPT !.tab = Scheduled(churned, up)]
           y == [Now EXCEPT !.dom = i]
<1>0. Voices \in MayVoice /\ tabState \in Steady(Voices, seen) /\ Now \in P /\ Now.tab = tabState
  BY VoicesMay, NowIs DEF AnchorInv, Now
<1>1. x \in P
  <2>1. {"churn"} \in SUBSET Calm
    BY DEF Calm, Windows
  <2>2. churned \in Steady(Voices, seen)
    BY <1>0, <2>1, SteadyParts DEF markSeekChurnAggressive
  <2>3. Scheduled(churned, up) \in Steady(Voices, seen)
    <3> HIDE DEF churned
    <3> QED BY <1>0, <2>2, SteadyParts
  <2> QED BY <1>0, <2>3 DEF Positions
<1>2. y \in P
  BY <1>0 DEF Positions
<1>3. maybeReconcileAnchor(Now, up) \in P
  BY <1>0, ReconcileKeeps
<1>4. /\ Becomes(x) \/ Becomes(y) \/ Becomes(maybeReconcileAnchor(Now, up))
      /\ UNCHANGED <<episode, seen, left>>
  <2>1. Now.tab = tabState
    BY DEF Now
  <2> QED BY <2>1, Zenon DEF handleForceTeleportAnchor
<1> HIDE DEF x, y
<1> QED BY <1>1, <1>2, <1>3, <1>4, MoveKeeps

LEMMA FlushCommitKeeps ==
    ASSUME AnchorInv, NEW up, flushPendingDomAnchorCommit(up)
    PROVE  AnchorInv'
<1> DEFINE x == [Now EXCEPT !.dom = None]
<1>1. Voices \in MayVoice /\ Now \in Positions(Voices, seen) /\ dom \in Voices
  BY VoicesMay, NowIs DEF AnchorInv
<1>2. x \in Positions(Voices, seen)
  BY <1>1 DEF Positions, MayVoice
<1>3. commitAnchorFromAuthority(x, dom, "DOM_SEEKED", "dom-seeked", up) \in Positions(Voices, seen)
  <2> HIDE DEF x
  <2> QED BY <1>1, <1>2, CommitKeeps
<1> QED BY <1>3, MoveKeeps DEF flushPendingDomAnchorCommit

LEMMA TeleportFiresKeeps ==
    ASSUME AnchorInv, NEW up, TeleportFires(up)
    PROVE  AnchorInv'
<1> DEFINE x == [Now EXCEPT !.tele = None]
<1>1. Voices \in MayVoice /\ Now \in Positions(Voices, seen) /\ tele \in Voices
  BY VoicesMay, NowIs DEF AnchorInv
<1>2. x \in Positions(Voices, seen)
  BY <1>1 DEF Positions, MayVoice
<1>3. Teleported(x, tele, up) \in Positions(Voices, seen)
  <2> HIDE DEF x
  <2> QED BY <1>1, <1>2, TeleportKeeps
<1> QED BY <1>3, MoveKeeps DEF TeleportFires

LEMMA SnapshotKeeps ==
    ASSUME AnchorInv, snapshotAnchorBeforeRefresh
    PROVE  AnchorInv'
<1>1. tabState' \in Steady(Voices, seen)
  BY DEF AnchorInv, snapshotAnchorBeforeRefresh, Steady, StreakOf, Tabs
<1> QED BY <1>1, TabMoveKeeps DEF snapshotAnchorBeforeRefresh

LEMMA UpsertKeeps ==
    ASSUME AnchorInv, NEW found \in BOOLEAN, NEW retain \in BOOLEAN,
           upsertPlaylistState(found, retain) \/ SwitchQuality(found, retain)
    PROVE  AnchorInv'
<1> DEFINE t == AfterRenewal(tabState, found, retain)
           s == IF t.anchor # None THEN t.anchor ELSE tabState.anchor
           q == [t EXCEPT !.on = @ \cup {"variant"}, !.switched = s]
<1>0. Voices \in MayVoice /\ tabState \in Steady(Voices, seen)
  BY VoicesMay DEF AnchorInv
<1>1. t \in Steady(Voices, seen) /\ t.pending = None
  BY <1>0, RenewalKeeps
<1>2. q \in Steady(Voices, seen)
  <2>1. s \in Indices
    <3> HIDE DEF t
    <3> QED BY <1>0, <1>1 DEF Steady, Tabs, MayVoice
  <2> HIDE DEF t, s
  <2> QED BY <1>1, <2>1 DEF Steady, StreakOf, Tabs, Windows
<1>3. tabState' \in {t, q} /\ UNCHANGED <<dom, tele, episode, seen, left>>
  BY Zenon DEF upsertPlaylistState, SwitchQuality
<1> HIDE DEF t, q
<1> QED BY <1>1, <1>2, <1>3, TabMoveKeeps

LEMMA RescheduleKeeps == ASSUME AnchorInv, schedulePrefetch PROVE AnchorInv'
<1>1. tabState' \in Steady(Voices, seen)
  BY VoicesMay DEF AnchorInv, schedulePrefetch, Upserted, Steady, StreakOf, Tabs, MayVoice
<1> QED BY <1>1, TabMoveKeeps DEF schedulePrefetch

LEMMA LapseKeeps == ASSUME AnchorInv, TimePasses PROVE AnchorInv'
<1> DEFINE S == Steady(Voices, seen)
<1>0. Voices \in MayVoice /\ tabState \in S
  BY VoicesMay DEF AnchorInv
<1>1. \A w : [tabState EXCEPT !.on = @ \ {w}] \in S
  BY <1>0, SteadyParts
<1>2. /\ [tabState EXCEPT !.fresh = FALSE] \in S
      /\ [tabState EXCEPT !.observed = None] \in S
      /\ [tabState EXCEPT !.velocity = None] \in S
      /\ [tabState EXCEPT !.since = "ripe"] \in S
      /\ [tabState EXCEPT !.held = FALSE] \in S
  BY <1>0 DEF Steady, StreakOf, Tabs, MayVoice
<1>3. tabState' \in S
  BY <1>1, <1>2 DEF TimePasses
<1> QED BY <1>3, TabMoveKeeps DEF TimePasses

(* A switch: what the new tab object still says is left of the old episode. *)
LEMMA SwitchKeeps == ASSUME AnchorInv, SwitchEpisode PROVE AnchorInv'
<1> DEFINE W == {None, 0} \cup Places[episode'] \cup left'
<1>1. /\ tabState \in Tabs(Voices) /\ Voices \in MayVoice
      /\ {dom, tele, tabState.before, tabState.seq} \subseteq Voices
  BY VoicesMay DEF AnchorInv, Steady, Tabs
<1>2. Voices' = W
  BY DEF Voices, Here
<1>3. {dom, tele, tabState.before, tabState.seq} \subseteq W /\ None \in W
  BY DEF SwitchEpisode
<1>4. left' \subseteq Nat
  BY <1>1 DEF SwitchEpisode, MayVoice, Indices
<1>5. tabState' \in Tabs(W) /\ tabState'.pending = None
  <2>1. tabState' = OfNewEpisode(tabState)
    BY DEF SwitchEpisode
  <2>2. tabState.switched \in Indices
    BY <1>1 DEF Tabs
  <2> HIDE DEF W
  <2> QED BY <1>1, <1>3, <2>1 DEF OfNewEpisode, Renewed, Tabs, Windows
<1>6. tabState' \in Steady(W, seen')
  <2> HIDE DEF W
  <2> QED BY <1>5 DEF Steady, StreakOf
<1>7. episode' \in DOMAIN Places /\ seen' \in Indices /\ {dom', tele'} \subseteq W
  <2> HIDE DEF W
  <2> QED BY <1>3 DEF SwitchEpisode, AnchorInv
<1>8. tabState' \in Steady(Voices', seen')
  <2> HIDE DEF W
  <2> QED BY <1>2, <1>6
<1>9. {dom', tele'} \subseteq Voices'
  <2> HIDE DEF W
  <2> QED BY <1>2, <1>7
<1> QED BY <1>4, <1>7, <1>8, <1>9 DEF AnchorInv

LEMMA AnchorNextInv == ASSUME AnchorInv, [AnchorNext]_anchorVars PROVE AnchorInv'
<1>1. CASE UNCHANGED anchorVars
  <2>1. tabState' \in Steady(Voices, seen)
    BY <1>1 DEF AnchorInv, anchorVars
  <2> QED BY <1>1, <2>1, TabMoveKeeps DEF anchorVars
<1>2. CASE AnchorNext
  <2>1. CASE \E up, busy \in BOOLEAN, i \in Here : handleChunkObserved(i, busy, up)
    BY <2>1, ChunkKeeps
  <2>2. CASE \E up \in BOOLEAN, at \in Here, known, prewarm, low, late \in BOOLEAN,
               ahead \in Here \cup {0},
               flag \in {"sample", "scrub", "scrub-release", "release", "end"} :
                 UnifiedSeek(at, OnTheWire(at, known), flag, ahead, prewarm, low, late, up)
    <3>1. PICK up \in BOOLEAN, at \in Here, known, prewarm, low, late \in BOOLEAN,
               ahead \in Here \cup {0},
               flag \in {"sample", "scrub", "scrub-release", "release", "end"} :
                 UnifiedSeek(at, OnTheWire(at, known), flag, ahead, prewarm, low, late, up)
      BY <2>2
    <3>2. at \in Voices /\ OnTheWire(at, known) \in Voices /\ ahead \in Voices
      BY InputsAreVoices
    <3> QED BY <3>1, <3>2, SampleKeeps
  <2>3. CASE \E up, late \in BOOLEAN, i \in Here : handleSeekPrediction(i, late, up)
    BY <2>3, PredictionKeeps
  <2>4. CASE \E up, active \in BOOLEAN : handleScrubbingTrainState(active, up)
    BY <2>4, ScrubKeeps
  <2>5. CASE \E up, known, soon \in BOOLEAN, i \in Here :
               handleForceTeleportAnchor(OnTheWire(i, known), soon, up)
    <3>1. PICK up \in BOOLEAN, known \in BOOLEAN, soon \in BOOLEAN, i \in Here :
               handleForceTeleportAnchor(OnTheWire(i, known), soon, up)
      BY <2>5
    <3>2. OnTheWire(i, known) \in Voices
      BY InputsAreVoices
    <3> QED BY <3>1, <3>2, ForceKeeps
  <2>6. CASE \E up \in BOOLEAN : flushPendingDomAnchorCommit(up) \/ TeleportFires(up)
    BY <2>6, FlushCommitKeeps, TeleportFiresKeeps
  <2>7. CASE \E found, retain \in BOOLEAN :
               upsertPlaylistState(found, retain) \/ SwitchQuality(found, retain)
    BY <2>7, UpsertKeeps
  <2>8. CASE snapshotAnchorBeforeRefresh \/ SwitchEpisode \/ schedulePrefetch \/ TimePasses
    BY <2>8, SnapshotKeeps, SwitchKeeps, RescheduleKeeps, LapseKeeps
  <2> QED BY <1>2, <2>1, <2>2, <2>3, <2>4, <2>5, <2>6, <2>7, <2>8, Zenon DEF AnchorNext
<1> QED BY <1>1, <1>2

LEMMA AnchorSpecInv == AnchorSpec => []AnchorInv
  BY AnchorInitInv, AnchorNextInv, PTL DEF AnchorSpec

(* After any switches of episode, in any order with seeks, predictions, scrubs, renewals and
   refreshes, the anchor is a place of the episode that plays, the start, or one of what the
   last switch left waiting. *)
THEOREM NoOldVoiceMovesTheAnchor == AnchorSpec => []OldEpisodeIsLeftBehind
<1>1. AnchorInv => OldEpisodeIsLeftBehind
  BY DEF AnchorInv, Steady, Tabs, Voices, OldEpisodeIsLeftBehind
<1> QED BY <1>1, AnchorSpecInv, PTL

(* A segment far from the anchor moves it only after the one before it, or itself, was asked
   for, unless a renewal, a teleport or the reconciler vouches for it. *)
THEOREM FarSegmentsAreProven == AnchorSpec => JumpsAreProven
<1>1. AnchorInv /\ [AnchorNext]_anchorVars
        => [JumpIsProven \/ ~\E i \in Here, busy, up \in BOOLEAN :
                                handleChunkObserved(i, busy, up)]_anchorVars
  BY ChunkKeeps
<1> QED BY <1>1, AnchorSpecInv, PTL DEF AnchorSpec, JumpsAreProven
=============================================================================
