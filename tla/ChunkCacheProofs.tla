-------------------------- MODULE ChunkCacheProofs --------------------------
(***************************************************************************)
(* What TLAPS proves of the chunk cache for every number of URLs, keys,    *)
(* stores, passes and readers: first of ChunkStore, its types, eviction's  *)
(* lock and the registry; then of ChunkLookup, with ClearCache and every   *)
(* IndexedDB fault included.                                               *)
(***************************************************************************)
EXTENDS ChunkLookup, CalmStore, FiniteSetTheorems, WellFoundedInduction, TLAPS

LEMMA PrimaryType == \A u \in Keys : Primary(u) \in Keys /\ VariantSet(u) \subseteq Keys
BY StoreAssumption DEF Primary, VariantSet

LEMMA UrlType ==
    \A u \in Urls : /\ u \in Keys /\ Primary(u) \in Keys
                    /\ VariantSet(u) \subseteq Keys /\ AliasSet(u) \subseteq Keys
BY PrimaryType, StoreAssumption DEF AliasSet

LEMMA PrimaryInVariants == \A u \in Keys : Primary(u) \in VariantSet(u)
BY StoreAssumption DEF Primary, VariantSet

LEMMA RegistryType == \A ks \in SUBSET Keys : RegistryKeys(ks) \subseteq Keys
BY StoreAssumption DEF RegistryKeys

LEMMA IndexType ==
    ASSUME index \in [Keys -> Keys \cup {Nil}]
    PROVE  /\ \A k \in Keys, S \in SUBSET Keys : Indexed(k, S) \in [Keys -> Keys \cup {Nil}]
           /\ \A S \in SUBSET Keys : Dropped(S) \in [Keys -> Keys \cup {Nil}]
BY DEF Indexed, Dropped

(* The part of TypeOK that a selection can disturb. *)
PassTypeOK ==
    /\ index \in [Keys -> Keys \cup {Nil}]
    /\ registry \subseteq Keys
    /\ evicting \in BOOLEAN
    /\ pass \in [Passes -> PassRec]

LEMMA IdlePassType == IdlePass \in PassRec
BY DEF IdlePass, PassRec, Lanes

LEMMA EndType ==
    ASSUME PassTypeOK, NEW p \in Passes, PassEnds(p), UNCHANGED <<index, registry>>
    PROVE  PassTypeOK'
BY IdlePassType DEF PassTypeOK, PassEnds

(* A selection gives the lock up and forgets nothing, or it keeps the lock and
   forgets the keys it is about to delete. *)
Forgets(p, del) ==
    /\ index' = Dropped(del)
    /\ registry' = registry \ RegistryKeys(del)
    /\ pass' = [pass EXCEPT ![p].pc = "delete", ![p].del = del, ![p].seen = {}]
    /\ UNCHANGED evicting

LEMMA SelectCases ==
    ASSUME NEW p, NEW seen, PassSelects(p, seen)
    PROVE  \/ PassEnds(p) /\ UNCHANGED <<index, registry>>
           \/ \E del \in SUBSET seen : Forgets(p, del)
<1>1. CASE ~NeedsEviction(pass[p].lane, seen)
  BY <1>1 DEF PassSelects
<1>2. CASE NeedsEviction(pass[p].lane, seen)
  <2>1. PICK shielded \in SUBSET seen : \E del \in SUBSET (seen \ shielded) :
           IF del = {} THEN PassEnds(p) /\ UNCHANGED <<index, registry>> ELSE Forgets(p, del)
    BY <1>2 DEF PassSelects, Forgets
  <2> QED BY <2>1
<1> QED BY <1>1, <1>2

LEMMA ForgetType ==
    ASSUME PassTypeOK, NEW p \in Passes, NEW del \in SUBSET Keys, Forgets(p, del)
    PROVE  PassTypeOK'
<1>1. index' \in [Keys -> Keys \cup {Nil}]
  BY IndexType DEF PassTypeOK, Forgets
<1>2. registry' \subseteq Keys /\ evicting' \in BOOLEAN
  BY DEF PassTypeOK, Forgets
<1>3. [pass[p] EXCEPT !.pc = "delete", !.del = del, !.seen = {}] \in PassRec
  <2>1. pass[p] \in PassRec
    BY DEF PassTypeOK
  <2> QED BY <2>1 DEF PassRec
<1>4. pass' = [pass EXCEPT ![p] = [pass[p] EXCEPT !.pc = "delete", !.del = del, !.seen = {}]]
  BY DEF Forgets, PassTypeOK, PassRec
<1>5. pass' \in [Passes -> PassRec]
  BY <1>3, <1>4 DEF PassTypeOK
<1> QED BY <1>1, <1>2, <1>5 DEF PassTypeOK

LEMMA SelectType ==
    ASSUME PassTypeOK, NEW p \in Passes, NEW seen \in SUBSET Keys, PassSelects(p, seen)
    PROVE  PassTypeOK'
BY SelectCases, EndType, ForgetType

LEMMA IdleWriterType == IdleWriter \in WriterRec /\ IdleWriter.pc = "idle"
BY DEF IdleWriter, WriterRec

LEMMA StartType ==
    ASSUME NEW left \in [Keys -> Row \cup {Nil}], StartsOn(left) PROVE TypeOK
BY IdleWriterType, IdlePassType DEF StartsOn, TypeOK

THEOREM TypeInit == Init => TypeOK
BY StartType DEF Init

LEMMA TypeWriters ==
    ASSUME TypeOK, NEW w \in Writers, NEW u \in Urls, NEW b \in BytesOf[u],
           \/ StoreSkipsKnown(w, u, b)
           \/ \E sc \in RowScopes : StoreBegins(w, u, b, sc)
    PROVE  TypeOK'
<1> b \in Bytes /\ u \in Urls
  BY StoreAssumption
<1>1. CASE StoreSkipsKnown(w, u, b)
  BY <1>1, UrlType, RegistryType DEF StoreSkipsKnown, TypeOK
<1>2. ASSUME NEW sc \in RowScopes, StoreBegins(w, u, b, sc) PROVE TypeOK'
  BY <1>2, StoreAssumption DEF StoreBegins, TypeOK, WriterRec
<1> QED BY <1>1, <1>2

LEMMA TypeWriterStep ==
    ASSUME TypeOK, NEW w \in Writers, WriterStep(w)
    PROVE  TypeOK'
<1>3. CASE StoreSkipsWindow(w)
  <2>1. writer[w].url \in Urls
    BY <1>3 DEF StoreSkipsWindow, TypeOK
  <2>2. index' \in [Keys -> Keys \cup {Nil}] /\ registry' \subseteq Keys
    BY <1>3, <2>1, IndexType, UrlType, RegistryType DEF StoreSkipsWindow, TypeOK
  <2> QED BY <1>3, <2>2, IdleWriterType DEF StoreSkipsWindow, TypeOK
<1>4. CASE StoreStartsPut(w)
  BY <1>4 DEF StoreStartsPut, TypeOK, WriterRec
<1>5. ASSUME Put(w), writer[w].pc = "put"
      PROVE  chunks' \in [Keys -> Row \cup {Nil}]
  <2>1. writer[w] \in WriterRec /\ writer[w].url \in Urls /\ writer[w].bytes \in Bytes
    BY <1>5 DEF TypeOK
  <2>2. [bytes |-> writer[w].bytes, age |-> "new", scope |-> writer[w].scope] \in Row
    BY <2>1 DEF Row, Ages, WriterRec
  <2> QED BY <1>5, <2>1, <2>2, UrlType DEF Put, TypeOK
<1>6. CASE StorePuts(w)
  BY <1>5, <1>6 DEF StorePuts, TypeOK, WriterRec
<1>7. CASE StorePutFails(w)
  <2>1. chunks' \in [Keys -> Row \cup {Nil}]
    BY <1>5, <1>7 DEF StorePutFails, TypeOK
  <2> QED BY <1>7, <2>1, IdleWriterType DEF StorePutFails, TypeOK
<1>8. CASE StoreFinishes(w)
  <2>1. writer[w].url \in Urls /\ writer[w].bytes \in Bytes
    BY <1>8 DEF StoreFinishes, TypeOK
  <2>2. index' \in [Keys -> Keys \cup {Nil}] /\ registry' \subseteq Keys
    BY <1>8, <2>1, IndexType, UrlType, RegistryType DEF StoreFinishes, TypeOK
  <2>3. aliases' \in [Keys -> Keys \cup {Nil}]
    BY <1>8, <2>1, UrlType DEF StoreFinishes, TypeOK
  <2>4. dedup' \subseteq Keys \X Bytes
    BY <1>8, <2>1, UrlType DEF StoreFinishes, TypeOK
  <2> QED BY <1>8, <2>2, <2>3, <2>4, IdleWriterType DEF StoreFinishes, TypeOK
<1> QED BY <1>3, <1>4, <1>6, <1>7, <1>8 DEF WriterStep

LEMMA RowsType == ASSUME TypeOK PROVE Rows \in SUBSET Keys
BY DEF Rows

LEMMA WithoutType ==
    ASSUME TypeOK
    PROVE  \A S : /\ WithoutRows(S) \in [Keys -> Row \cup {Nil}]
                  /\ WithoutTargets(S) \in [Keys -> Keys \cup {Nil}]
BY DEF TypeOK, WithoutRows, WithoutTargets

LEMMA TypePasses ==
    ASSUME TypeOK, NEW p \in Passes, NEW lane \in Lanes,
           PassBegins(p, lane) \/ PassStep(p) \/ PassHangs(p)
    PROVE  TypeOK'
<1>0. PassTypeOK /\ pass[p] \in PassRec /\ pass[p].seen \in SUBSET Keys /\ pass[p].del \in SUBSET Keys
  BY DEF PassTypeOK, TypeOK, PassRec
<1>1. CASE PassBegins(p, lane)
  BY <1>1, IdlePassType DEF PassBegins, TypeOK, PassRec, rows
<1>2. CASE PassSummarizes(p)
  <2>1. CASE pass[p].lane = "reconcile"
    BY <1>2, <2>1, <1>0, RowsType DEF PassSummarizes, TypeOK, PassRec
  <2>2. CASE pass[p].lane # "reconcile"
    BY <1>2, <2>2, <1>0, RowsType, SelectType DEF PassSummarizes, TypeOK, PassTypeOK
  <2> QED BY <2>1, <2>2
<1>3. CASE PassSweeps(p)
  <2>1. PICK gone \in SUBSET Keys :
           /\ chunks' = WithoutRows(gone)
           /\ index' = Dropped(gone)
           /\ registry' = registry \ RegistryKeys(gone)
           /\ pass' = [pass EXCEPT ![p].pc = "sweptAliases", ![p].del = gone]
    BY <1>3, RowsType DEF PassSweeps
  <2>2. index' \in [Keys -> Keys \cup {Nil}] /\ registry' \subseteq Keys
    BY <2>1, IndexType DEF TypeOK
  <2>3. pass' \in [Passes -> PassRec]
    BY <2>1, <1>0 DEF TypeOK, PassRec
  <2> QED BY <1>3, <2>1, <2>2, <2>3, WithoutType DEF PassSweeps, TypeOK
<1>4. CASE PassSweepsNothing(p)
  BY <1>4, <1>0, SelectType DEF PassSweepsNothing, TypeOK, PassTypeOK
<1>5. CASE PassCleansSwept(p)
  BY <1>5, <1>0, SelectType, WithoutType DEF PassCleansSwept, TypeOK, PassTypeOK
<1>6. CASE PassDeletes(p)
  BY <1>6, <1>0, WithoutType DEF PassDeletes, TypeOK, PassRec
<1>7. CASE PassCleansAliases(p)
  BY <1>7, <1>0, EndType, WithoutType DEF PassCleansAliases, TypeOK, PassTypeOK
<1>8. CASE PassFails(p)
  BY <1>8, <1>0, EndType DEF PassFails, TypeOK, PassTypeOK, rows
<1>9. CASE PassHangs(p)
  BY <1>9, <1>0 DEF PassHangs, TypeOK, PassRec, rows
<1> QED BY <1>1, <1>2, <1>3, <1>4, <1>5, <1>6, <1>7, <1>8, <1>9 DEF PassStep

LEMMA ListingsType == Listings \subseteq SUBSET Rows
BY DEF Listings

LEMMA TypeRest ==
    ASSUME TypeOK,
           \/ \E listed \in Listings : RebuildRegistry(listed)
           \/ \E k \in Keys : RowAges(k)
           \/ \E d \in dedup : DedupExpires(d)
           \/ ClearBegins
           \/ ClearStep
    PROVE  TypeOK'
<1>1. CASE \E listed \in Listings : RebuildRegistry(listed)
  <2>1. PICK listed \in SUBSET Rows : RebuildRegistry(listed)
    BY <1>1, ListingsType
  <2>2. \A k \in listed : RegistryKeys(VariantSet(k)) \subseteq Keys
    BY RowsType, PrimaryType, RegistryType
  <2> QED BY <2>1, <2>2 DEF RebuildRegistry, TypeOK
<1>2. CASE \E k \in Keys : RowAges(k)
  <2>1. PICK k \in Keys : RowAges(k)
    BY <1>2
  <2>2. chunks[k] \in Row
    BY <2>1 DEF RowAges, TypeOK
  <2>3. [chunks[k] EXCEPT !.age = IF @ = "new" THEN "kept" ELSE "expired"] \in Row
    BY <2>2 DEF Row, Ages
  <2> QED BY <2>1, <2>3 DEF RowAges, TypeOK
<1>3. CASE \E d \in dedup : DedupExpires(d)
  BY <1>3 DEF DedupExpires, TypeOK
<1>4. CASE ClearBegins
  BY <1>4 DEF ClearBegins, TypeOK
<1>5. CASE ClearStep
  BY <1>5 DEF ClearStep, ClearsChunks, ClearsAliases, ClearResetsStats, ClearFails, TypeOK, rows
<1> QED BY <1>1, <1>2, <1>3, <1>4, <1>5

THEOREM TypeStep == TypeOK /\ [ClearNext]_vars => TypeOK'
<1> SUFFICES ASSUME TypeOK, [ClearNext]_vars PROVE TypeOK'
  OBVIOUS
<1>1. ASSUME NEW w \in Writers, NEW u \in Urls, NEW b \in BytesOf[u],
             \/ StoreSkipsKnown(w, u, b)
             \/ \E sc \in RowScopes : StoreBegins(w, u, b, sc)
      PROVE  TypeOK'
  BY <1>1, TypeWriters
<1>2. ASSUME NEW w \in Writers, WriterStep(w) PROVE TypeOK'
  BY <1>2, TypeWriterStep
<1>3. ASSUME NEW p \in Passes, \/ \E lane \in Lanes : PassBegins(p, lane)
                               \/ PassStep(p) \/ PassHangs(p)
      PROVE  TypeOK'
  BY <1>3, TypePasses DEF Lanes
<1>4. CASE UNCHANGED vars
  BY <1>4 DEF vars, TypeOK
<1> QED BY <1>1, <1>2, <1>3, <1>4, TypeRest DEF ClearNext, Next, CacheNext

(* The worker's cache state has its shape in every state, ClearCache included. *)
THEOREM TypeCorrect == ClearSpec => []TypeOK
BY TypeInit, TypeStep, PTL DEF ClearSpec

-----------------------------------------------------------------------------
(* Eviction's lock *)

(* A step of a running pass keeps the lock, or ends the pass and frees it. *)
LEMMA PassKeepsOrEnds ==
    ASSUME TypeOK, NEW p \in Passes, PassStep(p) \/ PassHangs(p)
    PROVE  /\ pass[p].pc # "idle"
           /\ \/ PassEnds(p)
              \/ /\ UNCHANGED evicting
                 /\ \E rec \in PassRec : rec.pc # "idle" /\ pass' = [pass EXCEPT ![p] = rec]
<1>0. pass[p] \in PassRec
  BY DEF TypeOK
<1>1. ASSUME NEW seen, PassSelects(p, seen), seen \in SUBSET Keys
      PROVE  \/ PassEnds(p)
             \/ /\ UNCHANGED evicting
                /\ \E rec \in PassRec : rec.pc # "idle" /\ pass' = [pass EXCEPT ![p] = rec]
  <2>1. CASE PassEnds(p)
    BY <2>1
  <2>2. ASSUME NEW del \in SUBSET seen, Forgets(p, del)
        PROVE  /\ UNCHANGED evicting
               /\ \E rec \in PassRec : rec.pc # "idle" /\ pass' = [pass EXCEPT ![p] = rec]
    <3> DEFINE rec == [pass[p] EXCEPT !.pc = "delete", !.del = del, !.seen = {}]
    <3>1. rec \in PassRec /\ rec.pc # "idle"
      BY <1>0, <1>1 DEF PassRec
    <3>2. pass' = [pass EXCEPT ![p] = rec]
      BY <2>2 DEF Forgets, TypeOK, PassRec
    <3> QED BY <2>2, <3>1, <3>2 DEF Forgets
  <2> QED BY <1>1, <2>1, <2>2, SelectCases
<1>2. CASE PassSummarizes(p)
  <2>1. CASE pass[p].lane = "reconcile"
    <3> DEFINE rec == [pass[p] EXCEPT !.pc = "sweep", !.seen = Rows]
    <3>1. rec \in PassRec /\ rec.pc # "idle"
      BY <1>0, RowsType DEF PassRec
    <3>2. pass' = [pass EXCEPT ![p] = rec]
      BY <1>2, <2>1 DEF PassSummarizes, TypeOK, PassRec
    <3> QED BY <1>2, <2>1, <3>1, <3>2 DEF PassSummarizes
  <2> QED BY <1>1, <1>2, <2>1, RowsType DEF PassSummarizes
<1>3. CASE PassSweeps(p)
  <2>1. PICK gone \in SUBSET Keys :
           pass' = [pass EXCEPT ![p].pc = "sweptAliases", ![p].del = gone]
    BY <1>3, RowsType DEF PassSweeps
  <2> DEFINE rec == [pass[p] EXCEPT !.pc = "sweptAliases", !.del = gone]
  <2>2. rec \in PassRec /\ rec.pc # "idle"
    BY <1>0 DEF PassRec
  <2>3. pass' = [pass EXCEPT ![p] = rec]
    BY <2>1 DEF TypeOK, PassRec
  <2> QED BY <1>3, <2>2, <2>3 DEF PassSweeps
<1>4. CASE PassSweepsNothing(p)
  BY <1>0, <1>1, <1>4 DEF PassSweepsNothing, PassRec
<1>5. CASE PassCleansSwept(p)
  BY <1>0, <1>1, <1>5 DEF PassCleansSwept, PassRec
<1>6. CASE PassDeletes(p)
  <2> DEFINE rec == [pass[p] EXCEPT !.pc = "cleanup"]
  <2>1. rec \in PassRec /\ rec.pc # "idle"
    BY <1>0 DEF PassRec
  <2> QED BY <1>6, <2>1 DEF PassDeletes
<1>7. CASE PassCleansAliases(p)
  BY <1>7 DEF PassCleansAliases
<1>8. CASE PassFails(p)
  BY <1>8 DEF PassFails
<1>9. CASE PassHangs(p)
  <2> DEFINE rec == [pass[p] EXCEPT !.pc = "hung"]
  <2>1. rec \in PassRec /\ rec.pc # "idle"
    BY <1>0 DEF PassRec
  <2> QED BY <1>9, <2>1 DEF PassHangs
<1> QED BY <1>2, <1>3, <1>4, <1>5, <1>6, <1>7, <1>8, <1>9 DEF PassStep

THEOREM LockStep == TypeOK /\ EvictingIffOnePass /\ [Next]_vars => EvictingIffOnePass'
<1> SUFFICES ASSUME TypeOK, EvictingIffOnePass, [Next]_vars PROVE EvictingIffOnePass'
  OBVIOUS
<1>1. CASE UNCHANGED <<pass, evicting>>
  BY <1>1 DEF EvictingIffOnePass
<1>2. ASSUME NEW p \in Passes, NEW lane \in Lanes, PassBegins(p, lane)
      PROVE  EvictingIffOnePass'
  <2> DEFINE rec == [IdlePass EXCEPT !.pc = "summarize", !.lane = lane]
  <2>1. rec.pc # "idle"
    BY DEF IdlePass
  <2>2. pass' = [pass EXCEPT ![p] = rec] /\ ~evicting /\ evicting'
    BY <1>2 DEF PassBegins
  <2> HIDE DEF rec
  <2> QED BY <2>1, <2>2 DEF EvictingIffOnePass, TypeOK
<1>3. ASSUME NEW p \in Passes, PassStep(p) \/ PassHangs(p)
      PROVE  EvictingIffOnePass'
  <2>1. CASE PassEnds(p)
    <3>1. IdlePass.pc = "idle"
      BY DEF IdlePass
    <3> QED BY <1>3, <2>1, <3>1, PassKeepsOrEnds DEF EvictingIffOnePass, PassEnds, TypeOK
  <2>2. CASE UNCHANGED evicting /\ \E rec \in PassRec :
                rec.pc # "idle" /\ pass' = [pass EXCEPT ![p] = rec]
    BY <1>3, <2>2, PassKeepsOrEnds DEF EvictingIffOnePass, TypeOK
  <2> QED BY <1>3, <2>1, <2>2, PassKeepsOrEnds
<1>4. ASSUME NEW w \in Writers, NEW u \in Urls, NEW b \in BytesOf[u],
             \/ StoreSkipsKnown(w, u, b)
             \/ \E sc \in RowScopes : StoreBegins(w, u, b, sc)
      PROVE  UNCHANGED <<pass, evicting>>
  BY <1>4 DEF StoreSkipsKnown, StoreBegins
<1>5. ASSUME NEW w \in Writers, WriterStep(w)
      PROVE  UNCHANGED <<pass, evicting>>
  BY <1>5 DEF WriterStep, StoreSkipsWindow, StoreStartsPut, StorePuts, StorePutFails, StoreFinishes
<1>6. CASE (\E listed \in Listings : RebuildRegistry(listed)) \/ (\E k \in Keys : RowAges(k)) \/ (\E d \in dedup : DedupExpires(d))
  BY <1>1, <1>6 DEF RebuildRegistry, RowAges, DedupExpires
<1>7. CASE UNCHANGED vars
  BY <1>1, <1>7 DEF vars
<1> QED BY <1>1, <1>2, <1>3, <1>4, <1>5, <1>6, <1>7 DEF Next, CacheNext

(* evictionInProgress is set exactly while one pass is under way, whatever
   IndexedDB does, as long as no ClearCache intervenes. *)
THEOREM OnePass == Spec => []EvictingIffOnePass
<1>1. Init => EvictingIffOnePass
  BY DEF Init, StartsOn, EvictingIffOnePass, IdlePass
<1>2. TypeOK /\ [Next]_vars => TypeOK'
  BY TypeStep DEF ClearNext
<1> QED BY <1>1, <1>2, TypeInit, LockStep, PTL DEF Spec

-----------------------------------------------------------------------------
(* Rows are registered *)

LEMMA PrimariesType == Primaries \subseteq Keys /\ \A u \in Urls : Primary(u) \in Primaries
BY UrlType DEF Primaries

(* Unregistering some primary keys leaves the others registered. *)
LEMMA RegistrySplits ==
    \A S \in SUBSET Primaries : \A k \in Primaries \ S : RegKey[k] \notin RegistryKeys(S)
BY KeyAssumption DEF Primaries, Primary, RegistryKeys

LEMMA OwnVariant == \A k \in Keys : RegKey[k] \in RegistryKeys(VariantSet(k))
BY KeyAssumption DEF RegistryKeys, VariantSet

LEMMA OwnPrimary == \A u \in Urls : RegKey[Primary(u)] \in RegistryKeys(VariantSet(u))
BY PrimaryInVariants, StoreAssumption DEF RegistryKeys

(* What a step other than a rebuild does to the rows owed to a listing. *)
Tracks == unlisted' = {k \in unlisted : RegKey[k] \notin registry'}

(* A step that adds no row, takes no key off the registry and leaves the
   stores and passes where they are keeps every row registered. *)
LEMMA RegisteredFrame ==
    ASSUME TypeOK, RegisteredInv, Tracks, Rows' \subseteq Rows, registry \subseteq registry',
           UNCHANGED <<writer, pass>>
    PROVE  RegisteredInv'
BY DEF RegisteredInv, RowsArePrimaries, RowsAreRegistered, Tracks, AboutToRegister, AboutToDelete

LEMMA RegisteredWriters ==
    ASSUME TypeOK, RegisteredInv, Tracks, Works, NEW w \in Writers, WriterStep(w)
    PROVE  RegisteredInv'
<1>0. UNCHANGED pass
  BY DEF WriterStep, StoreSkipsWindow, StoreStartsPut, StorePuts, StorePutFails, StoreFinishes
<1>1. CASE StoreSkipsWindow(w) \/ StoreStartsPut(w)
  <2>1. /\ UNCHANGED chunks /\ registry \subseteq registry' /\ writer[w].pc # "alias"
        /\ \A v \in Writers \ {w} : writer'[v] = writer[v]
    BY <1>1 DEF StoreSkipsWindow, StoreStartsPut, TypeOK
  <2> QED BY <1>0, <2>1 DEF RegisteredInv, RowsArePrimaries, RowsAreRegistered, Tracks, AboutToRegister,
                           AboutToDelete, Rows
<1>2. CASE StorePuts(w)
  <2> DEFINE P == Primary(writer[w].url)
  <2>1. writer[w].url \in Urls /\ P \in Primaries /\ P \in Keys
    BY <1>2, PrimariesType DEF StorePuts, TypeOK
  <2>2. Rows' \subseteq Rows \cup {P}
    BY <1>2, <2>1 DEF StorePuts, Put, Rows, TypeOK
  <2>3. /\ writer' = [writer EXCEPT ![w].pc = "alias"] /\ writer[w] \in WriterRec
        /\ UNCHANGED registry /\ writer[w].pc = "put"
    BY <1>2 DEF StorePuts, TypeOK
  <2>4. writer'[w].pc = "alias" /\ writer'[w].url = writer[w].url
    BY <2>3 DEF TypeOK, WriterRec
  <2>5. \A v \in Writers \ {w} : writer'[v] = writer[v]
    BY <2>3 DEF TypeOK
  <2>6. \A k \in Keys : AboutToRegister(k) => AboutToRegister(k)'
    BY <2>3, <2>5 DEF AboutToRegister
  <2>7. \A k \in Keys : AboutToDelete(k) => AboutToDelete(k)'
    BY <1>0 DEF AboutToDelete
  <2>8. RowsArePrimaries'
    BY <1>0, <2>1, <2>2 DEF RegisteredInv, RowsArePrimaries
  <2>9. RowsAreRegistered'
    <3> SUFFICES ASSUME NEW k \in Rows' \ unlisted'
                 PROVE  RegKey[k] \in registry' \/ AboutToRegister(k)' \/ AboutToDelete(k)'
      BY DEF RowsAreRegistered, Tracks
    <3>1. CASE k = P
      BY <2>4, <3>1 DEF AboutToRegister
    <3>2. CASE k \in Rows
      BY <2>3, <2>6, <2>7, <3>2 DEF RegisteredInv, RowsAreRegistered, Tracks, Rows
    <3> QED BY <2>2, <3>1, <3>2
  <2> QED BY <2>8, <2>9 DEF RegisteredInv
<1>3. CASE StorePutFails(w)
  <2>1. writer[w].pc = "put" /\ writer'[w].pc = "idle"
    BY <1>3, IdleWriterType DEF StorePutFails, TypeOK
  <2> QED BY <2>1 DEF Works
<1>4. CASE StoreFinishes(w)
  <2> DEFINE P == Primary(writer[w].url)
  <2>1. writer[w].url \in Urls
    BY <1>4 DEF StoreFinishes, TypeOK
  <2>2. /\ UNCHANGED chunks /\ registry \subseteq registry' /\ RegKey[P] \in registry'
        /\ \A v \in Writers \ {w} : writer'[v] = writer[v]
    BY <1>4, <2>1, OwnPrimary DEF StoreFinishes, TypeOK
  <2> QED BY <1>0, <2>2 DEF RegisteredInv, RowsArePrimaries, RowsAreRegistered, Tracks, AboutToRegister,
                           AboutToDelete, Rows
<1> QED BY <1>1, <1>2, <1>3, <1>4 DEF WriterStep

(* Ending a pass that has no delete under way disturbs nothing. *)
LEMMA RegisteredEnd ==
    ASSUME TypeOK, RegisteredInv, Tracks, NEW p \in Passes, PassEnds(p), pass[p].pc # "delete",
           Rows' \subseteq Rows, UNCHANGED <<registry, writer>>
    PROVE  RegisteredInv'
<1>1. /\ \A q \in Passes \ {p} : pass'[q] = pass[q]
      /\ pass'[p].seen = {}
  BY DEF PassEnds, TypeOK, IdlePass
<1> QED BY <1>1 DEF RegisteredInv, RowsArePrimaries, RowsAreRegistered, Tracks, AboutToRegister, AboutToDelete

(* Forgetting keys and announcing their delete in one turn. *)
LEMMA RegisteredForget ==
    ASSUME TypeOK, RegisteredInv, Tracks, NEW p \in Passes, NEW del \in SUBSET Primaries,
           Forgets(p, del), pass[p].pc # "delete", UNCHANGED <<chunks, writer>>
    PROVE  RegisteredInv'
<1>1. /\ \A q \in Passes \ {p} : pass'[q] = pass[q]
      /\ pass'[p].seen = {} /\ pass'[p].del = del /\ pass'[p].pc = "delete"
  BY DEF Forgets, TypeOK, PassRec
<1>2. Rows' = Rows /\ registry' = registry \ RegistryKeys(del)
  BY DEF Rows, Forgets
<1>3. RowsArePrimaries'
  BY <1>1, <1>2 DEF RegisteredInv, RowsArePrimaries
<1>4. RowsAreRegistered'
  <2> SUFFICES ASSUME NEW k \in Rows \ unlisted, k \notin unlisted'
               PROVE  RegKey[k] \in registry' \/ AboutToRegister(k)' \/ AboutToDelete(k)'
    BY <1>2 DEF RowsAreRegistered, Tracks
  <2>1. CASE k \in del
    BY <1>1, <2>1 DEF AboutToDelete
  <2>2. CASE k \notin del /\ RegKey[k] \in registry
    BY <1>2, <2>2, RegistrySplits DEF RegisteredInv, RowsArePrimaries
  <2>3. CASE AboutToRegister(k)
    BY <2>3 DEF AboutToRegister
  <2>4. CASE AboutToDelete(k)
    BY <1>1, <2>4 DEF AboutToDelete
  <2> QED BY <2>1, <2>2, <2>3, <2>4 DEF RegisteredInv, RowsAreRegistered, Tracks
<1> QED BY <1>3, <1>4 DEF RegisteredInv

LEMMA RegisteredSelects ==
    ASSUME TypeOK, RegisteredInv, Tracks, NEW p \in Passes, NEW seen \in SUBSET Primaries,
           PassSelects(p, seen), pass[p].pc # "delete", UNCHANGED <<chunks, writer>>
    PROVE  RegisteredInv'
<1>1. CASE PassEnds(p) /\ UNCHANGED <<index, registry>>
  BY <1>1, RegisteredEnd DEF Rows
<1>2. ASSUME NEW del \in SUBSET seen, Forgets(p, del)
      PROVE  RegisteredInv'
  BY <1>2, RegisteredForget
<1> QED BY <1>1, <1>2, SelectCases

LEMMA RegisteredPasses ==
    ASSUME TypeOK, RegisteredInv, Tracks, Works, NEW p \in Passes, NEW lane \in Lanes,
           PassBegins(p, lane) \/ PassStep(p) \/ PassHangs(p)
    PROVE  RegisteredInv'
<1>0. pass[p] \in PassRec /\ Rows \in SUBSET Primaries /\ pass[p].seen \in SUBSET Primaries
  BY DEF TypeOK, RegisteredInv, Tracks, RowsArePrimaries
<1>1. CASE PassBegins(p, lane)
  <2>1. /\ \A q \in Passes \ {p} : pass'[q] = pass[q]
        /\ pass'[p].seen = {} /\ pass[p].pc = "idle"
        /\ UNCHANGED <<chunks, registry, writer>>
    BY <1>1 DEF PassBegins, IdlePass, TypeOK, rows
  <2> QED BY <2>1 DEF RegisteredInv, RowsArePrimaries, RowsAreRegistered, Tracks, AboutToRegister,
                      AboutToDelete, Rows
<1>2. CASE PassSummarizes(p)
  <2>1. CASE pass[p].lane = "reconcile"
    <3>1. /\ \A q \in Passes \ {p} : pass'[q] = pass[q]
          /\ pass'[p].seen = Rows /\ pass[p].pc = "summarize"
          /\ UNCHANGED <<chunks, registry, writer>>
      BY <1>2, <2>1, <1>0 DEF PassSummarizes, TypeOK, PassRec
    <3> QED BY <1>0, <3>1 DEF RegisteredInv, RowsArePrimaries, RowsAreRegistered, Tracks, AboutToRegister,
                              AboutToDelete, Rows
  <2> QED BY <1>0, <1>2, <2>1, RegisteredSelects DEF PassSummarizes
<1>3. CASE PassSweeps(p)
  <2>1. PICK gone \in SUBSET Rows :
           /\ chunks' = WithoutRows(gone)
           /\ registry' = registry \ RegistryKeys(gone)
           /\ pass' = [pass EXCEPT ![p].pc = "sweptAliases", ![p].del = gone]
    BY <1>3 DEF PassSweeps
  <2>2. Rows' = Rows \ gone
    BY <2>1 DEF WithoutRows, Rows, TypeOK
  <2>3. /\ \A q \in Passes \ {p} : pass'[q] = pass[q]
        /\ pass'[p].seen = pass[p].seen /\ pass[p].pc = "sweep" /\ UNCHANGED writer
    BY <1>0, <1>3, <2>1 DEF PassSweeps, TypeOK, PassRec
  <2>4. RowsArePrimaries'
    BY <2>2, <2>3 DEF RegisteredInv, RowsArePrimaries
  <2>5. \A k \in Rows' : RegKey[k] \in registry => RegKey[k] \in registry'
    BY <1>0, <2>1, <2>2, RegistrySplits
  <2>6. RowsAreRegistered'
    BY <2>2, <2>3, <2>5 DEF RegisteredInv, RowsAreRegistered, Tracks, AboutToRegister, AboutToDelete
  <2> QED BY <2>4, <2>6 DEF RegisteredInv
<1>4. CASE PassSweepsNothing(p)
  BY <1>0, <1>4, RegisteredSelects DEF PassSweepsNothing
<1>5. CASE PassCleansSwept(p)
  BY <1>0, <1>5, RegisteredSelects DEF PassCleansSwept
<1>6. CASE PassDeletes(p)
  <2>1. Rows' = Rows \ pass[p].del
    BY <1>6 DEF PassDeletes, WithoutRows, Rows, TypeOK
  <2>2. /\ \A q \in Passes \ {p} : pass'[q] = pass[q]
        /\ pass'[p].seen = pass[p].seen /\ UNCHANGED <<writer, registry>>
    BY <1>0, <1>6 DEF PassDeletes, TypeOK, PassRec
  <2>3. RowsArePrimaries'
    BY <2>1, <2>2 DEF RegisteredInv, RowsArePrimaries
  <2>4. RowsAreRegistered'
    BY <2>1, <2>2 DEF RegisteredInv, RowsAreRegistered, Tracks, AboutToRegister, AboutToDelete
  <2> QED BY <2>3, <2>4 DEF RegisteredInv
<1>7. CASE PassCleansAliases(p)
  BY <1>7, RegisteredEnd DEF PassCleansAliases, Rows
<1>8. CASE PassFails(p)
  <2>1. pass[p].pc # "delete"
    <3>1. pass'[p].pc = "idle"
      BY <1>8 DEF PassFails, PassEnds, IdlePass, TypeOK
    <3> QED BY <3>1 DEF Works
  <2> QED BY <1>8, <2>1, RegisteredEnd DEF PassFails, rows, Rows
<1>9. CASE PassHangs(p)
  <2>1. pass'[p].pc = "hung"
    BY <1>0, <1>9 DEF PassHangs, TypeOK, PassRec
  <2> QED BY <2>1 DEF Works
<1> QED BY <1>1, <1>2, <1>3, <1>4, <1>5, <1>6, <1>7, <1>8, <1>9 DEF PassStep

LEMMA RegisteredCache ==
    ASSUME TypeOK, RegisteredInv, CacheNext, Tracks, Works
    PROVE  RegisteredInv'
<1>1. ASSUME NEW w \in Writers, NEW u \in Urls, NEW b \in BytesOf[u], StoreSkipsKnown(w, u, b)
      PROVE  RegisteredInv'
  BY <1>1, RegisteredFrame DEF StoreSkipsKnown, Rows
<1>2. ASSUME NEW w \in Writers, NEW u \in Urls, NEW b \in BytesOf[u],
             NEW sc \in RowScopes, StoreBegins(w, u, b, sc)
      PROVE  RegisteredInv'
  <2>1. /\ UNCHANGED <<chunks, registry, pass>> /\ writer[w].pc = "idle"
        /\ \A v \in Writers \ {w} : writer'[v] = writer[v]
    BY <1>2 DEF StoreBegins, TypeOK
  <2> QED BY <2>1 DEF RegisteredInv, RowsArePrimaries, RowsAreRegistered, AboutToRegister,
                      AboutToDelete, Rows, Tracks
<1>3. ASSUME Works, NEW w \in Writers, WriterStep(w) PROVE RegisteredInv'
  BY <1>3, RegisteredWriters
<1>4. ASSUME Works, NEW p \in Passes,
             \/ \E lane \in Lanes : PassBegins(p, lane)
             \/ PassStep(p) \/ PassHangs(p)
      PROVE  RegisteredInv'
  BY <1>4, RegisteredPasses DEF Lanes
<1>6. CASE \E k \in Keys : RowAges(k)
  <2>1. PICK k \in Keys : RowAges(k)
    BY <1>6
  <2>2. Rows' \subseteq Rows
    BY <2>1 DEF RowAges, Rows, TypeOK
  <2> QED BY <2>1, <2>2, RegisteredFrame DEF RowAges
<1>7. CASE \E d \in dedup : DedupExpires(d)
  BY <1>7, RegisteredFrame DEF DedupExpires, Rows
<1> QED BY <1>1, <1>2, <1>3, <1>4, <1>6, <1>7 DEF CacheNext

THEOREM RegisteredStep ==
    TypeOK /\ RegisteredInv /\ [CalmStep]_<<vars, unlisted>> => RegisteredInv'
<1> SUFFICES ASSUME TypeOK, RegisteredInv, [CalmStep]_<<vars, unlisted>> PROVE RegisteredInv'
  OBVIOUS
<1>1. CASE CacheNext /\ Tracks /\ Works
  BY <1>1, RegisteredCache
<1>2. ASSUME NEW listed \in Listings, RebuildRegistry(listed), unlisted' = Rows \ listed
      PROVE  RegisteredInv'
  <2>1. UNCHANGED <<chunks, writer, pass>> /\ \A k \in listed : RegKey[k] \in registry'
    BY <1>2, OwnVariant, RowsType, ListingsType DEF RebuildRegistry
  <2>2. RowsArePrimaries'
    BY <2>1 DEF RegisteredInv, RowsArePrimaries, Rows
  <2>3. RowsAreRegistered'
    BY <1>2, <2>1 DEF RowsAreRegistered, Rows
  <2> QED BY <2>2, <2>3 DEF RegisteredInv
<1>3. CASE UNCHANGED <<vars, unlisted>>
  BY <1>3 DEF RegisteredInv, RowsArePrimaries, RowsAreRegistered, AboutToRegister,
              AboutToDelete, Rows, vars
<1> QED BY <1>1, <1>2, <1>3 DEF CalmStep, Tracks

(* Whatever else fails and however stores, passes and rebuilds interleave, over
   whatever rows a worker finds: as long as puts and deletes of rows succeed and
   no ClearCache comes, a stored row is registered, or its store is about to
   register it, or a pass is about to delete it, or the latest listing has left
   it out and it was not registered since. *)
THEOREM StoredRowsAreRegistered == CalmSpec => []RegisteredWhileCalm
<1> DEFINE CalmInv == calm => RegisteredInv
<1>1. CalmInit => TypeOK /\ CalmInv
  <2> SUFFICES ASSUME CalmInit PROVE TypeOK /\ CalmInv
    OBVIOUS
  <2>1. PICK left \in [Primaries -> Row \cup {Nil}] :
           StartsOn([k \in Keys |-> IF k \in Primaries THEN left[k] ELSE Nil])
    BY DEF CalmInit
  <2>2. TypeOK
    BY <2>1, StartType
  <2>3. RowsArePrimaries
    BY <2>1 DEF StartsOn, RowsArePrimaries, Rows, IdlePass
  <2>4. RowsAreRegistered
    BY DEF CalmInit, RowsAreRegistered
  <2> QED BY <2>2, <2>3, <2>4 DEF RegisteredInv
<1>2. TypeOK /\ CalmInv /\ [CalmNext]_calmVars => (TypeOK /\ CalmInv)'
  <2> SUFFICES ASSUME TypeOK, CalmInv, [CalmNext]_calmVars PROVE TypeOK' /\ CalmInv'
    OBVIOUS
  <2>1. [Next]_vars /\ UNCHANGED calm /\ (calm => [CalmStep]_<<vars, unlisted>>)
    BY DEF CalmNext, CalmStep, Next, calmVars, vars
  <2>2. TypeOK'
    BY <2>1, TypeStep DEF ClearNext
  <2>3. CalmInv'
    BY <2>1, RegisteredStep
  <2> QED BY <2>2, <2>3
<1>3. CalmInv => RegisteredWhileCalm
  BY DEF RegisteredInv, RegisteredWhileCalm
<1> QED BY <1>1, <1>2, <1>3, PTL DEF CalmSpec

-----------------------------------------------------------------------------
(* Readers *)

(* A nonempty set of naturals has a least element: a smallest initial segment
   among the finite sets. *)
LEMMA MinIsLeast ==
    ASSUME NEW S \in SUBSET Nat, S # {}
    PROVE  Min(S) \in S /\ \A x \in S : Min(S) <= x
<1> DEFINE R == StrictSubsetOrdering(Nat)
           T == {1..n : n \in S}
<1>1. IsWellFoundedOn(R, FiniteSubsetsOf(Nat))
  BY FS_StrictSubsetOrderingWellFounded
<1>2. T \subseteq FiniteSubsetsOf(Nat) /\ T # {}
  <2>1. \A n \in Nat : 1..n \in SUBSET Nat /\ IsFiniteSet(1..n)
    BY FS_Interval
  <2>2. \A n \in S : 1..n \in FiniteSubsetsOf(Nat)
    BY <2>1 DEF FiniteSubsetsOf
  <2> QED BY <2>2
<1>3. PICK x \in T : \A y \in T : ~ (<<y, x>> \in R)
  <2> HIDE DEF T, R
  <2> QED BY <1>1, <1>2, WFMin
<1>4. PICK m \in S : x = 1..m
  BY DEF T
<1>5. ASSUME NEW n \in S, n < m PROVE FALSE
  <2>1. 1..n \subseteq x /\ 1..n # x
    BY <1>4, <1>5
  <2>2. <<1..n, x>> \in R
    BY <2>1, <1>4 DEF StrictSubsetOrdering
  <2> QED BY <2>2, <1>3
<1>6. \A n \in S : m <= n
  BY <1>5
<1> QED BY <1>6 DEF Min

-----------------------------------------------------------------------------
(* Type correctness *)

LEMMA ProbesType ==
    \A u \in Urls : /\ Len(Variants[u]) \in Nat \ {0}
                    /\ Probes(u) \subseteq Nat \ {0} /\ 1 \in Probes(u)
                    /\ \A i \in Probes(u) : Variants[u][i] \in Keys
<1> TAKE u \in Urls
<1>1. Variants[u] \in Seq(Keys) /\ Variants[u] # <<>>
  BY StoreAssumption
<1>2. Len(Variants[u]) \in Nat \ {0}
  BY <1>1
<1> QED BY <1>1, <1>2 DEF Probes

(* What a call keeps from one probe to the next. *)
Carries(new, rec) == new.url = rec.url /\ new.scope = rec.scope /\ new.kept = rec.kept

Index == [Keys -> Keys \cup {Nil}]

LEMMA FromIndexType ==
    ASSUME NEW rec \in ReaderRec, rec.url \in Urls, NEW idx \in Index, NEW n \in Nat
    PROVE  /\ FromIndex(rec, idx, n) \in ReaderRec /\ Placed(FromIndex(rec, idx, n))
           /\ \/ FromIndex(rec, idx, n).pc = "fast"
              \/ FromIndex(rec, idx, n).pc = "direct" /\ FromIndex(rec, idx, n).i = 1
           /\ Carries(FromIndex(rec, idx, n), rec)
<1> DEFINE hits == Indexes(rec.url, idx, n)
<1>1. CASE hits = {}
  BY <1>1, ProbesType DEF FromIndex, ReaderRec, Placed, Carries
<1>2. CASE hits # {}
  <2>1. hits \in SUBSET Nat
    BY ProbesType DEF Indexes
  <2>2. Min(hits) \in Probes(rec.url) /\ idx[Variants[rec.url][Min(hits)]] # Nil
    BY <1>2, <2>1, MinIsLeast DEF Indexes
  <2>3. Min(hits) \in Nat \ {0} /\ idx[Variants[rec.url][Min(hits)]] \in Keys
    BY <2>2, ProbesType DEF Index
  <2> DEFINE j == Min(hits)
  <2>4. FromIndex(rec, idx, n) =
          [rec EXCEPT !.pc = "fast", !.i = j, !.at = idx[Variants[rec.url][j]]]
    BY <1>2 DEF FromIndex
  <2> HIDE DEF j
  <2>5. j \in Probes(rec.url) /\ j \in Nat \ {0} /\ idx[Variants[rec.url][j]] \in Keys
    BY <2>2, <2>3 DEF j
  <2> DEFINE new == [rec EXCEPT !.pc = "fast", !.i = j, !.at = idx[Variants[rec.url][j]]]
  <2>6. new \in ReaderRec
    BY <2>5 DEF ReaderRec
  <2>7. new.pc = "fast" /\ new.i = j /\ new.at = idx[Variants[rec.url][j]] /\ Carries(new, rec)
    BY DEF ReaderRec, Carries
  <2>8. Placed(new)
    BY <2>5, <2>7 DEF Placed, Carries
  <2> QED BY <2>4, <2>6, <2>7, <2>8
<1> QED BY <1>1, <1>2

LEMMA NextProbeType ==
    ASSUME NEW rec \in ReaderRec, rec.url \in Urls, rec.i \in Probes(rec.url)
    PROVE  NextProbe(rec) \in ReaderRec /\ Placed(NextProbe(rec)) /\ Carries(NextProbe(rec), rec)
<1>1. CASE rec.i < Len(Variants[rec.url])
  <2> DEFINE new == [rec EXCEPT !.pc = "direct", !.i = rec.i + 1]
  <2>1. rec.i + 1 \in Probes(rec.url) /\ rec.i + 1 \in Nat \ {0}
    BY <1>1, ProbesType DEF Probes
  <2>2. new \in ReaderRec
    BY <2>1 DEF ReaderRec
  <2>3. new.pc = "direct" /\ new.i = rec.i + 1 /\ Carries(new, rec)
    BY DEF ReaderRec, Carries
  <2>4. Placed(new)
    BY <2>1, <2>3 DEF Placed, Carries
  <2> QED BY <1>1, <2>2, <2>3, <2>4 DEF NextProbe
<1>2. CASE ~(rec.i < Len(Variants[rec.url]))
  BY <1>2 DEF NextProbe, ReaderRec, Placed, Carries
<1> QED BY <1>1, <1>2

LEMMA IdleReaderType == IdleReader \in ReaderRec /\ Placed(IdleReader) 
                        /\ ~IdleReader.kept /\ IdleReader.pc = "idle"
BY DEF IdleReader, ReaderRec, Placed

LEMMA NextAliasType ==
    ASSUME NEW rec \in ReaderRec, rec.url \in Urls, rec.for \in Urls, rec.at \in Keys, NEW n \in Nat
    PROVE  /\ NextAlias(rec, n) \in ReaderRec /\ Placed(NextAlias(rec, n))
           /\ \/ NextAlias(rec, n) = IdleReader
              \/ /\ NextAlias(rec, n).pc = "bridgeGet"
                 /\ Carries(NextAlias(rec, n), rec)
<1> DEFINE left == {j \in Probes(rec.for) : j >= n /\ Variants[rec.for][j] # rec.at}
<1>1. CASE left = {}
  BY <1>1, IdleReaderType DEF NextAlias
<1>2. CASE left # {}
  <2>1. left \in SUBSET Nat
    BY ProbesType
  <2>2. Min(left) \in left
    BY <1>2, <2>1, MinIsLeast
  <2> DEFINE j == Min(left)
  <2>3. NextAlias(rec, n) = [rec EXCEPT !.pc = "bridgeGet", !.i = j]
    BY <1>2 DEF NextAlias
  <2>4. j \in Probes(rec.for) /\ j \in Nat \ {0}
    BY <2>2, ProbesType
  <2> HIDE DEF j
  <2> DEFINE new == [rec EXCEPT !.pc = "bridgeGet", !.i = j]
  <2>5. new \in ReaderRec
    BY <2>4 DEF ReaderRec
  <2>6. /\ new.pc = "bridgeGet" /\ new.i = j /\ new.at = rec.at /\ new.for = rec.for
        /\ Carries(new, rec)
    BY DEF ReaderRec, Carries
  <2>7. Placed(new)
    BY <2>4, <2>6 DEF Placed, Carries
  <2> QED BY <2>3, <2>5, <2>6, <2>7
<1> QED BY <1>1, <1>2

-----------------------------------------------------------------------------
(* What a step of a reader does: it replaces one record by one of the right
   shape that still carries its URL, page and "kept" flag and, if the row has
   been there all along, has not gone past the primary key, or it starts or
   ends the call; and it touches no row. *)

StopsAtPrimary(rec) ==
    rec.kept => /\ rec.pc \notin {"alias", "target", "drop", "missed"}
                /\ rec.pc = "direct" => rec.i = 1

Replaces(r, new) ==
    /\ new \in ReaderRec /\ Placed(new)
    /\ Set(r, new)

LEMMA BeginStep ==
    ASSUME ReaderTypeOK, NEW r \in Readers, ReaderBegins(r)
    PROVE  /\ UNCHANGED chunks /\ index' \in Index /\ aliases' \in [Keys -> Keys \cup {Nil}]
           /\ UNCHANGED <<registry, dedup, writer, pass, evicting, clear>>
           /\ \E new : /\ Replaces(r, new) /\ StopsAtPrimary(new)
                      /\ (new.kept => new.url \in Urls /\ Usable(Primary(new.url), new.scope))
<1>0. index \in Index /\ aliases \in [Keys -> Keys \cup {Nil}]
  BY DEF ReaderTypeOK, TypeOK, Index
<1>1. ASSUME NEW u \in Urls, NEW sc \in Scopes \cup {Nil}, NEW v \in Urls \cup {Nil},
             LookupBegins(r, u, sc, v)
      PROVE  \E new : /\ Replaces(r, new) /\ StopsAtPrimary(new)
                      /\ (new.kept => new.url \in Urls /\ Usable(Primary(new.url), new.scope))
  <2> DEFINE kept == Usable(Primary(u), sc)
             rec == [pc |-> "idle", url |-> u, scope |-> sc, for |-> v, i |-> 1,
                     at |-> Nil, row |-> Nil, kept |-> kept]
             new == FromIndex(rec, index, 1)
  <2>0. kept \in BOOLEAN
    BY DEF Usable, UsableIn
  <2>1. rec \in ReaderRec /\ rec.url = u /\ rec.scope = sc /\ rec.kept = kept
    <3> HIDE DEF kept
    <3>1. rec \in ReaderRec
      BY <2>0 DEF ReaderRec
    <3>2. rec.url = u /\ rec.scope = sc
      OBVIOUS
    <3>3. rec.kept = kept
      BY Zenon
    <3> QED BY <3>1, <3>2, <3>3
  <2>2. Set(r, new)
    BY <1>1 DEF LookupBegins, Call
  <2> HIDE DEF rec
  <2>3. /\ new \in ReaderRec /\ Placed(new) /\ Carries(new, rec)
        /\ (new.pc = "fast" \/ (new.pc = "direct" /\ new.i = 1))
    BY <2>1, <1>0, FromIndexType
  <2> HIDE DEF new
  <2>4. new.url = u /\ new.scope = sc /\ (new.kept => Usable(Primary(u), sc))
    BY <2>1, <2>3 DEF Carries
  <2> QED BY <2>2, <2>3, <2>4 DEF Replaces, StopsAtPrimary
<1>2. ASSUME NEW u \in Urls, PurgeBegins(r, u)
      PROVE  /\ \E new : Replaces(r, new) /\ StopsAtPrimary(new) /\ ~new.kept
             /\ index' \in Index
  <2> DEFINE new == [IdleReader EXCEPT !.pc = "purgeGet", !.url = u]
  <2>1. new \in ReaderRec /\ Placed(new) /\ ~new.kept
    BY ProbesType DEF IdleReader, ReaderRec, Placed
  <2>2. index' \in Index
    BY <1>0, <1>2, ProbesType DEF PurgeBegins, PurgesIndexAt, Index
  <2> QED BY <1>2, <2>1, <2>2 DEF PurgeBegins, Replaces, StopsAtPrimary
<1>3. CASE \E u \in Urls, sc \in Scopes \cup {Nil} : LookupBegins(r, u, sc, Nil)
  <2>1. UNCHANGED vars
    BY <1>3 DEF LookupBegins
  <2> QED BY <1>0, <1>1, <1>3, <2>1 DEF vars
<1>4. CASE \E pair \in BridgePairs : LookupBegins(r, pair[1], Nil, pair[2])
  <2>1. UNCHANGED vars
    BY <1>4 DEF LookupBegins
  <2>2. PICK pair \in BridgePairs : LookupBegins(r, pair[1], Nil, pair[2])
    BY <1>4
  <2>3. pair[1] \in Urls /\ pair[2] \in Urls
    BY LookupAssumption
  <2> QED BY <1>0, <1>1, <2>1, <2>2, <2>3 DEF vars
<1>5. CASE \E u \in Urls : PurgeBegins(r, u)
  <2>1. UNCHANGED <<chunks, aliases, registry, dedup, writer, pass, evicting, clear>>
    BY <1>5 DEF PurgeBegins
  <2> QED BY <1>0, <1>2, <1>5, <2>1
<1> QED BY <1>3, <1>4, <1>5 DEF ReaderBegins

(* The same for every later step of the call. *)
LEMMA ReaderStepShape ==
    ASSUME ReaderTypeOK, KeptInv, NEW r \in Readers, ReaderStep(r)
    PROVE  /\ UNCHANGED <<chunks, registry, dedup, writer, pass, evicting, clear>>
           /\ index' \in Index /\ aliases' \in [Keys -> Keys \cup {Nil}]
           /\ \E new : /\ Replaces(r, new) /\ StopsAtPrimary(new)
                      /\ (new = IdleReader \/ Carries(new, reader[r]))
<1> DEFINE rec == reader[r]
           Shape(new) == /\ Replaces(r, new) /\ StopsAtPrimary(new)
                         /\ (new = IdleReader \/ Carries(new, reader[r]))
<1>0. /\ rec \in ReaderRec /\ Placed(rec)
      /\ index \in Index /\ aliases \in [Keys -> Keys \cup {Nil}]
      /\ chunks \in [Keys -> Row \cup {Nil}]
  BY DEF ReaderTypeOK, TypeOK, Index
<1>a. /\ rec.kept => rec.url \in Urls /\ Usable(Primary(rec.url), rec.scope)
      /\ StopsAtPrimary(rec)
  BY DEF KeptInv, KeptIsUsable, KeptStopsAtPrimary, StopsAtPrimary
<1>b. UNCHANGED <<chunks, registry, dedup, writer, pass, evicting, clear>>
  BY DEF ReaderStep, LookupFast, LookupDirect, LookupAlias, LookupTarget, LookupDropsAlias,
         LookupFails, LookupReturns, BridgeBegins, BridgeReads, BridgeWrites, BridgeFails,
         PurgeReads, PurgeDeletes, vars
<1>c. rec.pc # "idle"
  BY DEF ReaderStep, LookupFast, LookupDirect, LookupAlias, LookupTarget, LookupDropsAlias,
         LookupFails, LookupReturns, BridgeBegins, BridgeReads, BridgeWrites, BridgeFails,
         PurgeReads, PurgeDeletes
<1>d. rec.url \in Urls
  BY <1>0, <1>c DEF Placed
<1>e. \A k \in Keys, S \in SUBSET Keys : Indexed(k, S) \in Index /\ Dropped(S) \in Index
  BY <1>0, IndexType DEF Index
<1>f. ASSUME Set(r, IdleReader) PROVE \E new : Shape(new)
  BY <1>f, IdleReaderType DEF Replaces, StopsAtPrimary
<1>g. ASSUME NEW pc \in {"alias", "target", "drop", "failed", "bridgePut", "purgeDel"},
             NEW at \in Keys \cup {Nil}, pc = "target" => at \in Keys, pc # "target" => at = rec.at,
             pc \in {"alias", "target", "drop"} => rec.i \in Probes(rec.url) /\ ~rec.kept,
             pc = "bridgePut" => rec.pc = "bridgeGet", pc = "purgeDel" => rec.pc = "purgeGet",
             Set(r, [rec EXCEPT !.pc = pc, !.at = at])
      PROVE  \E new : Shape(new)
  <2> DEFINE new == [rec EXCEPT !.pc = pc, !.at = at]
  <2>1. new \in ReaderRec
    BY <1>0, <1>g DEF ReaderRec
  <2>2. /\ new.pc = pc /\ new.at = at /\ new.i = rec.i /\ new.for = rec.for
        /\ Carries(new, rec)
    BY <1>0 DEF ReaderRec, Carries
  <2>3. Placed(new)
    BY <1>0, <1>d, <1>g, <2>2 DEF Placed, Carries
  <2>4. StopsAtPrimary(new)
    BY <1>g, <2>2 DEF StopsAtPrimary, Carries
  <2> QED BY <1>g, <2>1, <2>2, <2>3, <2>4 DEF Replaces
<1>h. ASSUME NEW key \in Keys, NEW k \in Keys, chunks[k] # Nil,
             Set(r, [Found(rec, key) EXCEPT !.row = chunks[k]])
      PROVE  \E new : Shape(new)
  <2> DEFINE new == [Found(rec, key) EXCEPT !.row = chunks[k]]
  <2>1. new \in ReaderRec
    BY <1>0 DEF ReaderRec, Found
  <2>2. new.pc = "found" /\ new.at = key /\ new.row = chunks[k] /\ Carries(new, rec)
    BY <1>0 DEF ReaderRec, Found, Carries
  <2>3. Placed(new)
    BY <1>0, <1>d, <1>h, <2>2 DEF Placed, Carries
  <2>4. StopsAtPrimary(new)
    BY <2>2 DEF StopsAtPrimary
  <2> QED BY <1>h, <2>1, <2>2, <2>3, <2>4 DEF Replaces
<1>i. ASSUME NEW idx \in Index, Set(r, FromIndex(rec, idx, rec.i + 1))
      PROVE  \E new : Shape(new)
  <2> DEFINE new == FromIndex(rec, idx, rec.i + 1)
  <2>1. rec.i + 1 \in Nat
    BY <1>0 DEF ReaderRec
  <2>2. /\ new \in ReaderRec /\ Placed(new) /\ Carries(new, rec)
        /\ (new.pc = "fast" \/ (new.pc = "direct" /\ new.i = 1))
    BY <1>0, <1>d, <2>1, FromIndexType
  <2> HIDE DEF new
  <2>3. Set(r, new)
    BY <1>i DEF new
  <2> QED BY <2>2, <2>3 DEF Replaces, StopsAtPrimary
<1>j. ASSUME ~rec.kept, rec.i \in Probes(rec.url), Set(r, NextProbe(rec))
      PROVE  \E new : Shape(new)
  BY <1>0, <1>d, <1>j, NextProbeType DEF Replaces, StopsAtPrimary, Carries
<1>k. ASSUME rec.for \in Urls, rec.at \in Keys, NEW n \in Nat, Set(r, NextAlias(rec, n))
      PROVE  \E new : Shape(new)
  <2>1. /\ NextAlias(rec, n) \in ReaderRec /\ Placed(NextAlias(rec, n))
        /\ \/ NextAlias(rec, n) = IdleReader
           \/ NextAlias(rec, n).pc = "bridgeGet" /\ Carries(NextAlias(rec, n), rec)
    BY <1>0, <1>d, <1>k, NextAliasType
  <2> QED BY <1>k, <2>1, IdleReaderType DEF Replaces, StopsAtPrimary
<1>l. ASSUME NEW u \in Urls, NEW i \in Probes(u), PurgesIndexAt(u, i) PROVE index' \in Index
  BY <1>0, <1>l, ProbesType DEF PurgesIndexAt, Index
<1>1. CASE LookupFast(r)
  <2>1. rec.pc = "fast" /\ rec.at \in Keys /\ rec.i \in Probes(rec.url) /\ Probe(r) \in Keys
    BY <1>0, <1>1, <1>d, ProbesType DEF LookupFast, Placed, Probe
  <2>2. CASE Usable(rec.at, rec.scope)
    BY <1>0, <1>1, <1>h, <2>1, <2>2 DEF LookupFast, Usable, UsableIn
  <2>3. CASE ~Usable(rec.at, rec.scope)
    <3> DEFINE idx == IF chunks[rec.at] # Nil THEN index ELSE Dropped({rec.at})
    <3>1. idx \in Index
      BY <1>0, <1>e, <2>1
    <3> HIDE DEF idx
    <3>2. index' = idx /\ Set(r, FromIndex(rec, idx, rec.i + 1)) /\ UNCHANGED aliases
      BY <1>1, <2>3 DEF LookupFast, idx
    <3> QED BY <1>0, <1>b, <1>i, <3>1, <3>2
  <2> QED BY <2>2, <2>3
<1>2. CASE LookupDirect(r)
  <2>1. rec.pc = "direct" /\ rec.i \in Probes(rec.url) /\ Probe(r) \in Keys
    BY <1>0, <1>2, <1>d, ProbesType DEF LookupDirect, Placed, Probe
  <2>2. CASE Usable(Probe(r), rec.scope)
    BY <1>0, <1>2, <1>e, <1>h, <2>1, <2>2 DEF LookupDirect, Usable, UsableIn
  <2>3. CASE ~Usable(Probe(r), rec.scope)
    <3>1. ~rec.kept
      BY <1>a, <2>1, <2>3 DEF StopsAtPrimary, Probe, Primary
    <3>2. Set(r, [rec EXCEPT !.pc = "alias", !.at = rec.at])
      BY <1>0, <1>2, <2>3 DEF LookupDirect, Set, ReaderRec
    <3>3. rec.at \in Keys \cup {Nil}
      BY <1>0 DEF ReaderRec
    <3> QED BY <1>0, <1>2, <1>g, <2>1, <2>3, <3>1, <3>2, <3>3 DEF LookupDirect
  <2> QED BY <2>2, <2>3
<1>3. CASE LookupAlias(r)
  <2>1. rec.pc = "alias" /\ rec.i \in Probes(rec.url) /\ Probe(r) \in Keys /\ ~rec.kept
    BY <1>0, <1>3, <1>a, <1>d, ProbesType DEF LookupAlias, Placed, Probe, StopsAtPrimary
  <2>2. CASE aliases[Probe(r)] = Nil
    BY <1>0, <1>3, <1>j, <2>1, <2>2 DEF LookupAlias, vars
  <2>3. CASE aliases[Probe(r)] # Nil
    BY <1>0, <1>3, <1>g, <2>1, <2>3 DEF LookupAlias, vars
  <2> QED BY <2>2, <2>3
<1>4. CASE LookupTarget(r)
  <2>1. /\ rec.pc = "target" /\ rec.i \in Probes(rec.url) /\ Probe(r) \in Keys /\ ~rec.kept
        /\ rec.at \in Keys
    BY <1>0, <1>4, <1>a, <1>d, ProbesType DEF LookupTarget, Placed, Probe, StopsAtPrimary
  <2>2. CASE Usable(rec.at, rec.scope)
    BY <1>0, <1>4, <1>e, <1>h, <2>1, <2>2 DEF LookupTarget, Usable, UsableIn
  <2>3. CASE ~Usable(rec.at, rec.scope)
    <3>1. Set(r, [rec EXCEPT !.pc = "drop", !.at = rec.at])
      BY <1>0, <1>4, <2>3 DEF LookupTarget, Set, ReaderRec
    <3> QED BY <1>0, <1>4, <1>g, <2>1, <2>3, <3>1 DEF LookupTarget
  <2> QED BY <2>2, <2>3
<1>5. CASE LookupDropsAlias(r)
  <2>1. rec.pc = "drop" /\ rec.i \in Probes(rec.url) /\ ~rec.kept
    BY <1>0, <1>5, <1>a DEF LookupDropsAlias, Placed, StopsAtPrimary
  <2> QED BY <1>0, <1>5, <1>j, <2>1 DEF LookupDropsAlias
<1>6. CASE LookupFails(r)
  <2>1. Set(r, [rec EXCEPT !.pc = "failed", !.at = rec.at])
    BY <1>0, <1>6 DEF LookupFails, Set, ReaderRec
  <2>2. rec.at \in Keys \cup {Nil}
    BY <1>0 DEF ReaderRec
  <2> QED BY <1>0, <1>6, <1>g, <2>1, <2>2 DEF LookupFails, vars
<1>7. CASE LookupReturns(r)
  BY <1>0, <1>7, <1>f DEF LookupReturns, vars
<1>8. CASE BridgeBegins(r)
  <2>1. rec.for \in Urls /\ rec.at \in Keys
    BY <1>0, <1>8 DEF BridgeBegins, Placed, ReaderRec
  <2> QED BY <1>0, <1>8, <1>k, <2>1 DEF BridgeBegins, vars
<1>9. CASE BridgeReads(r)
  <2>1. /\ rec.pc = "bridgeGet" /\ rec.for \in Urls /\ rec.at \in Keys /\ BridgeAlias(r) \in Keys
        /\ rec.i + 1 \in Nat
    BY <1>0, <1>9, ProbesType DEF BridgeReads, Placed, BridgeAlias, ReaderRec
  <2>2. CASE index' = Indexed(rec.at, {BridgeAlias(r)}) /\ Set(r, NextAlias(rec, rec.i + 1))
    BY <1>0, <1>9, <1>e, <1>k, <2>1, <2>2 DEF BridgeReads
  <2>3. CASE Set(r, [rec EXCEPT !.pc = "bridgePut"]) /\ UNCHANGED index
    <3>1. Set(r, [rec EXCEPT !.pc = "bridgePut", !.at = rec.at])
      BY <1>0, <2>3 DEF Set, ReaderRec
    <3> QED BY <1>0, <1>9, <1>g, <2>1, <2>3, <3>1 DEF BridgeReads
  <2> QED BY <1>9, <2>2, <2>3 DEF BridgeReads
<1>10. CASE BridgeWrites(r)
  <2>1. /\ rec.pc = "bridgePut" /\ rec.for \in Urls /\ rec.at \in Keys /\ BridgeAlias(r) \in Keys
        /\ rec.i + 1 \in Nat
    BY <1>0, <1>10, ProbesType DEF BridgeWrites, Placed, BridgeAlias, ReaderRec
  <2> QED BY <1>0, <1>10, <1>e, <1>k, <2>1 DEF BridgeWrites
<1>11. CASE BridgeFails(r)
  <2>1. rec.at \in Keys
    BY <1>0, <1>11 DEF BridgeFails, Placed
  <2> QED BY <1>0, <1>11, <1>f, <2>1 DEF BridgeFails
<1>m. ASSUME rec.pc \in {"purgeGet", "purgeDel"}, PurgeNext(r, rec)
      PROVE  index' \in Index /\ \E new : Shape(new)
  <2>1. rec.i \in Probes(rec.url)
    BY <1>0, <1>m DEF Placed
  <2>2. CASE rec.i < Len(Variants[rec.url])
    <3> DEFINE new == [rec EXCEPT !.pc = "purgeGet", !.i = rec.i + 1]
    <3>1. rec.i + 1 \in Probes(rec.url) /\ rec.i + 1 \in Nat \ {0}
      BY <1>d, <2>1, <2>2, ProbesType DEF Probes
    <3>2. new \in ReaderRec
      BY <1>0, <3>1 DEF ReaderRec
    <3>3. new.pc = "purgeGet" /\ new.i = rec.i + 1 /\ Carries(new, rec)
      BY <1>0 DEF ReaderRec, Carries
    <3>4. Placed(new)
      BY <1>d, <3>1, <3>3 DEF Placed, Carries
    <3>5. Set(r, new) /\ PurgesIndexAt(rec.url, rec.i + 1)
      BY <1>m, <2>2 DEF PurgeNext
    <3> QED BY <1>d, <1>l, <3>1, <3>2, <3>3, <3>4, <3>5 DEF Replaces, StopsAtPrimary
  <2>3. CASE ~(rec.i < Len(Variants[rec.url]))
    BY <1>0, <1>f, <1>m, <2>3 DEF PurgeNext
  <2> QED BY <2>2, <2>3
<1>12. CASE PurgeReads(r)
  <2>1. rec.pc = "purgeGet" /\ rec.at \in Keys \cup {Nil}
    BY <1>0, <1>12 DEF PurgeReads, ReaderRec
  <2>2. CASE Set(r, [rec EXCEPT !.pc = "purgeDel"]) /\ UNCHANGED index
    <3>1. Set(r, [rec EXCEPT !.pc = "purgeDel", !.at = rec.at])
      BY <1>0, <2>2 DEF Set, ReaderRec
    <3> QED BY <1>0, <1>12, <1>g, <2>1, <2>2, <3>1 DEF PurgeReads
  <2>3. CASE PurgeNext(r, rec)
    BY <1>0, <1>12, <1>m, <2>1, <2>3 DEF PurgeReads
  <2> QED BY <1>12, <2>2, <2>3 DEF PurgeReads
<1>13. CASE PurgeDeletes(r)
  BY <1>0, <1>13, <1>m DEF PurgeDeletes
<1> QED BY <1>1, <1>2, <1>3, <1>4, <1>5, <1>6, <1>7, <1>8, <1>9, <1>10, <1>11, <1>12, <1>13
          DEF ReaderStep

-----------------------------------------------------------------------------
(* A step of the store, with every "kept" brought up to date. *)
LEMMA StoreStepKeeps ==
    ASSUME ReaderTypeOK, KeptInv, [ClearNext]_vars, KeptUpdated
    PROVE  ReaderTypeOK' /\ KeptInv'
<1>1. TypeOK'
  BY TypeStep DEF ReaderTypeOK
<1>2. ASSUME NEW r \in Readers
      PROVE  /\ reader'[r] \in ReaderRec /\ Placed(reader'[r]) /\ StopsAtPrimary(reader'[r])
             /\ (reader'[r].kept => /\ reader'[r].url \in Urls
                                    /\ UsableIn(chunks', Primary(reader'[r].url), reader'[r].scope))
  <2>1. /\ reader[r] \in ReaderRec /\ Placed(reader[r]) /\ StopsAtPrimary(reader[r])
        /\ (reader[r].kept => reader[r].url \in Urls)
    BY DEF ReaderTypeOK, KeptInv, KeptIsUsable, KeptStopsAtPrimary, StopsAtPrimary
  <2>2. CASE reader[r].kept /\ ~UsableIn(chunks', Primary(reader[r].url), reader[r].scope)
    <3>1. reader'[r] = [reader[r] EXCEPT !.kept = FALSE]
      BY <2>2 DEF KeptUpdated
    <3>2. reader'[r] \in ReaderRec
      BY <2>1, <3>1 DEF ReaderRec
    <3>3. ~reader'[r].kept
      BY <2>1, <3>1 DEF ReaderRec
    <3>4. Placed(reader'[r])
      BY <2>1, <3>1 DEF ReaderRec, Placed
    <3> QED BY <3>2, <3>3, <3>4 DEF StopsAtPrimary
  <2>3. CASE ~(reader[r].kept /\ ~UsableIn(chunks', Primary(reader[r].url), reader[r].scope))
    <3>1. reader'[r] = reader[r]
      BY <2>3 DEF KeptUpdated
    <3> QED BY <2>1, <2>3, <3>1
  <2> QED BY <2>2, <2>3
<1>3. reader' \in [Readers -> ReaderRec]
  BY <1>2 DEF KeptUpdated
<1>4. ReaderTypeOK'
  BY <1>1, <1>2, <1>3 DEF ReaderTypeOK
<1>5. KeptInv'
  BY <1>2 DEF KeptInv, KeptIsUsable, KeptStopsAtPrimary, StopsAtPrimary, Usable
<1> QED BY <1>4, <1>5

(* A step of a reader, which touches no row, keeps both invariants. *)
LEMMA ReadingKeeps ==
    ASSUME ReaderTypeOK, KeptInv, Reading
    PROVE  ReaderTypeOK' /\ KeptInv'
<1>1. PICK r \in Readers : ReaderBegins(r) \/ ReaderStep(r)
  BY DEF Reading
<1>2. /\ UNCHANGED chunks /\ index' \in Index /\ aliases' \in [Keys -> Keys \cup {Nil}]
      /\ UNCHANGED <<registry, dedup, writer, pass, evicting, clear>>
      /\ \E new : /\ Replaces(r, new) /\ StopsAtPrimary(new)
                 /\ (new.kept => new.url \in Urls /\ Usable(Primary(new.url), new.scope))
  <2>1. CASE ReaderBegins(r)
    BY <2>1, BeginStep
  <2>2. CASE ReaderStep(r)
    <3>1. reader[r].kept => /\ reader[r].url \in Urls
                            /\ Usable(Primary(reader[r].url), reader[r].scope)
      BY DEF KeptInv, KeptIsUsable
    <3>2. PICK new : /\ Replaces(r, new) /\ StopsAtPrimary(new)
                     /\ (new = IdleReader \/ Carries(new, reader[r]))
      BY <2>2, ReaderStepShape
    <3>3. new.kept => new.url \in Urls /\ Usable(Primary(new.url), new.scope)
      BY <3>1, <3>2, IdleReaderType DEF Carries
    <3>4. /\ UNCHANGED <<chunks, registry, dedup, writer, pass, evicting, clear>>
          /\ index' \in Index /\ aliases' \in [Keys -> Keys \cup {Nil}]
      BY <2>2, ReaderStepShape
    <3> QED BY <3>2, <3>3, <3>4
  <2> QED BY <1>1, <2>1, <2>2
<1>3. PICK new : /\ Replaces(r, new) /\ StopsAtPrimary(new)
                 /\ (new.kept => new.url \in Urls /\ Usable(Primary(new.url), new.scope))
  BY <1>2
<1>4. TypeOK'
  BY <1>2 DEF ReaderTypeOK, TypeOK, Index
<1>5. /\ reader' = [reader EXCEPT ![r] = new] /\ reader \in [Readers -> ReaderRec]
      /\ new \in ReaderRec /\ Placed(new)
  BY <1>3 DEF Replaces, Set, ReaderTypeOK
<1>6. reader'[r] = new /\ \A q \in Readers \ {r} : reader'[q] = reader[q]
  BY <1>5
<1>7. ReaderTypeOK'
  BY <1>4, <1>5, <1>6 DEF ReaderTypeOK
<1>8. KeptIsUsable'
  <2>1. \A k, sc : Usable(k, sc)' = Usable(k, sc)
    BY <1>2 DEF Usable
  <2> QED BY <1>3, <1>6, <2>1 DEF KeptInv, KeptIsUsable
<1>9. KeptStopsAtPrimary'
  BY <1>3, <1>6 DEF KeptInv, KeptStopsAtPrimary, StopsAtPrimary
<1> QED BY <1>7, <1>8, <1>9 DEF KeptInv

THEOREM LookupInvariant == LookupSpec => [](ReaderTypeOK /\ KeptInv)
<1>1. LookupInit => ReaderTypeOK /\ KeptInv
  BY TypeInit, IdleReaderType DEF LookupInit, ReaderTypeOK, KeptInv, KeptIsUsable, KeptStopsAtPrimary
<1>2. ReaderTypeOK /\ KeptInv /\ [LookupNext]_lookupVars => (ReaderTypeOK /\ KeptInv)'
  <2> SUFFICES ASSUME ReaderTypeOK, KeptInv, [LookupNext]_lookupVars
               PROVE  (ReaderTypeOK /\ KeptInv)'
    OBVIOUS
  <2>1. CASE ClearNext /\ KeptUpdated
    BY <2>1, StoreStepKeeps
  <2>2. CASE Reading
    BY <2>2, ReadingKeeps
  <2>3. CASE UNCHANGED lookupVars
    <3>1. TypeOK'
      BY <2>3, TypeStep DEF lookupVars, ReaderTypeOK
    <3>2. UNCHANGED <<chunks, reader>>
      BY <2>3 DEF lookupVars, vars
    <3> QED BY <3>1, <3>2 DEF ReaderTypeOK, KeptInv, KeptIsUsable, KeptStopsAtPrimary, Usable
  <2> QED BY <2>1, <2>2, <2>3 DEF LookupNext
<1> QED BY <1>1, <1>2, PTL DEF LookupSpec

(* Every lookup, bridge and purge call has the fields its next step needs. *)
THEOREM ReaderTypeCorrect == LookupSpec => []ReaderTypeOK
BY LookupInvariant, PTL

(* A lookup whose URL's own row stays on disk is never answered with a miss,
   for any streams, faults and number of concurrent operations. *)
THEOREM NoLookupMissesAKeptRow == LookupSpec => []NoFalseMiss
<1>1. KeptInv => NoFalseMiss
  BY DEF KeptInv, KeptStopsAtPrimary, NoFalseMiss
<1> QED BY <1>1, LookupInvariant, PTL

-----------------------------------------------------------------------------
(* Lookups serve no URL beyond those linked to the one asked for *)

(* G gives each key the payloads that may be served for it: at least those of a
   URL's own segment, and the same for all keys that variants or bridges link.
   No more is asked of the keys: where two segments share one, as cache-keys.js
   allows, the payloads of both are in G. *)
Apart(G) ==
    /\ \A u \in Urls : /\ BytesOf[u] \subseteq G[u]
                       /\ \A k \in VariantSet(u) : G[k] = G[u]
    /\ \A pair \in BridgePairs : G[pair[1]] = G[pair[2]]

(* Rows, index entries and aliases stay within G, a store writes bytes of it,
   and so does all that a call carries from one probe to the next. *)
LinksWithin(G, links) == \A k \in Keys : links[k] # Nil => G[links[k]] = G[k]
RowsWithin(G) == \A k \in Keys : chunks[k] # Nil => chunks[k].bytes \in G[k]
StoresWithin(G) == \A w \in Writers :
    writer[w].pc # "idle" => writer[w].bytes \in G[writer[w].url]
StoreWithin(G) ==
    RowsWithin(G) /\ StoresWithin(G) /\ LinksWithin(G, index) /\ LinksWithin(G, aliases)

Within(G, rec) ==
    /\ rec.pc \in {"fast", "target", "found", "bridgeGet", "bridgePut"} => G[rec.at] = G[rec.url]
    /\ rec.for # Nil => G[rec.for] = G[rec.url]
    /\ rec.pc = "found" => rec.row.bytes \in G[rec.url]
SegmentInv(G) ==
    /\ RowsWithin(G) /\ StoresWithin(G)
    /\ LinksWithin(G, index) /\ LinksWithin(G, aliases)
    /\ \A r \in Readers : Within(G, reader[r])

(* A step that only empties entries. *)
Forgetting(new, old) == \A k \in Keys : new[k] = Nil \/ new[k] = old[k]

LEMMA VariantsWithin ==
    ASSUME NEW G, Apart(G)
    PROVE  /\ \A u \in Urls : /\ G[Primary(u)] = G[u]
                              /\ \A k \in AliasSet(u) : G[k] = G[u]
           /\ \A u \in Urls : \A i \in Probes(u) : G[Variants[u][i]] = G[u]
<1>1. \A u \in Urls : Primary(u) \in VariantSet(u)
  BY PrimaryInVariants, StoreAssumption
<1> QED BY <1>1 DEF Apart, AliasSet, VariantSet, Probes

LEMMA IndexWithin ==
    ASSUME NEW G, index \in Index, LinksWithin(G, index)
    PROVE  /\ \A k \in Keys, S \in SUBSET Keys :
                 (\A j \in S : G[j] = G[k]) => LinksWithin(G, Indexed(k, S))
           /\ \A S : LinksWithin(G, Dropped(S))
BY DEF LinksWithin, Indexed, Dropped, Index

LEMMA ForgettingWithin ==
    ASSUME NEW G, StoreWithin(G), UNCHANGED writer, Forgetting(chunks', chunks),
           Forgetting(index', index), Forgetting(aliases', aliases)
    PROVE  StoreWithin(G)'
BY DEF StoreWithin, RowsWithin, StoresWithin, LinksWithin, Forgetting

LEMMA PassForgets ==
    ASSUME TypeOK, NEW p \in Passes, NEW lane \in Lanes,
           PassBegins(p, lane) \/ PassStep(p) \/ PassHangs(p)
    PROVE  /\ UNCHANGED writer /\ Forgetting(chunks', chunks)
           /\ Forgetting(index', index) /\ Forgetting(aliases', aliases)
<1>1. ASSUME NEW seen, PassSelects(p, seen) PROVE Forgetting(index', index)
  BY <1>1, SelectCases DEF Forgets, Dropped, Forgetting
<1>2. \A S : /\ Forgetting(WithoutRows(S), chunks) /\ Forgetting(WithoutTargets(S), aliases)
             /\ Forgetting(Dropped(S), index)
  BY DEF WithoutRows, WithoutTargets, Dropped, Forgetting
<1>3. Forgetting(chunks, chunks) /\ Forgetting(index, index) /\ Forgetting(aliases, aliases)
  BY DEF Forgetting
<1>4. UNCHANGED writer
  BY DEF PassBegins, PassStep, PassHangs, PassSummarizes, PassSweeps, PassSweepsNothing,
         PassCleansSwept, PassDeletes, PassCleansAliases, PassFails, rows
<1>5. CASE PassBegins(p, lane) \/ PassFails(p) \/ PassHangs(p)
  BY <1>3, <1>4, <1>5 DEF PassBegins, PassFails, PassHangs, rows
<1>6. CASE PassSummarizes(p)
  <2>1. UNCHANGED <<chunks, aliases>> /\ (UNCHANGED index \/ PassSelects(p, Rows))
    BY <1>6 DEF PassSummarizes
  <2> QED BY <1>1, <1>3, <1>4, <2>1
<1>7. CASE PassSweeps(p)
  BY <1>2, <1>3, <1>4, <1>7 DEF PassSweeps
<1>8. CASE PassSweepsNothing(p)
  BY <1>1, <1>3, <1>4, <1>8 DEF PassSweepsNothing
<1>9. CASE PassCleansSwept(p)
  BY <1>1, <1>2, <1>3, <1>4, <1>9 DEF PassCleansSwept
<1>10. CASE PassDeletes(p)
  BY <1>2, <1>3, <1>4, <1>10 DEF PassDeletes
<1>11. CASE PassCleansAliases(p)
  BY <1>2, <1>3, <1>4, <1>11 DEF PassCleansAliases
<1> QED BY <1>5, <1>6, <1>7, <1>8, <1>9, <1>10, <1>11 DEF PassStep

LEMMA WriterStepWithin ==
    ASSUME NEW G, Apart(G), TypeOK, StoreWithin(G), NEW w \in Writers, WriterStep(w)
    PROVE  StoreWithin(G)'
<1> DEFINE u == writer[w].url
<1>0. /\ writer[w].pc # "idle" /\ u \in Urls /\ writer[w] \in WriterRec
      /\ writer[w].bytes \in G[u]
      /\ G[Primary(u)] = G[u] /\ \A k \in AliasSet(u) : G[k] = G[u]
      /\ Primary(u) \in Keys /\ AliasSet(u) \subseteq Keys
  <2>1. writer[w].pc # "idle"
    BY DEF WriterStep, StoreSkipsWindow, StoreStartsPut, StorePuts, StorePutFails, StoreFinishes
  <2> QED BY <2>1, VariantsWithin, UrlType DEF TypeOK, StoreWithin, StoresWithin
<1>1. ASSUME NEW rec, writer' = [writer EXCEPT ![w] = rec],
             rec.pc = "idle" \/ (rec.url = u /\ rec.bytes = writer[w].bytes)
      PROVE  StoresWithin(G)'
  BY <1>0, <1>1 DEF TypeOK, StoreWithin, StoresWithin
<1>2. LinksWithin(G, Indexed(Primary(u), AliasSet(u)))
  BY <1>0, IndexWithin DEF TypeOK, StoreWithin, Index
<1>3. ASSUME NEW pc, writer' = [writer EXCEPT ![w].pc = pc] PROVE StoresWithin(G)'
  <2> DEFINE rec == [writer[w] EXCEPT !.pc = pc]
  <2>1. writer' = [writer EXCEPT ![w] = rec] /\ rec.url = u /\ rec.bytes = writer[w].bytes
    BY <1>0, <1>3 DEF WriterRec
  <2> QED BY <1>1, <2>1
<1>4. ASSUME Put(w) PROVE RowsWithin(G)'
  BY <1>0, <1>4 DEF Put, TypeOK, StoreWithin, RowsWithin
<1>5. ASSUME writer' = [writer EXCEPT ![w] = IdleWriter] PROVE StoresWithin(G)'
  BY <1>1, <1>5, IdleWriterType
<1>6. CASE StoreSkipsWindow(w)
  <2>1. index' = Indexed(Primary(u), AliasSet(u)) /\ UNCHANGED <<chunks, aliases>>
    BY <1>6 DEF StoreSkipsWindow
  <2>2. StoresWithin(G)'
    BY <1>5, <1>6 DEF StoreSkipsWindow
  <2> QED BY <1>2, <2>1, <2>2 DEF StoreWithin, RowsWithin, LinksWithin
<1>7. CASE StoreStartsPut(w)
  <2>1. StoresWithin(G)'
    BY <1>3, <1>7 DEF StoreStartsPut
  <2> QED BY <1>7, <2>1 DEF StoreStartsPut, StoreWithin, RowsWithin, LinksWithin
<1>8. CASE StorePuts(w)
  <2>1. StoresWithin(G)' /\ RowsWithin(G)'
    BY <1>3, <1>4, <1>8 DEF StorePuts
  <2> QED BY <1>8, <2>1 DEF StorePuts, StoreWithin, LinksWithin
<1>9. CASE StorePutFails(w)
  <2>1. StoresWithin(G)' /\ RowsWithin(G)'
    BY <1>4, <1>5, <1>9 DEF StorePutFails, StoreWithin, RowsWithin
  <2> QED BY <1>9, <2>1 DEF StorePutFails, StoreWithin, LinksWithin
<1>10. CASE StoreFinishes(w)
  <2>1. index' = Indexed(Primary(u), AliasSet(u)) /\ UNCHANGED chunks
    BY <1>10 DEF StoreFinishes
  <2>2. StoresWithin(G)'
    BY <1>5, <1>10 DEF StoreFinishes
  <2>3. LinksWithin(G, aliases')
    <3>1. PICK done \in SUBSET AliasSet(u) :
             aliases' = [k \in Keys |-> IF k \in done THEN Primary(u) ELSE aliases[k]]
      BY <1>10 DEF StoreFinishes
    <3> QED BY <1>0, <3>1 DEF StoreWithin, LinksWithin
  <2> QED BY <1>2, <2>1, <2>2, <2>3 DEF StoreWithin, RowsWithin, LinksWithin
<1> QED BY <1>6, <1>7, <1>8, <1>9, <1>10 DEF WriterStep

LEMMA StoreStepWithin ==
    ASSUME NEW G, Apart(G), TypeOK, StoreWithin(G), [ClearNext]_vars
    PROVE  StoreWithin(G)'
<1>1. CASE UNCHANGED <<chunks, aliases, index, writer>>
  BY <1>1 DEF StoreWithin, RowsWithin, StoresWithin, LinksWithin
<1>2. ASSUME NEW w \in Writers, NEW u \in Urls, NEW b \in BytesOf[u],
             NEW sc \in RowScopes, StoreBegins(w, u, b, sc)
      PROVE  StoreWithin(G)'
  <2>1. StoresWithin(G)'
    BY <1>2 DEF StoreBegins, TypeOK, StoreWithin, StoresWithin, Apart
  <2> QED BY <1>2, <2>1 DEF StoreBegins, StoreWithin, RowsWithin, LinksWithin
<1>3. ASSUME NEW w \in Writers, WriterStep(w) PROVE StoreWithin(G)'
  BY <1>3, WriterStepWithin
<1>4. ASSUME NEW p \in Passes, \/ \E lane \in Lanes : PassBegins(p, lane)
                               \/ PassStep(p) \/ PassHangs(p)
      PROVE  StoreWithin(G)'
  BY <1>4, PassForgets, ForgettingWithin DEF Lanes
<1>5. ASSUME NEW k \in Keys, RowAges(k) PROVE StoreWithin(G)'
  <2>1. chunks[k] \in Row
    BY <1>5 DEF RowAges, TypeOK
  <2>2. \A j \in Keys : chunks'[j] # Nil => chunks[j] # Nil /\ chunks'[j].bytes = chunks[j].bytes
    <3> DEFINE row == [chunks[k] EXCEPT !.age = IF @ = "new" THEN "kept" ELSE "expired"]
    <3>1. chunks' = [chunks EXCEPT ![k] = row] /\ chunks[k] # Nil
      BY <1>5 DEF RowAges
    <3>2. row.bytes = chunks[k].bytes
      BY <2>1 DEF Row
    <3> HIDE DEF row
    <3> QED BY <3>1, <3>2 DEF TypeOK
  <2> QED BY <1>5, <2>2 DEF RowAges, StoreWithin, RowsWithin, StoresWithin, LinksWithin
<1>6. CASE ClearBegins \/ ClearStep
  <2>1. /\ UNCHANGED writer /\ Forgetting(chunks', chunks)
        /\ Forgetting(index', index) /\ Forgetting(aliases', aliases)
    BY <1>6 DEF ClearBegins, ClearStep, ClearsChunks, ClearsAliases, ClearResetsStats,
                ClearFails, Forgetting, rows
  <2> QED BY <2>1, ForgettingWithin
<1> QED BY <1>1, <1>2, <1>3, <1>4, <1>5, <1>6
        DEF ClearNext, Next, CacheNext, StoreSkipsKnown, RebuildRegistry, DedupExpires, vars

(* What a lookup reads of the index is of its own segment ... *)
LEMMA FromIndexWithin ==
    ASSUME NEW G, Apart(G), NEW rec \in ReaderRec, rec.url \in Urls, NEW idx \in Index,
           LinksWithin(G, idx), NEW n \in Nat, rec.for # Nil => G[rec.for] = G[rec.url]
    PROVE  Within(G, FromIndex(rec, idx, n))
<1> DEFINE hits == Indexes(rec.url, idx, n)
<1>1. CASE hits = {}
  <2> DEFINE new == [rec EXCEPT !.pc = "direct", !.i = 1]
  <2>1. FromIndex(rec, idx, n) = new
    BY <1>1 DEF FromIndex
  <2>2. new.pc = "direct" /\ new.for = rec.for /\ new.url = rec.url
    BY DEF ReaderRec
  <2> QED BY <2>1, <2>2 DEF Within
<1>2. CASE hits # {}
  <2>1. hits \in SUBSET Nat
    BY ProbesType DEF Indexes
  <2> DEFINE j == Min(hits)
             new == [rec EXCEPT !.pc = "fast", !.i = j, !.at = idx[Variants[rec.url][j]]]
  <2>2. FromIndex(rec, idx, n) = new
    BY <1>2 DEF FromIndex
  <2>3. j \in Probes(rec.url) /\ idx[Variants[rec.url][j]] # Nil
    BY <1>2, <2>1, MinIsLeast DEF Indexes
  <2> HIDE DEF j
  <2>4. G[idx[Variants[rec.url][j]]] = G[rec.url]
    BY <2>3, ProbesType, VariantsWithin DEF LinksWithin
  <2>5. /\ new.pc = "fast" /\ new.for = rec.for /\ new.url = rec.url
        /\ new.at = idx[Variants[rec.url][j]]
    BY DEF ReaderRec
  <2> QED BY <2>2, <2>4, <2>5 DEF Within
<1> QED BY <1>1, <1>2

LEMMA NextProbeWithin ==
    ASSUME NEW G, NEW rec \in ReaderRec, Within(G, rec)
    PROVE  Within(G, NextProbe(rec))
<1>1. /\ NextProbe(rec).pc \in {"direct", "missed"}
      /\ NextProbe(rec).for = rec.for /\ NextProbe(rec).url = rec.url
  BY DEF NextProbe, ReaderRec
<1> QED BY <1>1 DEF Within

LEMMA NextAliasWithin ==
    ASSUME NEW G, NEW rec \in ReaderRec, Within(G, rec), rec.pc \in {"found", "bridgeGet", "bridgePut"},
           NEW n \in Nat
    PROVE  Within(G, NextAlias(rec, n))
<1>1. CASE NextAlias(rec, n) = IdleReader
  BY <1>1 DEF Within, IdleReader
<1>2. ASSUME NEW j, NextAlias(rec, n) = [rec EXCEPT !.pc = "bridgeGet", !.i = j]
      PROVE  Within(G, NextAlias(rec, n))
  <2> DEFINE new == [rec EXCEPT !.pc = "bridgeGet", !.i = j]
  <2>1. new.pc = "bridgeGet" /\ new.for = rec.for /\ new.url = rec.url /\ new.at = rec.at
    BY DEF ReaderRec
  <2> QED BY <1>2, <2>1 DEF Within
<1> QED BY <1>1, <1>2 DEF NextAlias

LEMMA BeginWithin ==
    ASSUME NEW G, Apart(G), ReaderTypeOK, SegmentInv(G), NEW r \in Readers, ReaderBegins(r)
    PROVE  /\ LinksWithin(G, index') /\ LinksWithin(G, aliases')
           /\ \E new : Set(r, new) /\ Within(G, new)
<1>0. index \in Index /\ LinksWithin(G, index) /\ LinksWithin(G, aliases)
  BY DEF ReaderTypeOK, TypeOK, Index, SegmentInv
<1>1. ASSUME NEW u \in Urls, NEW sc \in Scopes \cup {Nil}, NEW v \in Urls \cup {Nil},
             v = Nil \/ G[v] = G[u], LookupBegins(r, u, sc, v)
      PROVE  /\ LinksWithin(G, index') /\ LinksWithin(G, aliases')
             /\ \E new : Set(r, new) /\ Within(G, new)
  <2> DEFINE rec == Call(u, sc, v)
  <2>1. Set(r, FromIndex(rec, index, 1)) /\ UNCHANGED <<index, aliases>>
    BY <1>1 DEF LookupBegins, vars
  <2>2. Usable(Primary(u), sc) \in BOOLEAN
    BY DEF Usable, UsableIn
  <2>3. rec \in ReaderRec
    BY <2>2 DEF ReaderRec, Call
  <2>4. rec.url = u /\ rec.for = v
    BY DEF Call
  <2> HIDE DEF rec
  <2>5. Within(G, FromIndex(rec, index, 1))
    BY <1>0, <1>1, <2>3, <2>4, FromIndexWithin
  <2> QED BY <1>0, <2>1, <2>5
<1>2. ASSUME NEW u \in Urls, PurgeBegins(r, u)
      PROVE  /\ LinksWithin(G, index') /\ LinksWithin(G, aliases')
             /\ \E new : Set(r, new) /\ Within(G, new)
  <2>1. Forgetting(index', index) /\ UNCHANGED aliases
    BY <1>0, <1>2 DEF PurgeBegins, PurgesIndexAt, Forgetting, Index
  <2>2. LinksWithin(G, index') /\ LinksWithin(G, aliases')
    BY <1>0, <2>1 DEF LinksWithin, Forgetting
  <2> DEFINE new == [IdleReader EXCEPT !.pc = "purgeGet", !.url = u]
  <2>3. Within(G, new)
    BY DEF Within, IdleReader
  <2> QED BY <1>2, <2>2, <2>3 DEF PurgeBegins
<1>3. ASSUME NEW pair \in BridgePairs, LookupBegins(r, pair[1], Nil, pair[2])
      PROVE  /\ LinksWithin(G, index') /\ LinksWithin(G, aliases')
             /\ \E new : Set(r, new) /\ Within(G, new)
  <2>1. pair[1] \in Urls /\ pair[2] \in Urls /\ G[pair[2]] = G[pair[1]]
    BY LookupAssumption DEF Apart
  <2> QED BY <1>1, <1>3, <2>1
<1> QED BY <1>1, <1>2, <1>3 DEF ReaderBegins

(* ... and so is all that its later steps read, write and carry on. *)
LEMMA ReaderStepWithin ==
    ASSUME NEW G, Apart(G), ReaderTypeOK, SegmentInv(G), NEW r \in Readers, ReaderStep(r)
    PROVE  /\ LinksWithin(G, index') /\ LinksWithin(G, aliases')
           /\ \E new : Set(r, new) /\ Within(G, new)
<1> DEFINE rec == reader[r]
           Goal == /\ LinksWithin(G, index') /\ LinksWithin(G, aliases')
                   /\ \E new : Set(r, new) /\ Within(G, new)
<1>0. /\ rec \in ReaderRec /\ Placed(rec) /\ Within(G, rec) /\ index \in Index
      /\ chunks \in [Keys -> Row \cup {Nil}] /\ aliases \in [Keys -> Keys \cup {Nil}]
      /\ RowsWithin(G) /\ LinksWithin(G, index) /\ LinksWithin(G, aliases)
  BY DEF ReaderTypeOK, TypeOK, Index, SegmentInv
<1>a. Within(G, IdleReader)
  BY DEF Within, IdleReader
<1>b. rec.url \in Urls
  BY <1>0 DEF Placed, ReaderStep, LookupFast, LookupDirect, LookupAlias, LookupTarget,
     LookupDropsAlias, LookupFails, LookupReturns, BridgeBegins, BridgeReads, BridgeWrites,
     BridgeFails, PurgeReads, PurgeDeletes
<1>c. rec.i \in Probes(rec.url) => Probe(r) \in Keys /\ G[Probe(r)] = G[rec.url]
  BY <1>b, ProbesType, VariantsWithin DEF Probe
<1>d. rec.pc \in {"bridgeGet", "bridgePut"} =>
        /\ rec.at \in Keys /\ BridgeAlias(r) \in Keys /\ rec.i + 1 \in Nat
        /\ G[BridgeAlias(r)] = G[rec.at]
  <2> SUFFICES ASSUME rec.pc \in {"bridgeGet", "bridgePut"}
               PROVE  /\ rec.at \in Keys /\ BridgeAlias(r) \in Keys /\ rec.i + 1 \in Nat
                      /\ G[BridgeAlias(r)] = G[rec.at]
    OBVIOUS
  <2>1. rec.at \in Keys /\ rec.for \in Urls /\ rec.i \in Probes(rec.for) /\ rec.i + 1 \in Nat
    BY <1>0 DEF Placed, ReaderRec
  <2>2. G[rec.at] = G[rec.url] /\ G[rec.for] = G[rec.url]
    <3>1. rec.for # Nil
      BY <2>1, StoreAssumption
    <3> QED BY <1>0, <3>1 DEF Within
  <2>3. Variants[rec.for][rec.i] \in Keys /\ G[Variants[rec.for][rec.i]] = G[rec.for]
    BY <2>1, ProbesType, VariantsWithin
  <2> QED BY <2>1, <2>2, <2>3 DEF BridgeAlias
<1>e. ASSUME NEW k \in Keys, NEW S \in SUBSET Keys, \A j \in S : G[j] = G[k]
      PROVE  LinksWithin(G, Indexed(k, S))
  BY <1>0, <1>e, IndexWithin
<1>f. ASSUME NEW k \in Keys, NEW j \in Keys \cup {Nil}, j # Nil => G[j] = G[k]
      PROVE  LinksWithin(G, [aliases EXCEPT ![k] = j])
  BY <1>0, <1>f DEF LinksWithin
(* A call that goes on to a step which looks at no key, or at the same one. *)
<1>g. ASSUME NEW pc \in {"alias", "target", "drop", "failed", "bridgePut", "purgeGet", "purgeDel"},
             NEW at, NEW i, Set(r, [rec EXCEPT !.pc = pc, !.at = at, !.i = i]),
             pc \in {"target", "bridgePut"} => G[at] = G[rec.url]
      PROVE  \E new : Set(r, new) /\ Within(G, new)
  <2> DEFINE new == [rec EXCEPT !.pc = pc, !.at = at, !.i = i]
  <2>1. new.pc = pc /\ new.at = at /\ new.for = rec.for /\ new.url = rec.url
    BY <1>0 DEF ReaderRec
  <2>2. Within(G, new)
    BY <1>0, <1>g, <2>1 DEF Within
  <2> QED BY <1>g, <2>2
<1>h. ASSUME NEW key, NEW k \in Keys, Usable(k, rec.scope), G[k] = G[rec.url],
             G[key] = G[rec.url],
             Set(r, [Found(rec, key) EXCEPT !.row = chunks[k]])
      PROVE  \E new : Set(r, new) /\ Within(G, new)
  <2> DEFINE new == [Found(rec, key) EXCEPT !.row = chunks[k]]
  <2>1. /\ new.pc = "found" /\ new.at = key /\ new.for = rec.for /\ new.url = rec.url
        /\ new.row = chunks[k]
    BY <1>0 DEF ReaderRec, Found
  <2>2. chunks[k].bytes \in G[rec.url]
    BY <1>0, <1>h DEF RowsWithin, Usable, UsableIn
  <2>3. Within(G, new)
    BY <1>0, <1>h, <2>1, <2>2 DEF Within
  <2> QED BY <1>h, <2>3
<1>1. CASE LookupFast(r)
  <2>1. /\ rec.pc = "fast" /\ rec.at \in Keys /\ G[rec.at] = G[rec.url]
        /\ G[Probe(r)] = G[rec.url] /\ rec.i + 1 \in Nat
    BY <1>0, <1>1, <1>c DEF LookupFast, Placed, Within, ReaderRec
  <2>2. CASE Usable(rec.at, rec.scope)
    BY <1>0, <1>1, <1>h, <2>1, <2>2 DEF LookupFast
  <2>3. CASE ~Usable(rec.at, rec.scope)
    <3> DEFINE idx == IF chunks[rec.at] # Nil THEN index ELSE Dropped({rec.at})
    <3>1. idx \in Index /\ LinksWithin(G, idx)
      <4>1. Dropped({rec.at}) \in Index
        BY <1>0, <2>1, IndexType DEF Index
      <4> QED BY <1>0, <4>1, IndexWithin
    <3> HIDE DEF idx
    <3>2. index' = idx /\ Set(r, FromIndex(rec, idx, rec.i + 1)) /\ UNCHANGED aliases
      BY <1>1, <2>3 DEF LookupFast, idx
    <3>3. Within(G, FromIndex(rec, idx, rec.i + 1))
      BY <1>0, <1>b, <2>1, <3>1, FromIndexWithin DEF Within
    <3> QED BY <1>0, <3>1, <3>2, <3>3
  <2> QED BY <2>2, <2>3
<1>2. CASE LookupDirect(r)
  <2>1. rec.pc = "direct" /\ Probe(r) \in Keys /\ G[Probe(r)] = G[rec.url]
    BY <1>0, <1>2, <1>c DEF LookupDirect, Placed
  <2>2. CASE Usable(Probe(r), rec.scope)
    <3>1. LinksWithin(G, index') /\ UNCHANGED aliases
      BY <1>2, <1>e, <2>1, <2>2 DEF LookupDirect
    <3> QED BY <1>0, <1>2, <1>h, <2>1, <2>2, <3>1 DEF LookupDirect
  <2>3. CASE ~Usable(Probe(r), rec.scope)
    <3>1. Set(r, [rec EXCEPT !.pc = "alias", !.at = rec.at, !.i = rec.i]) /\ UNCHANGED <<index, aliases>>
      BY <1>0, <1>2, <2>3 DEF LookupDirect, Set, ReaderRec
    <3> QED BY <1>0, <1>g, <3>1
  <2> QED BY <2>2, <2>3
<1>3. CASE LookupAlias(r)
  <2>1. /\ rec.pc = "alias" /\ Probe(r) \in Keys /\ G[Probe(r)] = G[rec.url]
        /\ UNCHANGED <<index, aliases>>
    BY <1>0, <1>3, <1>c DEF LookupAlias, Placed, vars
  <2>2. CASE aliases[Probe(r)] = Nil
    BY <1>0, <1>3, <2>1, <2>2, NextProbeWithin DEF LookupAlias
  <2>3. CASE aliases[Probe(r)] # Nil
    <3> DEFINE at == aliases[Probe(r)]
    <3>1. G[at] = G[rec.url]
      BY <1>0, <2>1, <2>3 DEF LinksWithin
    <3>2. Set(r, [rec EXCEPT !.pc = "target", !.at = at, !.i = rec.i])
      BY <1>0, <1>3, <2>3 DEF LookupAlias, Set, ReaderRec
    <3> HIDE DEF at
    <3> QED BY <1>0, <1>g, <2>1, <3>1, <3>2
  <2> QED BY <2>2, <2>3
<1>4. CASE LookupTarget(r)
  <2>1. /\ rec.pc = "target" /\ rec.at \in Keys /\ G[rec.at] = G[rec.url]
        /\ Probe(r) \in Keys /\ G[Probe(r)] = G[rec.url]
    BY <1>0, <1>4, <1>c DEF LookupTarget, Placed, Within
  <2>2. CASE Usable(rec.at, rec.scope)
    <3>1. LinksWithin(G, index') /\ UNCHANGED aliases
      BY <1>4, <1>e, <2>1, <2>2 DEF LookupTarget
    <3> QED BY <1>0, <1>4, <1>h, <2>1, <2>2, <3>1 DEF LookupTarget
  <2>3. CASE ~Usable(rec.at, rec.scope)
    <3>1. Set(r, [rec EXCEPT !.pc = "drop", !.at = rec.at, !.i = rec.i]) /\ UNCHANGED <<index, aliases>>
      BY <1>0, <1>4, <2>3 DEF LookupTarget, Set, ReaderRec
    <3> QED BY <1>0, <1>g, <3>1
  <2> QED BY <2>2, <2>3
<1>5. CASE LookupDropsAlias(r)
  <2>1. Probe(r) \in Keys /\ UNCHANGED index /\ Set(r, NextProbe(rec))
    BY <1>0, <1>5, <1>c DEF LookupDropsAlias, Placed
  <2>2. LinksWithin(G, aliases')
    BY <1>0, <1>5, <1>f, <2>1 DEF LookupDropsAlias
  <2> QED BY <1>0, <2>1, <2>2, NextProbeWithin
<1>6. CASE LookupFails(r)
  <2>1. Set(r, [rec EXCEPT !.pc = "failed", !.at = rec.at, !.i = rec.i]) /\ UNCHANGED <<index, aliases>>
    BY <1>0, <1>6 DEF LookupFails, Set, ReaderRec, vars
  <2> QED BY <1>0, <1>g, <2>1
<1>7. CASE LookupReturns(r)
  BY <1>0, <1>7, <1>a DEF LookupReturns, vars
<1>8. CASE BridgeBegins(r)
  BY <1>0, <1>8, NextAliasWithin DEF BridgeBegins, vars
<1>9. CASE BridgeReads(r)
  <2>1. rec.pc = "bridgeGet" /\ UNCHANGED aliases
    BY <1>9 DEF BridgeReads
  <2>2. CASE index' = Indexed(rec.at, {BridgeAlias(r)}) /\ Set(r, NextAlias(rec, rec.i + 1))
    <3>1. LinksWithin(G, index')
      BY <1>d, <1>e, <2>1, <2>2
    <3> QED BY <1>0, <1>d, <2>1, <2>2, <3>1, NextAliasWithin
  <2>3. CASE Set(r, [rec EXCEPT !.pc = "bridgePut"]) /\ UNCHANGED index
    <3>1. Set(r, [rec EXCEPT !.pc = "bridgePut", !.at = rec.at, !.i = rec.i])
      BY <1>0, <2>3 DEF Set, ReaderRec
    <3> QED BY <1>0, <1>g, <2>1, <2>3, <3>1 DEF Within
  <2> QED BY <1>9, <2>2, <2>3 DEF BridgeReads
<1>10. CASE BridgeWrites(r)
  <2>1. rec.pc = "bridgePut"
    BY <1>10 DEF BridgeWrites
  <2>2. LinksWithin(G, index')
    BY <1>10, <1>d, <1>e, <2>1 DEF BridgeWrites
  <2>3. LinksWithin(G, aliases')
    BY <1>10, <1>d, <1>f, <2>1 DEF BridgeWrites
  <2> QED BY <1>0, <1>10, <1>d, <2>1, <2>2, <2>3, NextAliasWithin DEF BridgeWrites
<1>11. CASE BridgeFails(r)
  <2>1. LinksWithin(G, aliases')
    BY <1>0, <1>11, <1>d, <1>f DEF BridgeFails
  <2> QED BY <1>0, <1>11, <1>a, <2>1 DEF BridgeFails
<1>m. ASSUME PurgeNext(r, rec)
      PROVE  LinksWithin(G, index') /\ \E new : Set(r, new) /\ Within(G, new)
  <2>1. CASE rec.i < Len(Variants[rec.url])
    <3>1. Set(r, [rec EXCEPT !.pc = "purgeGet", !.at = rec.at, !.i = rec.i + 1])
      BY <1>0, <1>m, <2>1 DEF PurgeNext, Set, ReaderRec
    <3>2. Forgetting(index', index)
      BY <1>0, <1>m, <2>1 DEF PurgeNext, PurgesIndexAt, Forgetting, Index
    <3> QED BY <1>0, <1>g, <3>1, <3>2 DEF LinksWithin, Forgetting
  <2>2. CASE ~(rec.i < Len(Variants[rec.url]))
    BY <1>0, <1>a, <1>m, <2>2 DEF PurgeNext
  <2> QED BY <2>1, <2>2
<1>12. CASE PurgeReads(r)
  <2>1. rec.pc = "purgeGet" /\ UNCHANGED aliases
    BY <1>12 DEF PurgeReads
  <2>2. CASE Set(r, [rec EXCEPT !.pc = "purgeDel"]) /\ UNCHANGED index
    <3>1. Set(r, [rec EXCEPT !.pc = "purgeDel", !.at = rec.at, !.i = rec.i])
      BY <1>0, <2>2 DEF Set, ReaderRec
    <3> QED BY <1>0, <1>g, <2>1, <2>2, <3>1
  <2> QED BY <1>0, <1>12, <1>m, <2>1, <2>2 DEF PurgeReads
<1>13. CASE PurgeDeletes(r)
  <2>1. Probe(r) \in Keys
    BY <1>0, <1>13, <1>c DEF PurgeDeletes, Placed
  <2>2. LinksWithin(G, aliases')
    BY <1>0, <1>13, <1>f, <2>1 DEF PurgeDeletes
  <2> QED BY <1>13, <1>m, <2>2 DEF PurgeDeletes
<1> QED BY <1>1, <1>2, <1>3, <1>4, <1>5, <1>6, <1>7, <1>8, <1>9, <1>10, <1>11, <1>12, <1>13
        DEF ReaderStep

LEMMA SegmentStep ==
    ASSUME NEW G, Apart(G), ReaderTypeOK, KeptInv, SegmentInv(G), [LookupNext]_lookupVars
    PROVE  SegmentInv(G)'
<1>0. StoreWithin(G) /\ \A r \in Readers : Within(G, reader[r])
  BY DEF SegmentInv, StoreWithin
<1>1. CASE ClearNext /\ KeptUpdated
  <2>1. StoreWithin(G)'
    BY <1>0, <1>1, StoreStepWithin DEF ReaderTypeOK
  <2>2. ASSUME NEW r \in Readers PROVE Within(G, reader'[r])
    <3>1. CASE reader'[r] = reader[r]
      BY <1>0, <3>1
    <3>2. CASE reader'[r] = [reader[r] EXCEPT !.kept = FALSE]
      <4>1. reader[r] \in ReaderRec
        BY DEF ReaderTypeOK
      <4>2. /\ reader'[r].pc = reader[r].pc /\ reader'[r].at = reader[r].at
            /\ reader'[r].url = reader[r].url /\ reader'[r].for = reader[r].for
            /\ reader'[r].row = reader[r].row
        BY <3>2, <4>1 DEF ReaderRec
      <4> QED BY <1>0, <4>2 DEF Within
    <3> QED BY <1>1, <3>1, <3>2 DEF KeptUpdated
  <2> QED BY <2>1, <2>2 DEF SegmentInv, StoreWithin
<1>2. CASE Reading
  <2>1. PICK r \in Readers : ReaderBegins(r) \/ ReaderStep(r)
    BY <1>2 DEF Reading
  <2>2. UNCHANGED <<chunks, writer>>
    BY <2>1, BeginStep, ReaderStepShape
  <2>3. /\ LinksWithin(G, index') /\ LinksWithin(G, aliases')
        /\ \E new : Set(r, new) /\ Within(G, new)
    BY <2>1, BeginWithin, ReaderStepWithin
  <2>4. \A q \in Readers : Within(G, reader'[q])
    BY <1>0, <2>3 DEF Set, ReaderTypeOK
  <2> QED BY <2>2, <2>3, <2>4 DEF SegmentInv, RowsWithin, StoresWithin
<1>3. CASE UNCHANGED lookupVars
  BY <1>0, <1>3 DEF lookupVars, vars, SegmentInv, RowsWithin, StoresWithin, LinksWithin, Within
<1> QED BY <1>1, <1>2, <1>3 DEF LookupNext

LEMMA SegmentStart == ASSUME NEW G, LookupInit PROVE SegmentInv(G)
BY DEF LookupInit, Init, StartsOn, SegmentInv, RowsWithin, StoresWithin, LinksWithin, Within,
       IdleWriter, IdleReader

(* URLs that no shared key and no bridge connects to the others. *)
Closed(U) ==
    /\ \A u \in U, v \in Urls \ U : VariantSet(u) \cap VariantSet(v) = {}
    /\ \A pair \in BridgePairs : pair[1] \in U <=> pair[2] \in U

(* Whatever stores, bridges, purges, evictions and failures happen between its
   probes, a lookup that finds a row returns bytes of a URL that keys or bridges
   connect to the one asked for: of no URL outside a set that is closed under
   sharing a variant and being bridged. Nothing is asked of the keys; what two
   segments of one path-only key (cache-keys.js:95) get to see is each other,
   and no third one. *)
THEOREM LookupsStayAmongLinkedUrls ==
    ASSUME NEW U \in SUBSET Urls, Closed(U)
    PROVE  LookupSpec => [](\A r \in Readers :
              reader[r].pc = "found" /\ reader[r].url \in U =>
                 \E u \in U : reader[r].row.bytes \in BytesOf[u])
<1> DEFINE UKeys == UNION {VariantSet(u) : u \in U}
           Inside == UNION {BytesOf[u] : u \in U}
           G == [k \in Keys |-> IF k \in UKeys THEN Inside ELSE Bytes]
<1>1. \A u \in Urls : /\ u \in VariantSet(u) /\ VariantSet(u) \subseteq Keys
                      /\ BytesOf[u] \subseteq Bytes
  <2>1. \A u \in Urls : u \in VariantSet(u)
    BY KeyAssumption, UrlType DEF VariantSet
  <2> QED BY <2>1, UrlType, StoreAssumption
<1>2. \A u \in U : \A k \in VariantSet(u) : G[k] = Inside
  BY <1>1
<1>3. \A u \in Urls \ U : \A k \in VariantSet(u) : G[k] = Bytes
  BY <1>1 DEF Closed
<1>4. \A u \in U : BytesOf[u] \subseteq Inside
  OBVIOUS
<1> HIDE DEF UKeys, Inside, G
<1>5. Apart(G)
  <2>1. \A u \in Urls : G[u] = IF u \in U THEN Inside ELSE Bytes
    BY <1>1, <1>2, <1>3
  <2>2. \A pair \in BridgePairs : pair[1] \in Urls /\ pair[2] \in Urls
    BY LookupAssumption
  <2> QED BY <1>1, <1>2, <1>3, <1>4, <2>1, <2>2 DEF Apart, Closed
<1>6. SegmentInv(G) => \A r \in Readers : reader[r].pc = "found" /\ reader[r].url \in U =>
                          \E u \in U : reader[r].row.bytes \in BytesOf[u]
  <2>1. \A u \in U : G[u] = Inside
    BY <1>1, <1>2
  <2> QED BY <2>1 DEF SegmentInv, Within, Inside
<1>7. LookupInit => SegmentInv(G)
  BY SegmentStart
<1>8. ReaderTypeOK /\ KeptInv /\ SegmentInv(G) /\ [LookupNext]_lookupVars => SegmentInv(G)'
  BY <1>5, SegmentStep
<1> QED BY <1>6, <1>7, <1>8, LookupInvariant, PTL DEF LookupSpec

=============================================================================
