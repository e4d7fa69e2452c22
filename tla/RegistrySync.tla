----------------------------- MODULE RegistrySync -----------------------------
(***************************************************************************)
(* What pages know of the cache: the background keeps the keys of the      *)
(* stored rows and sends them to the tabs that play media, routinely as an *)
(* addition, after a purge, a rebuild or to one tab as a replacement; a    *)
(* page asks the background for a segment unless its own copy, fresh,      *)
(* denies it (background/cache/cache-registry.js, page/cache/              *)
(* cache-registry.js). A key stands for all names of one segment, which    *)
(* both sides resolve alike.                                               *)
(***************************************************************************)
EXTENDS Naturals, Sequences, SequencesExt, FiniteSets

CONSTANTS
    RegKeys,      \* keys of segments
    OwnKeys,      \* those a page itself stores and prefetches
    LastTab,      \* the tabs are 1 .. LastTab, in the order of chrome.tabs.query
    Flushes,      \* runs of flushCacheRegistrySync that may overlap; a model's bound
    PayloadLimit, \* CACHE_REGISTRY_MAX_KEYS
    PageLimit,    \* MAX_LOCAL_REGISTRY_KEYS
    MaxInbox,     \* messages under way to a tab; a model's bound
    Watched       \* the tabs whose page is followed

ASSUME SyncAssumption ==
    /\ IsFiniteSet(RegKeys)
    /\ {LastTab, PayloadLimit, PageLimit, MaxInbox} \subseteq Nat
    /\ Watched \subseteq 1 .. LastTab

VARIABLES
    registry,   \* cacheRegistryKeys in order of insertion
    timer,      \* registrySyncTimer
    rebuilding, \* rebuildCacheRegistryFromDb waits for the list of rows
    flush,      \* runs of flushCacheRegistrySync
    replies,    \* per tab, the flushes waiting for its reply, in order
    inbox,      \* per page, CacheRegistrySync messages in order
    media,      \* the tabs for which isTabMediaContext holds
    page,       \* per page followed, its registry
    missed      \* tabs that missed a sync, or may get an older one after it

background == <<registry, timer, rebuilding>>
sending == <<flush, replies>>
syncVars == <<background, sending, inbox, media, page, missed>>

Tabs == 1 .. LastTab
Payload == {registry[i] : i \in {j \in DOMAIN registry : j <= PayloadLimit}}

(* A run of flushCacheRegistrySync awaits the reply of the tab at. What a page
   was told since its set was last replaced is history: it has it, or has trimmed it. *)
Idle == [pc |-> "idle", replace |-> FALSE, keys |-> {}, at |-> 0]
NewPage == [keys |-> {}, told |-> {}, intents |-> {}, trust |-> "never", doubted |-> FALSE]

(* A run that starts with chrome.tabs.query. *)
FlushStarts(replace) == \E f \in Flushes :
    /\ flush[f].pc = "idle"
    /\ flush' = [flush EXCEPT ![f] = [Idle EXCEPT !.pc = "query", !.replace = replace]]

-----------------------------------------------------------------------------
(* The background's registry. *)

(* A faulty Register: it trusts a flush that is under way. *)
RegisterUnlessFlushing(k) ==
    /\ k \notin ToSet(registry)
    /\ registry' = Append(registry, k)
    /\ timer' = (timer \/ \A f \in Flushes : flush[f].pc = "idle")
    /\ UNCHANGED <<rebuilding, sending, inbox, media, page, missed>>

Register(k) ==
    /\ k \notin ToSet(registry)
    /\ registry' = Append(registry, k) /\ timer' = TRUE
    /\ UNCHANGED <<rebuilding, sending, inbox, media, page, missed>>

Unregister(k) ==
    /\ \E i \in DOMAIN registry : registry[i] = k /\ registry' = RemoveAt(registry, i)
    /\ timer' = TRUE
    /\ UNCHANGED <<rebuilding, sending, inbox, media, page, missed>>

ClearRegistry ==
    /\ registry # <<>> /\ registry' = <<>>
    /\ timer' = FALSE
    /\ FlushStarts(TRUE)
    /\ UNCHANGED <<rebuilding, replies, inbox, media, page, missed>>

RebuildEnds(rows) ==
    /\ rebuilding /\ rebuilding' = FALSE
    /\ registry' = rows
    /\ FlushStarts(TRUE)
    /\ UNCHANGED <<timer, replies, inbox, media, page, missed>>

(* The worker stops; the next one knows nothing until it has listed the rows. *)
WorkerRestarts ==
    /\ registry' = <<>> /\ timer' = FALSE /\ rebuilding' = TRUE
    /\ flush' = [f \in Flushes |-> Idle]
    /\ replies' = [t \in Tabs |-> <<>>]
    /\ UNCHANGED <<inbox, media, page, missed>>

-----------------------------------------------------------------------------
(* flushCacheRegistrySync *)

TimerFires ==
    /\ timer /\ timer' = FALSE
    /\ FlushStarts(FALSE)
    /\ UNCHANGED <<registry, rebuilding, replies, inbox, media, page, missed>>

(* From a tab on: those that play no media are passed over, the next one gets
   the payload, and the run waits for its reply. A run that is passed by another
   one may bring the rest of the tabs an older payload than they have. *)
SendsOn(f, keys, from, before) == \E t \in from .. LastTab + 1 :
    LET over == from .. t - 1
        overtaken == {g \in Flushes : flush[g].pc = "wait" /\ flush[g].at \in over}
    IN  /\ over \cap media = {} /\ (t \in Tabs => t \in media)
        /\ missed' = before \cup over \cup UNION {flush[g].at .. LastTab : g \in overtaken}
        /\ t \in Watched => Len(inbox[t]) < MaxInbox
        /\ inbox' = [p \in Watched |->
               IF p = t THEN Append(inbox[p], [replace |-> flush[f].replace, keys |-> keys])
                        ELSE inbox[p]]
        /\ flush' = [flush EXCEPT ![f] =
               IF t \in Tabs THEN [@ EXCEPT !.pc = "wait", !.keys = keys, !.at = t] ELSE Idle]
        /\ replies' = [u \in Tabs |->
               LET left == IF u = flush[f].at THEN Tail(replies[u]) ELSE replies[u]
               IN  IF u = t THEN Append(left, f) ELSE left]

QueryAnswers(f) ==
    /\ flush[f].pc = "query"
    /\ SendsOn(f, Payload, 1, {})
    /\ UNCHANGED <<background, media, page>>

(* The query fails: nobody is told, and nothing tries again. *)
QueryFails(f) ==
    /\ flush[f].pc = "query"
    /\ flush' = [flush EXCEPT ![f] = Idle]
    /\ missed' = Tabs
    /\ UNCHANGED <<background, replies, inbox, media, page>>

(* A tab replies, or turns out to have no content script. *)
Replies(t) ==
    /\ replies[t] # <<>>
    /\ LET f == Head(replies[t]) IN SendsOn(f, flush[f].keys, t + 1, missed)
    /\ UNCHANGED <<background, media, page>>

(* syncCacheRegistryToTab, when a tab's bridge is ready or it comes to front. *)
TabSync(t) ==
    /\ t \in media /\ Len(inbox[t]) < MaxInbox
    /\ inbox' = [inbox EXCEPT ![t] = Append(@, [replace |-> TRUE, keys |-> Payload])]
    /\ UNCHANGED <<background, sending, media, page, missed>>

MediaChanges(t) ==
    /\ media' = IF t \in media THEN media \ {t} ELSE media \cup {t}
    /\ UNCHANGED <<background, sending, inbox, page, missed>>

-----------------------------------------------------------------------------
(* The page's registry. *)

Denies(t, k) ==
    /\ k \notin page[t].keys /\ k \notin page[t].intents
    /\ page[t].trust = "fresh" /\ ~page[t].doubted

(* trimRegistry drops the oldest beyond the limit; which those are is left open. *)
Trimmed(keys) ==
    IF Cardinality(keys) <= PageLimit THEN {keys}
    ELSE {kept \in SUBSET keys : Cardinality(kept) = PageLimit}

(* applyCacheRegistrySync *)
Applies(t) ==
    /\ inbox[t] # <<>>
    /\ LET m == Head(inbox[t])
           With(keys) == m.keys \cup IF m.replace THEN {} ELSE keys
       IN  \E keys \in Trimmed(With(page[t].keys)) :
              page' = [page EXCEPT ![t].keys = keys, ![t].told = With(@), ![t].trust = "fresh"]
    /\ inbox' = [inbox EXCEPT ![t] = Tail(@)]
    /\ UNCHANGED <<background, sending, media, missed>>

NotesKey(t, k) ==
    /\ \E keys \in Trimmed(page[t].keys \cup {k}) :
          page' = [page EXCEPT ![t].keys = keys, ![t].told = @ \cup {k}, ![t].intents = @ \ {k}]
    /\ UNCHANGED <<background, sending, inbox, media, missed>>

NotesIntent(t, k) ==
    /\ page' = [page EXCEPT ![t].intents = @ \cup {k}]
    /\ UNCHANGED <<background, sending, inbox, media, missed>>

ClearsIntent(t, k) ==
    /\ page' = [page EXCEPT ![t].intents = @ \ {k}]
    /\ UNCHANGED <<background, sending, inbox, media, missed>>

(* The belt finds on disk what the registry denied. *)
FalseNegative(t, k) ==
    /\ Denies(t, k) /\ k \in ToSet(registry)
    /\ page' = [page EXCEPT ![t].doubted = TRUE]
    /\ UNCHANGED <<background, sending, inbox, media, missed>>

(* Ten seconds without a sync; thirty seconds without a false negative. *)
Ages(t) ==
    /\ \/ page[t].trust = "fresh" /\ page' = [page EXCEPT ![t].trust = "stale"]
       \/ page[t].doubted /\ page' = [page EXCEPT ![t].doubted = FALSE]
    /\ UNCHANGED <<background, sending, inbox, media, missed>>

PageLoads(t) ==
    /\ page' = [page EXCEPT ![t] = NewPage]
    /\ inbox' = [inbox EXCEPT ![t] = <<>>]
    /\ UNCHANGED <<background, sending, media, missed>>

SyncInit ==
    /\ registry = <<>> /\ timer = FALSE /\ rebuilding = TRUE
    /\ flush = [f \in Flushes |-> Idle]
    /\ replies = [t \in Tabs |-> <<>>]
    /\ inbox = [t \in Watched |-> <<>>]
    /\ media = {}
    /\ page = [t \in Watched |-> NewPage]
    /\ missed = {}

SyncNext ==
    \/ ClearRegistry \/ WorkerRestarts \/ TimerFires
    \/ \E rows \in SetToSeqs(RegKeys) : \E n \in 0 .. Len(rows) : RebuildEnds(SubSeq(rows, 1, n))
    \/ \E f \in Flushes : QueryAnswers(f) \/ QueryFails(f)
    \/ \E k \in RegKeys : Register(k) \/ Unregister(k)
    \/ \E t \in Tabs : Replies(t) \/ MediaChanges(t)
    \/ \E t \in Watched : TabSync(t) \/ Applies(t) \/ Ages(t) \/ PageLoads(t)
    \/ \E t \in Watched, k \in RegKeys : FalseNegative(t, k)
    \/ \E t \in Watched, k \in OwnKeys : NotesKey(t, k) \/ NotesIntent(t, k) \/ ClearsIntent(t, k)

SyncSpec == SyncInit /\ [][SyncNext]_syncVars
-----------------------------------------------------------------------------
(* cache-registry.js:113, page/cache/cache-registry.js:363: a page that, fresh,
   denies a key the payload holds was told it and has itself trimmed it since, or
   is about to be told it: the rows are being listed, a sync is due, or one that
   names the key is on its way. *)
DenialsAreCorrected ==
    \A t \in (media \cap Watched) \ missed : \A k \in Payload :
        Denies(t, k) =>
            \/ k \in page[t].told
            \/ rebuilding \/ timer
            \/ \E f \in Flushes : flush[f].pc = "query"
            \/ \E f \in Flushes : flush[f].pc = "wait" /\ k \in flush[f].keys /\ t > flush[f].at
            \/ \E i \in DOMAIN inbox[t] : k \in inbox[t][i].keys

-----------------------------------------------------------------------------
(* Its strengthening. *)

SyncTypeOK ==
    /\ registry \in Seq(RegKeys) /\ timer \in BOOLEAN /\ rebuilding \in BOOLEAN
    /\ flush \in [Flushes -> [pc : {"idle", "query", "wait"}, replace : BOOLEAN,
                              keys : SUBSET RegKeys, at : 0 .. LastTab]]
    /\ replies \in [Tabs -> Seq(Flushes)]
    /\ inbox \in [Watched -> Seq([replace : BOOLEAN, keys : SUBSET RegKeys])]
    /\ media \subseteq Tabs /\ missed \subseteq Tabs
    /\ page \in [Watched -> [keys : SUBSET (RegKeys \cup OwnKeys),
                             told : SUBSET (RegKeys \cup OwnKeys), intents : SUBSET OwnKeys,
                             trust : {"never", "fresh", "stale"}, doubted : BOOLEAN]]

(* A run waits for one tab, and stands in the queue of that tab, once. *)
WaitsOnce ==
    /\ \A f \in Flushes : IF flush[f].pc = "wait"
                           THEN flush[f].at \in Tabs /\ f \in ToSet(replies[flush[f].at])
                           ELSE flush[f].at = 0
    /\ \A t \in Tabs : \A i \in DOMAIN replies[t] :
          /\ flush[replies[t][i]].pc = "wait" /\ flush[replies[t][i]].at = t
          /\ \A j \in DOMAIN replies[t] : replies[t][i] = replies[t][j] => i = j

(* Nothing has yet to be sent that no payload holds. *)
Flushed == ~rebuilding /\ ~timer /\ \A f \in Flushes : flush[f].pc # "query"

(* The runs that will still reach t, and which of two reaches it first. *)
Coming(t) == {f \in Flushes : flush[f].pc = "wait" /\ flush[f].at < t}
Before(f, g) ==
    \/ flush[f].at > flush[g].at
    \/ /\ flush[f].at = flush[g].at
       /\ \E i, j \in DOMAIN replies[flush[f].at] :
             /\ i < j /\ replies[flush[f].at][i] = f /\ replies[flush[f].at][j] = g

(* The page has been told k when the messages under way to it have been applied. *)
WillKnow(t, k) == \E i \in 0 .. Len(inbox[t]) :
    /\ IF i = 0 THEN k \in page[t].told ELSE k \in inbox[t][i].keys
    /\ \A j \in i + 1 .. Len(inbox[t]) : inbox[t][j].replace => k \in inbox[t][j].keys

(* The last run to reach t brings the payload of now; when none is left, the
   page has heard nothing yet, or all of it. *)
Informed(t) ==
    IF Coming(t) # {}
    THEN \E f \in Coming(t) : /\ flush[f].keys = Payload
                              /\ \A g \in Coming(t) \ {f} : Before(g, f)
    ELSE t \in Watched => \/ page[t].trust = "never" /\ inbox[t] = <<>>
                          \/ \A k \in Payload : WillKnow(t, k)

SyncInv == SyncTypeOK /\ WaitsOnce /\ (Flushed => \A t \in Tabs \ missed : Informed(t))
===============================================================================
