------------------------------ MODULE CalmStore ------------------------------
(***************************************************************************)
(* Behaviours of ChunkStore from a worker's start over the rows that an    *)
(* earlier worker has left, calm from their beginning or not at all. In a  *)
(* calm one IndexedDB carries out every put and every delete of rows, and  *)
(* answers every pass, while its reads, listings, cursors and alias puts   *)
(* may still fail: what eviction and the registry can promise is about     *)
(* such a behaviour, however it interleaves.                               *)
(***************************************************************************)
EXTENDS ChunkStore

VARIABLES
    calm,
    unlisted   \* history: rows that the latest listing has left out (all, before
               \* the first one) and that were not registered since

calmVars == <<vars, calm, unlisted>>

Primaries == {Primary(u) : u \in Urls}

(* No put is rejected, no pass fails at its delete or is left hanging. *)
Works ==
    /\ \A w \in Writers : writer[w].pc = "put" => writer'[w].pc # "idle"
    /\ \A p \in Passes : /\ pass[p].pc = "delete" => pass'[p].pc # "idle"
                         /\ pass'[p].pc # "hung"

CalmInit ==
    /\ calm \in BOOLEAN
    /\ \E left \in [Primaries -> Row \cup {Nil}] :
          StartsOn([k \in Keys |-> IF k \in Primaries THEN left[k] ELSE Nil])
    /\ unlisted = Rows

(* A step of a calm behaviour. *)
CalmStep ==
    /\ \/ CacheNext /\ unlisted' = {k \in unlisted : RegKey[k] \notin registry'}
       \/ \E listed \in Listings : RebuildRegistry(listed) /\ unlisted' = Rows \ listed
    /\ Works

CalmNext ==
    /\ UNCHANGED calm
    /\ \/ calm /\ CalmStep
       \/ ~calm /\ Next /\ UNCHANGED unlisted

CalmSpec == CalmInit /\ [][CalmNext]_calmVars

(* A false negative of the registry costs the scheduler a redundant fetch, so
   a stored row must be registered: unless its store is about to register it,
   a pass has forgotten it and is about to delete it, or the rebuild at the
   worker's start has yet to list it or did not. *)
AboutToRegister(k) ==
    \E w \in Writers : writer[w].pc = "alias" /\ Primary(writer[w].url) = k
AboutToDelete(k) == \E p \in Passes : pass[p].pc = "delete" /\ k \in pass[p].del
RowsAreRegistered ==
    \A k \in Rows \ unlisted : RegKey[k] \in registry \/ AboutToRegister(k) \/ AboutToDelete(k)

(* The strengthening that makes RowsAreRegistered inductive while IndexedDB
   works: only primary keys ever hold a row, so a pass only picks such keys,
   and RegKey tells those apart. *)
RowsArePrimaries ==
    /\ Rows \subseteq Primaries
    /\ \A p \in Passes : pass[p].seen \subseteq Primaries
RegisteredInv == RowsArePrimaries /\ RowsAreRegistered

(* No row on disk is unknown to the registry, but for one that a store is about
   to register or a pass about to delete (db.js:552, 745; a delete that fails
   has forgotten keys whose rows stay), or one that the latest rebuild did not
   list (cache-registry.js:191: a failed listing is an empty one, and a listing
   ends after 1200 keys) and no store has registered since. *)
RegisteredWhileCalm == calm => RowsAreRegistered

(* A pass that is answered ends and frees evictionInProgress (db.js:580). *)
ResumesWhileCalm == (calm /\ evicting) ~> ~evicting
=============================================================================
