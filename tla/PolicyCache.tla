---------------------------- MODULE PolicyCache ----------------------------
(***************************************************************************)
(* The generational cache of resolved policies (policy/core/cache.cc).     *)
(* Every method runs under the cache's mutex and is one step; resolution   *)
(* "never runs under the lock" (cache.h), so between a miss and the Put    *)
(* that fills it anything can happen.                                      *)
(*                                                                         *)
(* External: the threads that read through the cache (Get, and on a miss   *)
(* resolve and Put, as the service and test_cache.cc do), and the owner of *)
(* the policy layers, who changes them and then invalidates.  Abstracted:  *)
(* a policy is the version of its identity's layers it was resolved from;  *)
(* site and trust are one part of the key; the statistics.                 *)
(***************************************************************************)
EXTENDS PolicyCacheOps

CONSTANTS
    Readers,
    MaxChanges      \* layer changes explored (TLC's bound)

VARIABLES
    layers,         \* the version of each identity's layers
    owner,          \* whom the owner of the layers is about to invalidate
    thread,         \* what each thread is doing
    \* observers
    untouched,      \* keys put since the last invalidation that covers them
    overtaken       \* keys whose policy was resolved before one of those

cacheVars == <<cache, layers, owner, thread, untouched, overtaken>>

None == "none"
All == "all"

ASSUME ChangesAssumption == MaxChanges \in Nat /\ None \notin Identities

Idle == [pc |-> "idle"]
Missed(k) == [pc |-> "missed", key |-> k]
Resolved(k, p) == [pc |-> "resolved", key |-> k, policy |-> p, overtaken |-> FALSE]
Pinned(k, v) == [pc |-> "pinned", key |-> k, version |-> v, invalidated |-> FALSE]

----------------------------------------------------------------------------
CacheInit ==
    /\ cache = EmptyCache
    /\ layers = [i \in Identities |-> 0]
    /\ owner = None
    /\ thread = [t \in Readers |-> Idle]
    /\ untouched = {}
    /\ overtaken = {}

GetStep(t, key) ==
    /\ thread[t].pc = "idle"
    /\ cache' = Get(cache, key)
    /\ thread' = [thread EXCEPT ![t] =
          IF Hit(cache, key) THEN Pinned(key, CurrentVersion(cache, key.identity))
          ELSE Missed(key)]
    /\ UNCHANGED <<layers, owner, untouched, overtaken>>

ResolveStep(t) ==
    /\ thread[t].pc = "missed"
    /\ thread' = [thread EXCEPT ![t] = Resolved(@.key, layers[@.key.identity])]
    /\ UNCHANGED <<cache, layers, owner, untouched, overtaken>>

PutStep(t) ==
    /\ thread[t].pc = "resolved"
    /\ LET key == thread[t].key
       IN  /\ cache' = Put(cache, key, thread[t].policy)
           /\ untouched' = untouched \cup {key}
           /\ overtaken' = IF thread[t].overtaken THEN overtaken \cup {key}
                           ELSE overtaken \ {key}
    /\ thread' = [thread EXCEPT ![t] = Idle]
    /\ UNCHANGED <<layers, owner>>

Release(t) ==
    /\ thread[t].pc = "pinned"
    /\ thread' = [thread EXCEPT ![t] = Idle]
    /\ UNCHANGED <<cache, layers, owner, untouched, overtaken>>

Covered(whom) == IF whom = All THEN Identities ELSE {whom}

ChangeLayers(whom) ==
    /\ owner = None
    /\ layers' = [i \in Identities |->
          IF i \in Covered(whom) THEN layers[i] + 1 ELSE layers[i]]
    /\ \A i \in Identities : layers'[i] <= MaxChanges
    /\ owner' = whom
    /\ UNCHANGED <<cache, thread, untouched, overtaken>>

(* What an invalidation of `whom' does to what a thread holds.             *)
Noticed(th, whom) ==
    IF th.pc = "resolved" /\ th.key.identity \in Covered(whom)
    THEN [th EXCEPT !.overtaken = TRUE]
    ELSE IF th.pc = "pinned" /\ th.key.identity \in Covered(whom)
    THEN [th EXCEPT !.invalidated = TRUE]
    ELSE th

InvalidateStep ==
    /\ owner # None
    /\ cache' = IF owner = All THEN InvalidateAll(cache) ELSE Invalidate(cache, owner)
    /\ untouched' = {k \in untouched : k.identity \notin Covered(owner)}
    /\ overtaken' = {k \in overtaken : k.identity \notin Covered(owner)}
    /\ thread' = [t \in Readers |-> Noticed(thread[t], owner)]
    /\ owner' = None
    /\ UNCHANGED layers

CacheNext ==
    \/ \E t \in Readers, key \in PolicyCacheKey : GetStep(t, key)
    \/ \E t \in Readers : ResolveStep(t)
    \/ \E t \in Readers : PutStep(t)
    \/ \E t \in Readers : Release(t)
    \/ \E whom \in Identities \cup {All} : ChangeLayers(whom)
    \/ InvalidateStep

CacheSpec == CacheInit /\ [][CacheNext]_cacheVars

----------------------------------------------------------------------------
(* Properties.                                                             *)

(* Every entry has a slot in the eviction order, so that the loop that     *)
(* makes room always finds something to evict, whatever Get has dropped in *)
(* between and whatever slots are left over; and the map never outgrows    *)
(* its capacity.                                                           *)
EveryEntryIsQueued ==
    /\ DOMAIN cache.map \subseteq ToSet(cache.order)
    /\ Cardinality(DOMAIN cache.map) <= MaxEntries

(* The two generation counters tell exactly the entries put since the last *)
(* invalidation that covers them: no invalidation is missed, and none of   *)
(* another identity costs an entry.                                        *)
ValidIffUntouched ==
    \A k \in DOMAIN cache.map : IsCurrent(cache, k) <=> k \in untouched

(* A reader can ask of the version it pinned whether the policy it holds   *)
(* has been invalidated since, and the answer is exact.                    *)
PinTellsInvalidation ==
    \A t \in Readers : thread[t].pc = "pinned" =>
        (VersionIsCurrent(cache, thread[t].version, thread[t].key.identity)
            <=> ~thread[t].invalidated)

(* The generations are exact, for the entries in the map and for the       *)
(* versions that readers hold.                                             *)
GenerationsAreExact == ValidIffUntouched /\ PinTellsInvalidation

(* Once the owner has invalidated, what a hit serves was resolved from the *)
(* layers as they are, except where an invalidation came between the       *)
(* resolution and its Put.                                                 *)
HitsFollowLayersUnlessOvertaken ==
    owner = None =>
        \A k \in DOMAIN cache.map :
            IsCurrent(cache, k) /\ k \notin overtaken =>
                cache.map[k].policy = layers[k.identity]

=============================================================================
