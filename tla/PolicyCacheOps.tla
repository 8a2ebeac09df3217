--------------------------- MODULE PolicyCacheOps ---------------------------
(***************************************************************************)
(* The methods of PolicyCache (policy/core/cache.cc) as functions of the   *)
(* cache object: `map' is map_, `order' the eviction order order_,         *)
(* `global' and `identity' the generation counters.                        *)
(***************************************************************************)
EXTENDS Integers, Sequences, SequencesExt, FiniteSets

CONSTANTS
    Identities,
    Sites,
    MaxEntries      \* max_entries_

VARIABLE cache      \* the PolicyCache object

ASSUME CacheAssumption == MaxEntries \in Nat \ {0}

PolicyCacheKey == [identity: Identities, site: Sites]
Version == [global: Nat, identity: Nat]

EmptyMap == [k \in {} |-> 0]
EmptyCache == [map |-> EmptyMap, order |-> <<>>, global |-> 0,
               identity |-> [i \in Identities |-> 0]]

Without(m, keys) == [k \in DOMAIN m \ keys |-> m[k]]
With(m, key, entry) ==
    [k \in DOMAIN m \cup {key} |-> IF k = key THEN entry ELSE m[k]]

CurrentVersion(c, identity) ==
    [global |-> c.global, identity |-> c.identity[identity]]

(* Mutant: only the global generation is compared.                         *)
IsCurrentGlobally(c, k) ==
    c.map[k].version.global = CurrentVersion(c, k.identity).global

(* Valid iff no invalidation touched the entry since it was stamped.       *)
IsCurrent(c, k) == c.map[k].version = CurrentVersion(c, k.identity)

VersionIsCurrent(c, v, identity) == CurrentVersion(c, identity) = v

LeftBy(c, n) == DOMAIN c.map \ ToSet(SubSeq(c.order, 1, n))

(* How many of the oldest slots go until the map has room.                 *)
Popped(c) ==
    Min({n \in 0..Len(c.order) :
            \/ Cardinality(LeftBy(c, n)) < MaxEntries
            \/ n = Len(c.order)})

MakeRoom(c) ==
    [c EXCEPT !.map = Without(@, ToSet(SubSeq(c.order, 1, Popped(c)))),
              !.order = SubSeq(@, Popped(c) + 1, Len(@))]

Stamped(c, key, policy) ==
    [policy |-> policy, version |-> CurrentVersion(c, key.identity)]

(* Mutant: replacing a policy keeps the stamp of the one replaced.         *)
PutKeepsStamp(c, key, policy) ==
    IF key \in DOMAIN c.map
    THEN [c EXCEPT !.map[key].policy = policy]
    ELSE LET d == MakeRoom(c)
         IN  [d EXCEPT !.map = With(@, key, Stamped(c, key, policy)),
                       !.order = Append(@, key)]

(* Mutant: a key that is in the map keeps the policy it has.               *)
PutIfAbsent(c, key, policy) ==
    IF key \in DOMAIN c.map THEN c
    ELSE LET d == MakeRoom(c)
         IN  [d EXCEPT !.map = With(@, key, Stamped(c, key, policy)),
                       !.order = Append(@, key)]

(* A key that is in the map keeps its place in the eviction order; one that *)
(* is not gets a new slot, even if an old one is still queued.             *)
Put(c, key, policy) ==
    LET d == IF key \in DOMAIN c.map THEN c ELSE MakeRoom(c)
    IN  [d EXCEPT !.map = With(@, key, Stamped(c, key, policy)),
                  !.order = IF key \in DOMAIN c.map THEN @ ELSE Append(@, key)]

(* Mutant: dropping a stale entry pops the oldest slot with it.            *)
DropAndPop(c, key) ==
    [c EXCEPT !.map = Without(@, {key}), !.order = Tail(@)]

(* Lazy invalidation: Get drops a stale entry, but not its slot.           *)
Drop(c, key) == [c EXCEPT !.map = Without(@, {key})]

Hit(c, key) == key \in DOMAIN c.map /\ IsCurrent(c, key)

Get(c, key) ==
    IF key \in DOMAIN c.map /\ ~Hit(c, key) THEN Drop(c, key) ELSE c

InvalidateAll(c) == [c EXCEPT !.global = @ + 1]

Invalidate(c, identity) == [c EXCEPT !.identity[identity] = @ + 1]
=============================================================================
