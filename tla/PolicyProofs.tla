---------------------------- MODULE PolicyProofs ----------------------------
(***************************************************************************)
(* The policy cache for any identities, sites, readers and capacity, and    *)
(* any number of changes of the layers; and the resolver service on top of  *)
(* it, for any callers, policies, budget and number of snapshots, and any   *)
(* loss, repetition and order of blobs.                                     *)
(*                                                                         *)
(* Room: making room leaves less than the capacity because every entry has  *)
(* a slot to be evicted by (MakeRoomWorks), and nothing but an eviction     *)
(* takes a slot away (QueueInv).  Generations: no version in the map or in  *)
(* a reader's hand is ahead of the counters, so one that an invalidation    *)
(* has left behind never becomes current again (VersionsInv).  Layers:      *)
(* what the owner is not about to invalidate agrees with the layers in the  *)
(* map, and in the hands of the readers that are about to Put (LayersInv).  *)
(* Distribution: a sequence number stands for one state for good, and every *)
(* blob says of its own what was emitted under it, so what a consumer could *)
(* apply is what the service emitted (BlobsAreTrue, ReplicaIsExact); that   *)
(* the consumer of the base can apply a diff is the codec's round trip      *)
(* (DiffRoundTrip).  Resolution: a key that one thread alone is resolving   *)
(* has its policy in the cache before it has it in the state (HalvesAgree). *)
(* Inputs: what the request carries wins over the layers, and of what is    *)
(* put together each stage of the resolver only tightens, or decides alone  *)
(* (DecidedTells); what the store accepts, the parser takes (LoadedIsValid).*)
(***************************************************************************)
EXTENDS PolicyCache, PolicyLaws, PlacesProofs

-----------------------------------------------------------------------------
(* The cache.                                                              *)

(* What the cache object is made of, apart from the policies.              *)
Object(c) ==
    /\ DOMAIN c = {"map", "order", "global", "identity"}
    /\ DOMAIN c.map \subseteq PolicyCacheKey
    /\ c.order \in Seq(PolicyCacheKey)
    /\ c.global \in Nat
    /\ c.identity \in [Identities -> Nat]

Queued(c) ==
    /\ DOMAIN c.map \subseteq ToSet(c.order)
    /\ Cardinality(DOMAIN c.map) <= MaxEntries

(* A version that was current once.                                        *)
NotAhead(v, c, i) ==
    /\ v \in Version
    /\ v.global <= c.global
    /\ v.identity <= c.identity[i]

(* What a thread holds.                                                    *)
Holding(th) ==
    \/ th.pc = "idle"
    \/ th.pc = "missed" /\ th.key \in PolicyCacheKey
    \/ /\ th.pc = "resolved" /\ th.key \in PolicyCacheKey /\ th.overtaken \in BOOLEAN
       /\ DOMAIN th = {"pc", "key", "policy", "overtaken"}
    \/ /\ th.pc = "pinned" /\ th.key \in PolicyCacheKey /\ th.invalidated \in BOOLEAN
       /\ DOMAIN th = {"pc", "key", "version", "invalidated"}

ThreadShapes ==
    /\ thread = [t \in Readers |-> thread[t]]
    /\ \A t \in Readers : Holding(thread[t])

QueueInv == Object(cache) /\ EveryEntryIsQueued /\ ThreadShapes

(* Nobody holds a version of the future.                                   *)
VersionsInv ==
    /\ \A k \in DOMAIN cache.map : NotAhead(cache.map[k].version, cache, k.identity)
    /\ \A t \in Readers : thread[t].pc = "pinned" =>
          NotAhead(thread[t].version, cache, thread[t].key.identity)

GenerationInv == VersionsInv /\ GenerationsAreExact

(* The identity is not one that the owner is about to invalidate.           *)
Settled(i) == owner = None \/ i \notin Covered(owner)

LayersInv ==
    /\ \A k \in DOMAIN cache.map :
          IsCurrent(cache, k) /\ k \notin overtaken /\ Settled(k.identity) =>
              cache.map[k].policy = layers[k.identity]
    /\ \A t \in Readers :
          thread[t].pc = "resolved" /\ ~thread[t].overtaken /\ Settled(thread[t].key.identity) =>
              thread[t].policy = layers[thread[t].key.identity]

OwnerShapes ==
    /\ owner \in Identities \cup {None, All}
    /\ DOMAIN layers = Identities

-----------------------------------------------------------------------------
(* Making room.                                                            *)

(* A finite sequence has finitely many members.                            *)
LEMMA MembersAreFinite ==
    ASSUME NEW S, NEW s \in Seq(S)
    PROVE  IsFiniteSet(ToSet(s))
<1>1. s \in [1..Len(s) -> ToSet(s)] /\ Len(s) \in Nat
  BY DEF ToSet
<1>2. s \in Surjection(1..Len(s), ToSet(s))
  BY <1>1 DEF ToSet, Surjection
<1>3. IsFiniteSet(1..Len(s))
  BY <1>1, FS_Interval
<1> QED BY <1>2, <1>3, FS_Surjection

(* The members of a sequence are those of its parts before and after n.     *)
LEMMA MembersOfParts ==
    ASSUME NEW S, NEW s \in Seq(S), NEW n \in 0..Len(s)
    PROVE  /\ SubSeq(s, 1, n) \in Seq(S)
           /\ SubSeq(s, n + 1, Len(s)) \in Seq(S)
           /\ ToSet(s) \subseteq ToSet(SubSeq(s, 1, n)) \cup ToSet(SubSeq(s, n + 1, Len(s)))
<1> DEFINE first == SubSeq(s, 1, n)
           rest == SubSeq(s, n + 1, Len(s))
<1>1. Len(s) \in Nat /\ n \in Nat /\ n <= Len(s) /\ \A i \in 1..Len(s) : s[i] \in S
  OBVIOUS
<1>2. first \in Seq(S) /\ Len(first) = n /\ \A i \in 1..n : first[i] = s[i]
  BY <1>1, SubSeqProperties
<1>3. /\ rest \in Seq(S) /\ Len(rest) = Len(s) - n
      /\ \A i \in 1..(Len(s) - n) : rest[i] = s[n + i]
  BY <1>1, SubSeqProperties
<1> HIDE DEF first, rest
<1>4. ASSUME NEW i \in 1..Len(s), i <= n PROVE s[i] \in ToSet(first)
  <2>1. i \in 1..n /\ s[i] = first[i]
    BY <1>1, <1>2, <1>4
  <2> QED BY <2>1, <1>2 DEF ToSet
<1>5. ASSUME NEW i \in 1..Len(s), i > n PROVE s[i] \in ToSet(rest)
  <2>1. i - n \in 1..(Len(s) - n) /\ n + (i - n) = i
    BY <1>1, <1>5
  <2>2. rest[i - n] = s[i]
    BY <2>1, <1>3
  <2> QED BY <2>1, <2>2, <1>3 DEF ToSet
<1>6. ToSet(s) \subseteq ToSet(first) \cup ToSet(rest)
  BY <1>1, <1>4, <1>5 DEF ToSet
<1> QED BY <1>2, <1>3, <1>6 DEF first, rest

(* After the loop of Put that evicts, there is room for one more entry,     *)
(* what is left still has its slots, and no entry was changed.              *)
LEMMA MakeRoomWorks ==
    ASSUME NEW c, Object(c), Queued(c)
    PROVE  LET d == MakeRoom(c)
           IN  /\ Object(d)
               /\ DOMAIN d.map \subseteq ToSet(d.order)
               /\ DOMAIN d.map \subseteq DOMAIN c.map
               /\ \A k \in DOMAIN d.map : d.map[k] = c.map[k]
               /\ IsFiniteSet(DOMAIN d.map)
               /\ Cardinality(DOMAIN d.map) < MaxEntries
               /\ d.global = c.global /\ d.identity = c.identity
<1> DEFINE d == MakeRoom(c)
           n == Popped(c)
           stops == {m \in 0..Len(c.order) :
                        \/ Cardinality(LeftBy(c, m)) < MaxEntries
                        \/ m = Len(c.order)}
<1>1. Len(c.order) \in Nat /\ c.order \in Seq(PolicyCacheKey)
  BY DEF Object
<1>2. n \in stops
  <2>1. Len(c.order) \in stops /\ stops \in SUBSET Nat
    BY <1>1
  <2>2. n = Min(stops)
    BY DEF Popped
  <2> HIDE DEF stops, n
  <2> QED BY <2>1, <2>2, LeastNumber
<1>3. n \in 0..Len(c.order)
  BY <1>2
<1> DEFINE first == SubSeq(c.order, 1, n)
           rest == SubSeq(c.order, n + 1, Len(c.order))
<1>4. /\ rest \in Seq(PolicyCacheKey)
      /\ ToSet(c.order) \subseteq ToSet(first) \cup ToSet(rest)
  <2> HIDE DEF n
  <2> QED BY <1>1, <1>3, MembersOfParts
<1>5. /\ DOMAIN d = DOMAIN c
      /\ d.map = Without(c.map, ToSet(first))
      /\ d.order = rest
      /\ d.global = c.global /\ d.identity = c.identity
  <2> HIDE DEF n
  <2>1. d = [c EXCEPT !.map = Without(@, ToSet(SubSeq(c.order, 1, n))),
                      !.order = SubSeq(@, n + 1, Len(@))]
    BY DEF MakeRoom, n
  <2> HIDE DEF d
  <2> QED BY <2>1 DEF Object
<1>6. /\ DOMAIN d.map = DOMAIN c.map \ ToSet(first)
      /\ \A k \in DOMAIN d.map : d.map[k] = c.map[k]
  <2> HIDE DEF d, first
  <2> QED BY <1>5 DEF Without
<1>7. DOMAIN d.map \subseteq ToSet(d.order)
  <2> HIDE DEF d, first, rest
  <2> QED BY <1>4, <1>5, <1>6 DEF Queued
<1>8. IsFiniteSet(DOMAIN c.map) /\ IsFiniteSet(DOMAIN d.map)
  <2> HIDE DEF d, first
  <2>1. IsFiniteSet(ToSet(c.order))
    BY <1>1, MembersAreFinite
  <2>2. DOMAIN c.map \in SUBSET ToSet(c.order) /\ DOMAIN d.map \in SUBSET ToSet(c.order)
    BY <1>6 DEF Queued
  <2> QED BY <2>1, <2>2, FS_Subset
<1>9. Cardinality(DOMAIN d.map) < MaxEntries
  <2>1. DOMAIN d.map = LeftBy(c, n)
    <3> HIDE DEF d, n
    <3> QED BY <1>6 DEF LeftBy
  <2>2. CASE Cardinality(LeftBy(c, n)) < MaxEntries
    <3> HIDE DEF d, n
    <3> QED BY <2>1, <2>2
  <2>3. CASE n = Len(c.order)
    <3> HIDE DEF d, n
    <3>1. Len(rest) = 0
      BY <1>1, <2>3, SubSeqProperties
    <3>2. ToSet(rest) = {}
      BY <3>1, <1>4 DEF ToSet
    <3>3. DOMAIN d.map = {}
      BY <1>5, <1>7, <3>2
    <3> QED BY <3>3, FS_EmptySet, CacheAssumption
  <2> HIDE DEF d, n
  <2> QED BY <1>2, <2>2, <2>3
<1>10. Object(d)
  <2> HIDE DEF d, rest, first
  <2> QED BY <1>4, <1>5, <1>6 DEF Object
<1> QED BY <1>5, <1>6, <1>7, <1>8, <1>9, <1>10

-----------------------------------------------------------------------------
(* The methods of the cache.                                               *)

(* Put stamps its entry with the current version, keeps the queue in order  *)
(* and changes no other entry.                                              *)
LEMMA PutWorks ==
    ASSUME NEW c, Object(c), Queued(c), NEW key \in PolicyCacheKey, NEW policy
    PROVE  LET d == Put(c, key, policy)
           IN  /\ Object(d) /\ Queued(d)
               /\ d.global = c.global /\ d.identity = c.identity
               /\ key \in DOMAIN d.map
               /\ d.map[key] = Stamped(c, key, policy)
               /\ \A k \in DOMAIN d.map \ {key} : k \in DOMAIN c.map /\ d.map[k] = c.map[k]
<1> DEFINE e == IF key \in DOMAIN c.map THEN c ELSE MakeRoom(c)
           d == Put(c, key, policy)
           S == DOMAIN e.map
<1>0. IsFiniteSet(DOMAIN c.map)
  <2>1. IsFiniteSet(ToSet(c.order))
    BY MembersAreFinite DEF Object
  <2> QED BY <2>1, FS_Subset DEF Queued
<1>1. /\ Object(e)
      /\ S \subseteq ToSet(e.order)
      /\ S \subseteq DOMAIN c.map
      /\ \A k \in S : e.map[k] = c.map[k]
      /\ IsFiniteSet(S)
      /\ key \in DOMAIN c.map => S = DOMAIN c.map
      /\ key \notin DOMAIN c.map => Cardinality(S) < MaxEntries
      /\ e.global = c.global /\ e.identity = c.identity
  <2>1. CASE key \in DOMAIN c.map
    BY <1>0, <2>1 DEF Queued
  <2>2. CASE key \notin DOMAIN c.map
    BY <2>2, MakeRoomWorks
  <2> QED BY <2>1, <2>2
<1>2. /\ DOMAIN d = DOMAIN e
      /\ d.map = With(e.map, key, Stamped(c, key, policy))
      /\ d.order = IF key \in DOMAIN c.map THEN e.order ELSE Append(e.order, key)
      /\ d.global = e.global /\ d.identity = e.identity
  <2>1. d = [e EXCEPT !.map = With(@, key, Stamped(c, key, policy)),
                      !.order = IF key \in DOMAIN c.map THEN @ ELSE Append(@, key)]
    BY DEF Put
  <2> HIDE DEF d, e
  <2> QED BY <1>1, <2>1 DEF Object
<1> HIDE DEF e, d
<1>3. /\ DOMAIN d.map = S \cup {key}
      /\ d.map[key] = Stamped(c, key, policy)
      /\ \A k \in S \ {key} : d.map[k] = e.map[k]
  BY <1>2 DEF With
<1>4. /\ d.order \in Seq(PolicyCacheKey)
      /\ ToSet(e.order) \subseteq ToSet(d.order)
      /\ key \in ToSet(d.order)
  <2>1. CASE key \in DOMAIN c.map
    BY <1>1, <1>2, <2>1 DEF Object
  <2>2. CASE key \notin DOMAIN c.map
    <3>1. d.order = Append(e.order, key) /\ e.order \in Seq(PolicyCacheKey)
      BY <1>1, <1>2, <2>2 DEF Object
    <3>2. /\ d.order \in Seq(PolicyCacheKey)
          /\ DOMAIN d.order = 1..(Len(e.order) + 1) /\ DOMAIN e.order = 1..Len(e.order)
          /\ \A i \in 1..Len(e.order) : d.order[i] = e.order[i]
          /\ d.order[Len(e.order) + 1] = key /\ Len(e.order) + 1 \in 1..(Len(e.order) + 1)
      BY <3>1
    <3>3. ASSUME NEW x \in ToSet(e.order) PROVE x \in ToSet(d.order)
      BY <3>2 DEF ToSet
    <3>4. key \in ToSet(d.order)
      BY <3>2 DEF ToSet
    <3> QED BY <3>2, <3>3, <3>4
  <2> QED BY <2>1, <2>2
<1>5. Object(d)
  BY <1>1, <1>2, <1>3, <1>4 DEF Object
<1>6. Cardinality(DOMAIN d.map) <= MaxEntries
  <2>1. CASE key \in DOMAIN c.map
    <3>1. DOMAIN d.map = DOMAIN c.map
      BY <1>1, <1>3, <2>1
    <3> QED BY <3>1 DEF Queued
  <2>2. CASE key \notin DOMAIN c.map
    <3>1. Cardinality(S \cup {key}) = Cardinality(S) + 1 /\ Cardinality(S) \in Nat
      BY <1>1, <2>2, FS_AddElement, FS_CardinalityType
    <3> HIDE DEF S
    <3> QED BY <1>1, <1>3, <2>2, <3>1, CacheAssumption
  <2> QED BY <2>1, <2>2
<1>7. Queued(d)
  BY <1>1, <1>3, <1>4, <1>6 DEF Queued
<1> QED BY <1>1, <1>2, <1>3, <1>5, <1>7 DEF d

(* Get drops at most its key's entry, and only if it is not current.        *)
LEMMA GetWorks ==
    ASSUME NEW c, Object(c), Queued(c), NEW key
    PROVE  LET d == Get(c, key)
           IN  /\ Object(d) /\ Queued(d)
               /\ d.global = c.global /\ d.identity = c.identity
               /\ DOMAIN d.map \subseteq DOMAIN c.map
               /\ \A k \in DOMAIN d.map : d.map[k] = c.map[k]
<1> DEFINE d == Get(c, key)
<1>1. CASE d = c
  BY <1>1
<1>2. CASE d = Drop(c, key)
  <2>1. /\ DOMAIN d = DOMAIN c
        /\ d.map = Without(c.map, {key})
        /\ d.order = c.order /\ d.global = c.global /\ d.identity = c.identity
    <3> HIDE DEF d
    <3> QED BY <1>2 DEF Drop, Object
  <2> HIDE DEF d
  <2>2. /\ DOMAIN d.map = DOMAIN c.map \ {key}
        /\ \A k \in DOMAIN d.map : d.map[k] = c.map[k]
    BY <2>1 DEF Without
  <2>3. Cardinality(DOMAIN d.map) <= MaxEntries
    <3>1. IsFiniteSet(ToSet(c.order))
      BY MembersAreFinite DEF Object
    <3>2. IsFiniteSet(DOMAIN c.map)
      BY <3>1, FS_Subset DEF Queued
    <3>3. /\ Cardinality(DOMAIN d.map) <= Cardinality(DOMAIN c.map)
          /\ Cardinality(DOMAIN d.map) \in Nat /\ Cardinality(DOMAIN c.map) \in Nat
      BY <2>2, <3>2, FS_Subset, FS_CardinalityType
    <3> QED BY <3>3, CacheAssumption DEF Queued
  <2> QED BY <2>1, <2>2, <2>3 DEF Object, Queued, d
<1> QED BY <1>1, <1>2 DEF Get

-----------------------------------------------------------------------------
(* Invariants.                                                             *)

(* What an invalidation does to the cache: it raises one counter and        *)
(* touches neither the map nor the queue.                                   *)
LEMMA InvalidationWorks ==
    ASSUME NEW c, Object(c), NEW whom \in Identities \cup {All},
           NEW d, d = IF whom = All THEN InvalidateAll(c) ELSE Invalidate(c, whom)
    PROVE  /\ Object(d)
           /\ d.map = c.map /\ d.order = c.order
           /\ d.global >= c.global
           /\ \A i \in Identities : d.identity[i] >= c.identity[i]
           /\ \A i \in Covered(whom) \cap Identities :
                 d.global > c.global \/ d.identity[i] > c.identity[i]
           /\ \A i \in Identities \ Covered(whom) :
                 d.global = c.global /\ d.identity[i] = c.identity[i]
<1>1. CASE whom = All
  BY <1>1 DEF InvalidateAll, Object, Covered
<1>2. CASE whom # All
  BY <1>2 DEF Invalidate, Object, Covered
<1> QED BY <1>1, <1>2

(* What an invalidation does to what a thread holds: it marks what it       *)
(* covers, and changes nothing else.                                        *)
LEMMA NoticedWorks ==
    ASSUME NEW th, Holding(th), NEW whom, NEW new, new = Noticed(th, whom)
    PROVE  /\ Holding(new)
           /\ new.pc = th.pc
           /\ th.pc # "idle" => new.key = th.key
           /\ th.pc = "resolved" =>
                 /\ new.policy = th.policy
                 /\ new.overtaken = (th.overtaken \/ th.key.identity \in Covered(whom))
           /\ th.pc = "pinned" =>
                 /\ new.version = th.version
                 /\ new.invalidated = (th.invalidated \/ th.key.identity \in Covered(whom))
<1>1. CASE th.pc = "resolved"
  <2>1. /\ th.key \in PolicyCacheKey /\ th.overtaken \in BOOLEAN
        /\ DOMAIN th = {"pc", "key", "policy", "overtaken"}
    BY <1>1 DEF Holding
  <2>2. CASE th.key.identity \in Covered(whom)
    <3>1. new = [th EXCEPT !.overtaken = TRUE]
      BY <1>1, <2>2 DEF Noticed
    <3> QED BY <1>1, <2>1, <2>2, <3>1 DEF Holding
  <2>3. CASE th.key.identity \notin Covered(whom)
    <3>1. new = th
      BY <1>1, <2>3 DEF Noticed
    <3> QED BY <1>1, <2>1, <2>3, <3>1 DEF Holding
  <2> QED BY <2>2, <2>3
<1>2. CASE th.pc = "pinned"
  <2>1. /\ th.key \in PolicyCacheKey /\ th.invalidated \in BOOLEAN
        /\ DOMAIN th = {"pc", "key", "version", "invalidated"}
    BY <1>2 DEF Holding
  <2>2. CASE th.key.identity \in Covered(whom)
    <3>1. new = [th EXCEPT !.invalidated = TRUE]
      BY <1>2, <2>2 DEF Noticed
    <3> QED BY <1>2, <2>1, <2>2, <3>1 DEF Holding
  <2>3. CASE th.key.identity \notin Covered(whom)
    <3>1. new = th
      BY <1>2, <2>3 DEF Noticed
    <3> QED BY <1>2, <2>1, <2>3, <3>1 DEF Holding
  <2> QED BY <2>2, <2>3
<1>3. CASE th.pc \notin {"resolved", "pinned"}
  BY <1>3 DEF Noticed
<1> QED BY <1>1, <1>2, <1>3

(* The owner is about to invalidate nobody, everybody or one identity.      *)
LEMMA OwnerInvariant == CacheSpec => []OwnerShapes
<1>1. CacheInit => OwnerShapes
  BY DEF CacheInit, OwnerShapes
<1>2. OwnerShapes /\ [CacheNext]_cacheVars => OwnerShapes'
  BY DEF OwnerShapes, CacheNext, cacheVars, GetStep, ResolveStep, PutStep, Release, ChangeLayers, InvalidateStep
<1> QED BY <1>1, <1>2, PTL DEF CacheSpec

(* The cache object is well made and every entry is queued, in every        *)
(* reachable state.                                                        *)
THEOREM QueueInvariant == CacheSpec => []QueueInv
<1>1. CacheInit => QueueInv
  <2> SUFFICES ASSUME CacheInit PROVE QueueInv
    OBVIOUS
  <2>1. cache = EmptyCache /\ DOMAIN cache.map = {}
    BY DEF CacheInit, EmptyCache, EmptyMap
  <2>2. Object(cache)
    BY <2>1 DEF Object, EmptyCache
  <2>3. EveryEntryIsQueued
    BY <2>1, FS_EmptySet, CacheAssumption DEF EveryEntryIsQueued
  <2>4. ThreadShapes
    BY DEF CacheInit, ThreadShapes, Holding, Idle
  <2> QED BY <2>2, <2>3, <2>4 DEF QueueInv
<1>2. QueueInv /\ OwnerShapes /\ [CacheNext]_cacheVars => QueueInv'
  <2> SUFFICES ASSUME QueueInv, OwnerShapes, [CacheNext]_cacheVars
               PROVE  QueueInv'
    OBVIOUS
  <2>0. Object(cache) /\ Queued(cache) /\ ThreadShapes
    BY DEF QueueInv, EveryEntryIsQueued, Queued
  <2>1. ASSUME Object(cache)', Queued(cache)', ThreadShapes' PROVE QueueInv'
    BY <2>1 DEF QueueInv, EveryEntryIsQueued, Queued
  <2>2. ASSUME NEW t \in Readers, NEW new, Holding(new), thread' = [thread EXCEPT ![t] = new]
        PROVE  ThreadShapes'
    BY <2>0, <2>2 DEF ThreadShapes
  <2>3. ASSUME NEW t \in Readers, NEW key \in PolicyCacheKey, GetStep(t, key) PROVE QueueInv'
    <3> DEFINE new == IF Hit(cache, key) THEN Pinned(key, CurrentVersion(cache, key.identity))
                      ELSE Missed(key)
    <3>1. Holding(new)
      BY DEF Holding, Pinned, Missed
    <3>2. thread' = [thread EXCEPT ![t] = new] /\ cache' = Get(cache, key)
      BY <2>3 DEF GetStep
    <3> HIDE DEF new
    <3>3. ThreadShapes'
      BY <2>2, <3>1, <3>2
    <3>4. Object(cache') /\ Queued(cache')
      BY <2>0, <3>2, GetWorks
    <3> QED BY <2>1, <3>3, <3>4
  <2>4. ASSUME NEW t \in Readers, ResolveStep(t) PROVE QueueInv'
    <3> DEFINE new == Resolved(thread[t].key, layers[thread[t].key.identity])
    <3>1. thread[t].key \in PolicyCacheKey
      BY <2>0, <2>4 DEF ResolveStep, ThreadShapes, Holding
    <3>2. Holding(new)
      BY <3>1 DEF Holding, Resolved
    <3>3. thread' = [thread EXCEPT ![t] = new] /\ cache' = cache
      BY <2>0, <2>4 DEF ResolveStep, ThreadShapes
    <3> HIDE DEF new
    <3>4. ThreadShapes'
      BY <2>2, <3>2, <3>3
    <3> QED BY <2>0, <2>1, <3>3, <3>4
  <2>5. ASSUME NEW t \in Readers, PutStep(t) PROVE QueueInv'
    <3>1. thread[t].key \in PolicyCacheKey /\ Holding(Idle)
      BY <2>0, <2>5 DEF PutStep, ThreadShapes, Holding, Idle
    <3>2. /\ cache' = Put(cache, thread[t].key, thread[t].policy)
          /\ thread' = [thread EXCEPT ![t] = Idle]
      BY <2>5 DEF PutStep
    <3>3. Object(cache') /\ Queued(cache')
      BY <2>0, <3>1, <3>2, PutWorks
    <3>4. ThreadShapes'
      BY <2>2, <3>1, <3>2
    <3> QED BY <2>1, <3>3, <3>4
  <2>6. ASSUME NEW t \in Readers, Release(t) PROVE QueueInv'
    <3>1. Holding(Idle)
      BY DEF Holding, Idle
    <3>2. ThreadShapes'
      BY <2>2, <2>6, <3>1 DEF Release
    <3> QED BY <2>0, <2>1, <2>6, <3>2 DEF Release
  <2>7. CASE InvalidateStep
    <3>1. owner \in Identities \cup {All}
      BY <2>7 DEF InvalidateStep, OwnerShapes
    <3>2. Object(cache') /\ cache'.map = cache.map /\ cache'.order = cache.order
      BY <2>0, <2>7, <3>1, InvalidationWorks DEF InvalidateStep
    <3>3. Queued(cache')
      BY <2>0, <3>2 DEF Queued
    <3>4. thread' = [t \in Readers |-> Noticed(thread[t], owner)]
      BY <2>7 DEF InvalidateStep
    <3>5. ThreadShapes'
      BY <2>0, <3>4, NoticedWorks DEF ThreadShapes
    <3> QED BY <2>1, <3>2, <3>3, <3>5
  <2>8. ASSUME UNCHANGED <<cache, thread>> PROVE QueueInv'
    BY <2>8 DEF QueueInv, EveryEntryIsQueued, ThreadShapes
  <2>9. CASE UNCHANGED cacheVars \/ \E whom \in Identities \cup {All} : ChangeLayers(whom)
    BY <2>8, <2>9 DEF cacheVars, ChangeLayers
  <2> QED BY <2>3, <2>4, <2>5, <2>6, <2>7, <2>9 DEF CacheNext
<1> QED BY <1>1, <1>2, OwnerInvariant, PTL DEF CacheSpec

(* Every entry has a slot in the eviction order and the map never outgrows  *)
(* its capacity, whatever Get drops in between: the loop in Put that makes  *)
(* room always finds something to evict.                                    *)
THEOREM EntriesAreQueued == CacheSpec => []EveryEntryIsQueued
<1>1. QueueInv => EveryEntryIsQueued
  BY DEF QueueInv
<1> QED BY <1>1, QueueInvariant, PTL

-----------------------------------------------------------------------------
(* Generations.                                                            *)

(* A version that is not ahead is left behind for good by an invalidation   *)
(* that covers it, and not moved by one that does not.                      *)
LEMMA LeftBehind ==
    ASSUME NEW c, Object(c), NEW whom \in Identities \cup {All},
           NEW d, d = IF whom = All THEN InvalidateAll(c) ELSE Invalidate(c, whom),
           NEW i \in Identities, NEW v, NotAhead(v, c, i)
    PROVE  /\ NotAhead(v, d, i)
           /\ i \in Covered(whom) => v # CurrentVersion(d, i)
           /\ i \notin Covered(whom) => CurrentVersion(d, i) = CurrentVersion(c, i)
<1>1. /\ Object(d)
      /\ d.global >= c.global /\ d.identity[i] >= c.identity[i]
      /\ i \in Covered(whom) => d.global > c.global \/ d.identity[i] > c.identity[i]
      /\ i \notin Covered(whom) => d.global = c.global /\ d.identity[i] = c.identity[i]
  BY InvalidationWorks
<1>2. /\ c.global \in Nat /\ c.identity[i] \in Nat /\ d.global \in Nat /\ d.identity[i] \in Nat
      /\ v.global \in Nat /\ v.identity \in Nat
      /\ v.global <= c.global /\ v.identity <= c.identity[i]
      /\ v \in Version
  BY <1>1 DEF Object, NotAhead, Version
<1>3. NotAhead(v, d, i)
  BY <1>1, <1>2 DEF NotAhead
<1>4. ASSUME i \in Covered(whom) PROVE v # CurrentVersion(d, i)
  <2>1. v.global < d.global \/ v.identity < d.identity[i]
    BY <1>1, <1>2, <1>4
  <2> QED BY <1>2, <2>1 DEF CurrentVersion
<1>5. i \notin Covered(whom) => CurrentVersion(d, i) = CurrentVersion(c, i)
  BY <1>1 DEF CurrentVersion
<1> QED BY <1>3, <1>4, <1>5

(* The current version is not ahead.                                       *)
LEMMA CurrentIsNotAhead ==
    ASSUME NEW c, Object(c), NEW i \in Identities
    PROVE  NotAhead(CurrentVersion(c, i), c, i)
  BY DEF NotAhead, CurrentVersion, Version, Object

(* The generations are exact in every reachable state.                      *)
THEOREM GenerationInvariant == CacheSpec => []GenerationInv
<1>1. CacheInit => GenerationInv
  BY DEF CacheInit, GenerationInv, VersionsInv, GenerationsAreExact, ValidIffUntouched,
         PinTellsInvalidation, EmptyCache, EmptyMap, Idle
<1>2. QueueInv /\ OwnerShapes /\ GenerationInv /\ [CacheNext]_cacheVars => GenerationInv'
  <2> SUFFICES ASSUME QueueInv, OwnerShapes, GenerationInv, [CacheNext]_cacheVars
               PROVE  GenerationInv'
    OBVIOUS
  <2>0. /\ Object(cache) /\ Queued(cache) /\ ThreadShapes
        /\ VersionsInv /\ ValidIffUntouched /\ PinTellsInvalidation
    BY DEF QueueInv, EveryEntryIsQueued, Queued, GenerationInv, GenerationsAreExact
  (* A step that leaves the counters alone: an entry it does not put and a  *)
  (* version that was held before need no more attention.                   *)
  <2>1. ASSUME cache'.global = cache.global, cache'.identity = cache.identity,
               \A k \in DOMAIN cache'.map :
                  \/ /\ k \in PolicyCacheKey /\ k \in untouched'
                     /\ cache'.map[k].version = CurrentVersion(cache, k.identity)
                  \/ /\ k \in DOMAIN cache.map /\ cache'.map[k] = cache.map[k]
                     /\ k \in untouched' <=> k \in untouched,
               \A t \in Readers : thread'[t].pc = "pinned" =>
                  \/ thread'[t] = thread[t]
                  \/ /\ thread'[t].key \in PolicyCacheKey /\ ~thread'[t].invalidated
                     /\ thread'[t].version = CurrentVersion(cache, thread'[t].key.identity)
        PROVE  GenerationInv'
    <3>1. \A i : CurrentVersion(cache', i) = CurrentVersion(cache, i)
      BY <2>1 DEF CurrentVersion
    <3>2. \A v, i : NotAhead(v, cache', i) <=> NotAhead(v, cache, i)
      BY <2>1 DEF NotAhead
    <3>3. \A k \in PolicyCacheKey : NotAhead(CurrentVersion(cache, k.identity), cache, k.identity)
      BY <2>0, CurrentIsNotAhead DEF PolicyCacheKey
    <3>4. ASSUME NEW k \in DOMAIN cache'.map
          PROVE  /\ NotAhead(cache'.map[k].version, cache', k.identity)
                 /\ IsCurrent(cache', k) <=> k \in untouched'
      <4>1. CASE /\ k \in PolicyCacheKey /\ k \in untouched'
                 /\ cache'.map[k].version = CurrentVersion(cache, k.identity)
        BY <3>1, <3>2, <3>3, <4>1 DEF IsCurrent
      <4>2. CASE /\ k \in DOMAIN cache.map /\ cache'.map[k] = cache.map[k]
                 /\ k \in untouched' <=> k \in untouched
        BY <2>0, <3>1, <3>2, <4>2 DEF IsCurrent, VersionsInv, ValidIffUntouched
      <4> QED BY <2>1, <4>1, <4>2
    <3>5. ASSUME NEW t \in Readers, thread'[t].pc = "pinned"
          PROVE  /\ NotAhead(thread'[t].version, cache', thread'[t].key.identity)
                 /\ VersionIsCurrent(cache', thread'[t].version, thread'[t].key.identity)
                        <=> ~thread'[t].invalidated
      <4>1. CASE thread'[t] = thread[t]
        BY <2>0, <3>1, <3>2, <3>5, <4>1 DEF VersionIsCurrent, VersionsInv, PinTellsInvalidation
      <4>2. CASE /\ thread'[t].key \in PolicyCacheKey /\ ~thread'[t].invalidated
                 /\ thread'[t].version = CurrentVersion(cache, thread'[t].key.identity)
        BY <3>1, <3>2, <3>3, <4>2 DEF VersionIsCurrent
      <4> QED BY <2>1, <3>5, <4>1, <4>2
    <3> QED BY <3>4, <3>5 DEF GenerationInv, VersionsInv, GenerationsAreExact,
                              ValidIffUntouched, PinTellsInvalidation
  <2>2. ASSUME NEW t \in Readers, NEW key \in PolicyCacheKey, GetStep(t, key)
        PROVE  GenerationInv'
    <3>1. /\ cache'.global = cache.global /\ cache'.identity = cache.identity
          /\ \A k \in DOMAIN cache'.map : k \in DOMAIN cache.map /\ cache'.map[k] = cache.map[k]
          /\ untouched' = untouched
      BY <2>0, <2>2, GetWorks DEF GetStep
    <3>2. /\ \A u \in Readers \ {t} : thread'[u] = thread[u]
          /\ thread'[t].pc = "pinned" =>
                /\ thread'[t].key \in PolicyCacheKey /\ thread'[t].invalidated = FALSE
                /\ thread'[t].version = CurrentVersion(cache, thread'[t].key.identity)
      BY <2>0, <2>2 DEF GetStep, ThreadShapes, Pinned, Missed
    <3> QED BY <2>1, <3>1, <3>2
  <2>3. ASSUME NEW t \in Readers, ResolveStep(t) PROVE GenerationInv'
    <3>1. /\ \A u \in Readers \ {t} : thread'[u] = thread[u]
          /\ thread'[t].pc = "resolved"
      BY <2>0, <2>3 DEF ResolveStep, ThreadShapes, Resolved
    <3>2. cache' = cache /\ untouched' = untouched
      BY <2>3 DEF ResolveStep
    <3> QED BY <2>1, <3>1, <3>2
  <2>4. ASSUME NEW t \in Readers, PutStep(t) PROVE GenerationInv'
    <3> DEFINE key == thread[t].key
    <3>1. key \in PolicyCacheKey
      BY <2>0, <2>4 DEF PutStep, ThreadShapes, Holding
    <3>2. cache' = Put(cache, key, thread[t].policy) /\ untouched' = untouched \cup {key}
      BY <2>4 DEF PutStep
    <3>3. /\ \A u \in Readers \ {t} : thread'[u] = thread[u]
          /\ thread'[t].pc = "idle"
      BY <2>0, <2>4 DEF PutStep, ThreadShapes, Idle
    <3> HIDE DEF key
    <3>4. /\ cache'.global = cache.global /\ cache'.identity = cache.identity
          /\ cache'.map[key] = Stamped(cache, key, thread[t].policy)
          /\ \A k \in DOMAIN cache'.map \ {key} :
                k \in DOMAIN cache.map /\ cache'.map[k] = cache.map[k]
      BY <2>0, <3>1, <3>2, PutWorks
    <3>5. cache'.map[key].version = CurrentVersion(cache, key.identity)
      BY <3>4 DEF Stamped
    <3> QED BY <2>1, <3>1, <3>2, <3>3, <3>4, <3>5
  <2>5. ASSUME NEW t \in Readers, Release(t) PROVE GenerationInv'
    <3>1. /\ \A u \in Readers \ {t} : thread'[u] = thread[u]
          /\ thread'[t].pc = "idle"
      BY <2>0, <2>5 DEF Release, ThreadShapes, Idle
    <3>2. cache' = cache /\ untouched' = untouched
      BY <2>5 DEF Release
    <3> QED BY <2>1, <3>1, <3>2
  <2>6. CASE InvalidateStep
    <3>1. /\ owner \in Identities \cup {All}
          /\ cache' = IF owner = All THEN InvalidateAll(cache) ELSE Invalidate(cache, owner)
          /\ untouched' = {k \in untouched : k.identity \notin Covered(owner)}
      BY <2>6 DEF InvalidateStep, OwnerShapes
    <3>2. cache'.map = cache.map /\ DOMAIN cache.map \subseteq PolicyCacheKey
      BY <2>0, <3>1, InvalidationWorks DEF Object
    <3>3. ASSUME NEW i \in Identities, NEW v, NotAhead(v, cache, i)
          PROVE  /\ NotAhead(v, cache', i)
                 /\ i \in Covered(owner) => v # CurrentVersion(cache', i)
                 /\ i \notin Covered(owner) => CurrentVersion(cache', i) = CurrentVersion(cache, i)
      BY <2>0, <3>1, <3>3, LeftBehind
    <3>4. ASSUME NEW k \in DOMAIN cache'.map
          PROVE  /\ NotAhead(cache'.map[k].version, cache', k.identity)
                 /\ IsCurrent(cache', k) <=> k \in untouched'
      <4>1. k \in DOMAIN cache.map /\ k.identity \in Identities
        BY <3>2, <3>4 DEF PolicyCacheKey
      <4>2. NotAhead(cache.map[k].version, cache, k.identity) /\ (IsCurrent(cache, k) <=> k \in untouched)
        BY <2>0, <4>1 DEF VersionsInv, ValidIffUntouched
      <4> QED BY <3>1, <3>2, <3>3, <4>1, <4>2 DEF IsCurrent
    <3>5. ASSUME NEW t \in Readers, thread'[t].pc = "pinned"
          PROVE  /\ NotAhead(thread'[t].version, cache', thread'[t].key.identity)
                 /\ VersionIsCurrent(cache', thread'[t].version, thread'[t].key.identity)
                        <=> ~thread'[t].invalidated
      <4>1. thread'[t] = Noticed(thread[t], owner) /\ Holding(thread[t])
        BY <2>0, <2>6 DEF InvalidateStep, ThreadShapes
      <4>2. /\ thread[t].pc = "pinned" /\ thread'[t].key = thread[t].key
            /\ thread'[t].version = thread[t].version
            /\ thread'[t].invalidated
                  = (thread[t].invalidated \/ thread[t].key.identity \in Covered(owner))
        BY <3>5, <4>1, NoticedWorks
      <4>3. thread[t].key \in PolicyCacheKey /\ thread[t].key.identity \in Identities
        BY <4>1, <4>2 DEF Holding, PolicyCacheKey
      <4>4. /\ NotAhead(thread[t].version, cache, thread[t].key.identity)
            /\ VersionIsCurrent(cache, thread[t].version, thread[t].key.identity)
                  <=> ~thread[t].invalidated
        BY <2>0, <4>2 DEF VersionsInv, PinTellsInvalidation
      <4> QED BY <3>3, <4>2, <4>3, <4>4 DEF VersionIsCurrent
    <3> QED BY <3>4, <3>5 DEF GenerationInv, VersionsInv, GenerationsAreExact,
                              ValidIffUntouched, PinTellsInvalidation
  <2>7. ASSUME UNCHANGED <<cache, thread, untouched>> PROVE GenerationInv'
    BY <2>1, <2>7
  <2>8. CASE UNCHANGED cacheVars \/ \E whom \in Identities \cup {All} : ChangeLayers(whom)
    BY <2>7, <2>8 DEF cacheVars, ChangeLayers
  <2> QED BY <2>2, <2>3, <2>4, <2>5, <2>6, <2>8 DEF CacheNext
<1> QED BY <1>1, <1>2, QueueInvariant, OwnerInvariant, PTL DEF CacheSpec

(* The two counters tell exactly what was invalidated, for the entries in   *)
(* the map and the versions that readers hold (InvalidateAll, Invalidate,   *)
(* IsCurrent, VersionIsCurrent).                                            *)
THEOREM GenerationsStayExact == CacheSpec => []GenerationsAreExact
<1>1. GenerationInv => GenerationsAreExact
  BY DEF GenerationInv
<1> QED BY <1>1, GenerationInvariant, PTL

-----------------------------------------------------------------------------
(* Layers.                                                                 *)

(* What is settled agrees with the layers in every reachable state.         *)
THEOREM LayersInvariant == CacheSpec => []LayersInv
<1>1. CacheInit => LayersInv
  BY DEF CacheInit, LayersInv, EmptyCache, EmptyMap, Idle
<1>2. QueueInv /\ OwnerShapes /\ GenerationInv /\ LayersInv /\ [CacheNext]_cacheVars => LayersInv'
  <2> SUFFICES ASSUME QueueInv, OwnerShapes, GenerationInv, LayersInv, [CacheNext]_cacheVars
               PROVE  LayersInv'
    OBVIOUS
  <2>0. /\ Object(cache) /\ Queued(cache) /\ ThreadShapes /\ VersionsInv
        /\ DOMAIN cache.map \subseteq PolicyCacheKey
    BY DEF QueueInv, EveryEntryIsQueued, Queued, GenerationInv, Object
  (* A step of a thread.                                                    *)
  <2>1. ASSUME UNCHANGED <<layers, owner>>,
               cache'.global = cache.global, cache'.identity = cache.identity,
               \A k \in DOMAIN cache'.map :
                  \/ (Settled(k.identity) /\ k \notin overtaken')
                        => cache'.map[k].policy = layers[k.identity]
                  \/ /\ k \in DOMAIN cache.map /\ cache'.map[k] = cache.map[k]
                     /\ k \in overtaken' <=> k \in overtaken,
               \A t \in Readers : thread'[t].pc = "resolved" =>
                  \/ thread'[t] = thread[t]
                  \/ thread'[t].policy = layers[thread'[t].key.identity]
        PROVE  LayersInv'
    <3>1. \A i : CurrentVersion(cache', i) = CurrentVersion(cache, i)
      BY <2>1 DEF CurrentVersion
    <3>2. \A i : Settled(i)' <=> Settled(i)
      BY <2>1 DEF Settled
    <3>3. ASSUME NEW k \in DOMAIN cache'.map, IsCurrent(cache', k), k \notin overtaken',
                 Settled(k.identity)
          PROVE  cache'.map[k].policy = layers[k.identity]
      BY <2>1, <3>1, <3>3 DEF IsCurrent, LayersInv
    <3>4. ASSUME NEW t \in Readers, thread'[t].pc = "resolved", ~thread'[t].overtaken,
                 Settled(thread'[t].key.identity)
          PROVE  thread'[t].policy = layers[thread'[t].key.identity]
      BY <2>1, <3>4 DEF LayersInv
    <3> QED BY <2>1, <3>2, <3>3, <3>4 DEF LayersInv
  <2>2. ASSUME NEW t \in Readers, NEW key \in PolicyCacheKey, GetStep(t, key)
        PROVE  LayersInv'
    <3>1. /\ cache'.global = cache.global /\ cache'.identity = cache.identity
          /\ \A k \in DOMAIN cache'.map : k \in DOMAIN cache.map /\ cache'.map[k] = cache.map[k]
          /\ UNCHANGED <<layers, owner, overtaken>>
      BY <2>0, <2>2, GetWorks DEF GetStep
    <3>2. /\ \A u \in Readers \ {t} : thread'[u] = thread[u]
          /\ thread'[t].pc # "resolved"
      BY <2>0, <2>2 DEF GetStep, ThreadShapes, Pinned, Missed
    <3> QED BY <2>1, <3>1, <3>2
  <2>3. ASSUME NEW t \in Readers, ResolveStep(t) PROVE LayersInv'
    <3>1. /\ \A u \in Readers \ {t} : thread'[u] = thread[u]
          /\ thread'[t].policy = layers[thread'[t].key.identity]
      BY <2>0, <2>3 DEF ResolveStep, ThreadShapes, Resolved
    <3>2. UNCHANGED <<cache, layers, owner, overtaken>>
      BY <2>3 DEF ResolveStep
    <3> QED BY <2>1, <3>1, <3>2
  <2>4. ASSUME NEW t \in Readers, PutStep(t) PROVE LayersInv'
    <3> DEFINE key == thread[t].key
    <3>1. key \in PolicyCacheKey /\ thread[t].pc = "resolved"
      BY <2>0, <2>4 DEF PutStep, ThreadShapes, Holding
    <3>2. /\ cache' = Put(cache, key, thread[t].policy)
          /\ overtaken' = IF thread[t].overtaken THEN overtaken \cup {key} ELSE overtaken \ {key}
          /\ UNCHANGED <<layers, owner>>
      BY <2>4 DEF PutStep
    <3>3. /\ \A u \in Readers \ {t} : thread'[u] = thread[u]
          /\ thread'[t].pc = "idle"
      BY <2>0, <2>4 DEF PutStep, ThreadShapes, Idle
    <3>4. key \notin overtaken' /\ Settled(key.identity) => thread[t].policy = layers[key.identity]
      BY <3>1, <3>2 DEF LayersInv
    <3> HIDE DEF key
    <3>5. /\ cache'.global = cache.global /\ cache'.identity = cache.identity
          /\ cache'.map[key] = Stamped(cache, key, thread[t].policy)
          /\ \A k \in DOMAIN cache'.map \ {key} :
                k \in DOMAIN cache.map /\ cache'.map[k] = cache.map[k]
      BY <2>0, <3>1, <3>2, PutWorks
    <3>6. cache'.map[key].policy = thread[t].policy
      BY <3>5 DEF Stamped
    <3> QED BY <2>1, <3>1, <3>2, <3>3, <3>4, <3>5, <3>6
  <2>5. ASSUME NEW t \in Readers, Release(t) PROVE LayersInv'
    <3>1. /\ \A u \in Readers \ {t} : thread'[u] = thread[u]
          /\ thread'[t].pc = "idle"
      BY <2>0, <2>5 DEF Release, ThreadShapes, Idle
    <3>2. UNCHANGED <<cache, layers, owner, overtaken>>
      BY <2>5 DEF Release
    <3> QED BY <2>1, <3>1, <3>2
  <2>6. ASSUME NEW whom \in Identities \cup {All}, ChangeLayers(whom) PROVE LayersInv'
    <3>1. /\ owner = None /\ owner' = whom /\ whom # None
          /\ UNCHANGED <<cache, thread, overtaken>>
          /\ layers' = [i \in Identities |->
                IF i \in Covered(whom) THEN layers[i] + 1 ELSE layers[i]]
      BY <2>6, ChangesAssumption DEF ChangeLayers, All, None
    <3>2. \A i \in Identities : Settled(i)' => Settled(i) /\ layers'[i] = layers[i]
      BY <3>1 DEF Settled
    <3>3. ASSUME NEW k \in DOMAIN cache.map PROVE k.identity \in Identities
      BY <2>0 DEF PolicyCacheKey
    <3>4. ASSUME NEW t \in Readers, thread[t].pc = "resolved"
          PROVE  thread[t].key.identity \in Identities
      BY <2>0, <3>4 DEF ThreadShapes, Holding, PolicyCacheKey
    <3> QED BY <3>1, <3>2, <3>3, <3>4 DEF LayersInv
  <2>7. CASE InvalidateStep
    <3>1. /\ owner \in Identities \cup {All} /\ owner # None /\ owner' = None
          /\ layers' = layers
          /\ cache' = IF owner = All THEN InvalidateAll(cache) ELSE Invalidate(cache, owner)
          /\ overtaken' = {k \in overtaken : k.identity \notin Covered(owner)}
      BY <2>7 DEF InvalidateStep, OwnerShapes
    <3>2. cache'.map = cache.map
      BY <2>0, <3>1, InvalidationWorks
    <3>3. ASSUME NEW k \in DOMAIN cache.map, IsCurrent(cache', k), k \notin overtaken'
          PROVE  cache'.map[k].policy = layers[k.identity]
      <4>1. k.identity \in Identities /\ NotAhead(cache.map[k].version, cache, k.identity)
        BY <2>0 DEF PolicyCacheKey, VersionsInv
      <4>2. /\ k.identity \notin Covered(owner)
            /\ CurrentVersion(cache', k.identity) = CurrentVersion(cache, k.identity)
        BY <2>0, <3>1, <3>2, <3>3, <4>1, LeftBehind DEF IsCurrent
      <4> QED BY <3>1, <3>2, <3>3, <4>2 DEF IsCurrent, LayersInv, Settled
    <3>4. ASSUME NEW t \in Readers, thread'[t].pc = "resolved", ~thread'[t].overtaken
          PROVE  thread'[t].policy = layers[thread'[t].key.identity]
      <4>1. thread'[t] = Noticed(thread[t], owner) /\ Holding(thread[t])
        BY <2>0, <2>7 DEF InvalidateStep, ThreadShapes
      <4>2. /\ thread[t].pc = "resolved" /\ thread'[t].key = thread[t].key
            /\ thread'[t].policy = thread[t].policy
            /\ thread'[t].overtaken
                  = (thread[t].overtaken \/ thread[t].key.identity \in Covered(owner))
        BY <3>4, <4>1, NoticedWorks
      <4>3. ~thread[t].overtaken /\ thread[t].key.identity \notin Covered(owner)
        BY <3>4, <4>2, Zenon
      <4> QED BY <4>2, <4>3 DEF LayersInv, Settled
    <3> QED BY <3>1, <3>2, <3>3, <3>4 DEF LayersInv
  <2>8. CASE UNCHANGED cacheVars
    BY <2>1, <2>8 DEF cacheVars
  <2> QED BY <2>2, <2>3, <2>4, <2>5, <2>6, <2>7, <2>8 DEF CacheNext
<1> QED BY <1>1, <1>2, QueueInvariant, OwnerInvariant, GenerationInvariant, PTL DEF CacheSpec

(* Between an invalidation and the next change of the layers, what a hit    *)
(* serves was resolved from the layers as they are, except where the        *)
(* invalidation came between the resolution and its Put.                    *)
THEOREM HitsFollowLayers == CacheSpec => []HitsFollowLayersUnlessOvertaken
<1>1. LayersInv => HitsFollowLayersUnlessOvertaken
  BY DEF LayersInv, Settled, HitsFollowLayersUnlessOvertaken
<1> QED BY <1>1, LayersInvariant, PTL

-----------------------------------------------------------------------------
(* The service.                                                            *)

IsMap(f) == f = [k \in DOMAIN f |-> f[k]]

(* Every emitted blob tells the truth about the state of its number.       *)
BlobsAreTrue ==
    \A blob \in sent :
        /\ blob.kind \in {"full", "diff"}
        /\ blob.seq \in DOMAIN emitted
        /\ blob.hash = emitted[blob.seq]
        /\ blob.kind = "diff" =>
              /\ blob.base_seq \in DOMAIN emitted
              /\ Reconstructed(blob, emitted[blob.base_seq]) = blob.hash

(* The base of the next diff was emitted.                                  *)
BaseIsEmitted ==
    /\ IsMap(last.entries)
    /\ last.seq \in DOMAIN emitted
    /\ last.entries = emitted[last.seq]

ChainInv ==
    /\ seq \in Nat
    /\ DOMAIN emitted \subseteq 0..seq
    /\ 0 \in DOMAIN emitted /\ emitted[0] = EmptyMap
    /\ BaseIsEmitted
    /\ BlobsAreTrue
    /\ ReplicaIsExact

(* A thread holds at most one half-finished resolve; a key that two of them *)
(* hold was raced; and the cache already has the policy of one that was not. *)
HalvesAgree ==
    /\ \A t \in Threads : \A q, r \in resolved[t] : q = r
    /\ \A t, u \in Threads : \A q \in resolved[t], r \in resolved[u] :
          t # u /\ q.key = r.key => q.key \in raced
    /\ \A t \in Threads : \A r \in resolved[t] :
          r.key \in DOMAIN cache.map \ raced => cache.map[r.key].policy = r.policy

ResolveInv ==
    /\ {"map", "order", "global", "identity"} = DOMAIN cache
    /\ resolved = [t \in Threads |-> resolved[t]]
    /\ HalvesAgree
    /\ CacheAgreesWithState

-----------------------------------------------------------------------------
(* The codec.                                                              *)

(* A diff, applied to the state it was made from, yields the state it was   *)
(* made for, whatever was added, changed and removed (DiffEntries and       *)
(* ApplySnapshot of snapshot.cc).                                           *)
THEOREM DiffRoundTrip ==
    ASSUME NEW base, NEW entries, IsMap(base), IsMap(entries), NEW s, NEW b
    PROVE  LET blob == EncodeDiffSnapshot(s, b, base, entries)
           IN  /\ Reconstructed(blob, base) = entries
               /\ blob.hash = entries
<1> DEFINE B == DOMAIN base
           E == DOMAIN entries
           D == {k \in E \cap B : entries[k] # base[k]}
           added == [k \in E \ B |-> entries[k]]
           changed == [k \in D |-> entries[k]]
           first == Over(added, base)
           second == Over(changed, first)
           result == Without(second, B \ E)
           blob == EncodeDiffSnapshot(s, b, base, entries)
<1>1. /\ blob.kind = "diff" /\ blob.hash = entries
      /\ blob.added = added /\ blob.changed = changed /\ blob.removed = B \ E
  BY DEF EncodeDiffSnapshot, Only
<1>2. Reconstructed(blob, base) = result
  BY <1>1 DEF Reconstructed
<1>3. /\ DOMAIN first = E \cup B
      /\ \A k \in E \cup B : first[k] = IF k \in E \ B THEN entries[k] ELSE base[k]
  BY DEF Over
<1>4. /\ DOMAIN second = E \cup B
      /\ \A k \in E \cup B : second[k] = IF k \in D THEN entries[k] ELSE first[k]
  <2> HIDE DEF first
  <2> QED BY <1>3 DEF Over
<1>5. /\ DOMAIN result = E
      /\ result = [k \in E |-> second[k]]
  <2>1. (E \cup B) \ (B \ E) = E
    OBVIOUS
  <2> HIDE DEF second, E, B
  <2> QED BY <1>4, <2>1 DEF Without
<1>6. \A k \in E : second[k] = entries[k]
  <2> HIDE DEF first, second
  <2> QED BY <1>3, <1>4
<1>7. result = entries
  <2>1. result = [k \in E |-> entries[k]]
    <3> HIDE DEF second, result
    <3> QED BY <1>5, <1>6
  <2> QED BY <2>1 DEF IsMap
<1> QED BY <1>1, <1>2, <1>7

-----------------------------------------------------------------------------
(* Distribution.                                                           *)

(* A blob of the state, under the next number and whose content is right,   *)
(* leaves the chain in order, whether it is emitted or over the budget.     *)
LEMMA EmitKeepsChain ==
    ASSUME ChainInv, NEW blob,
           seq' = seq + 1, Emit(blob), UNCHANGED replica,
           blob.kind \in {"full", "diff"},
           blob.seq = seq + 1,
           blob.hash = StateEntries,
           blob.kind = "diff" => /\ blob.base_seq = last.seq
                                 /\ Reconstructed(blob, last.entries) = StateEntries
    PROVE  ChainInv'
<1>1. CASE UNCHANGED <<last, sent, emitted>>
  BY <1>1 DEF ChainInv, BaseIsEmitted, BlobsAreTrue, ReplicaIsExact
<1>2. CASE /\ last' = [seq |-> blob.seq, entries |-> StateEntries]
           /\ sent' = sent \cup {blob}
           /\ emitted' = With(emitted, blob.seq, StateEntries)
  <2>1. seq + 1 \notin DOMAIN emitted /\ seq \in Nat
    BY DEF ChainInv
  <2>2. /\ DOMAIN emitted' = DOMAIN emitted \cup {seq + 1}
        /\ emitted'[seq + 1] = StateEntries
        /\ \A s \in DOMAIN emitted : emitted'[s] = emitted[s]
    BY <1>2, <2>1 DEF With
  <2>3. BaseIsEmitted'
    <3>1. IsMap(StateEntries)
      BY DEF StateEntries, IsMap
    <3> QED BY <1>2, <2>2, <3>1 DEF BaseIsEmitted, ChainInv
  <2>4. BlobsAreTrue'
    <3> SUFFICES ASSUME NEW x \in sent'
                 PROVE  /\ x.kind \in {"full", "diff"}
                        /\ x.seq \in DOMAIN emitted'
                        /\ x.hash = emitted'[x.seq]
                        /\ x.kind = "diff" =>
                              /\ x.base_seq \in DOMAIN emitted'
                              /\ Reconstructed(x, emitted'[x.base_seq]) = x.hash
      BY DEF BlobsAreTrue
    <3>1. CASE x \in sent
      BY <2>2, <3>1 DEF ChainInv, BlobsAreTrue
    <3>2. CASE x = blob
      BY <2>2, <3>2 DEF ChainInv, BaseIsEmitted
    <3> QED BY <1>2, <3>1, <3>2
  <2>5. ReplicaIsExact'
    BY <2>2 DEF ChainInv, ReplicaIsExact
  <2> QED BY <2>1, <2>2, <2>3, <2>4, <2>5 DEF ChainInv
<1> QED BY <1>1, <1>2 DEF Emit

(* The chain is in order in every reachable state.                          *)
THEOREM ChainInvariant == Spec => []ChainInv
<1>1. Init => ChainInv
  BY DEF Init, ChainInv, BaseIsEmitted, BlobsAreTrue, ReplicaIsExact, Denying, EmptyMap, IsMap
<1>2. ChainInv /\ [Next]_vars => ChainInv'
  <2> SUFFICES ASSUME ChainInv, [Next]_vars
               PROVE  ChainInv'
    OBVIOUS
  <2> USE DEF resolving, distributing
  <2>1. ASSUME UNCHANGED distributing PROVE ChainInv'
    BY <2>1 DEF ChainInv, BaseIsEmitted, BlobsAreTrue, ReplicaIsExact
  <2>2. ASSUME NEW t \in Threads, NEW key, NEW policy, ResolveJson(t, key, policy)
        PROVE  ChainInv'
    BY <2>1, <2>2 DEF ResolveJson
  <2>3. ASSUME NEW t \in Threads, Accumulate(t) PROVE ChainInv'
    BY <2>1, <2>3 DEF Accumulate
  <2>4. CASE SnapshotFull
    <3> DEFINE blob == EncodeFullSnapshot(seq + 1, StateEntries)
    <3>1. blob.kind = "full" /\ blob.seq = seq + 1 /\ blob.hash = StateEntries
      BY DEF EncodeFullSnapshot
    <3>2. seq' = seq + 1 /\ Emit(blob) /\ UNCHANGED replica
      BY <2>4 DEF SnapshotFull
    <3> HIDE DEF blob
    <3> QED BY <3>1, <3>2, EmitKeepsChain
  <2>5. CASE SnapshotDiff
    <3> DEFINE blob == EncodeDiffSnapshot(seq + 1, last.seq, last.entries, StateEntries)
    <3>1. blob.kind = "diff" /\ blob.seq = seq + 1 /\ blob.hash = StateEntries /\ blob.base_seq = last.seq
      BY DEF EncodeDiffSnapshot
    <3>2. seq' = seq + 1 /\ Emit(blob) /\ UNCHANGED replica
      BY <2>5 DEF SnapshotDiff
    <3>3. Reconstructed(blob, last.entries) = StateEntries
      <4>1. IsMap(StateEntries) /\ IsMap(last.entries)
        BY DEF StateEntries, IsMap, ChainInv, BaseIsEmitted
      <4> QED BY <4>1, DiffRoundTrip
    <3> HIDE DEF blob
    <3> QED BY <3>1, <3>2, <3>3, EmitKeepsChain
  <2>6. ASSUME NEW blob \in sent, Receive(blob) PROVE ChainInv'
    <3>1. ReplicaIsExact'
      <4>1. CASE Applies(blob, replica.entries)
        BY <2>6, <4>1 DEF Receive, Applies, ReplicaIsExact, ChainInv, BlobsAreTrue
      <4>2. CASE ~Applies(blob, replica.entries)
        BY <2>6, <4>2 DEF Receive, ReplicaIsExact, ChainInv, Denying
      <4> QED BY <4>1, <4>2
    <3> QED BY <2>6, <3>1 DEF Receive, ChainInv, BaseIsEmitted, BlobsAreTrue
  <2>7. CASE RestartReplica
    BY <2>7 DEF RestartReplica, ChainInv, BaseIsEmitted, BlobsAreTrue, ReplicaIsExact, Denying
  <2>8. CASE UNCHANGED vars
    BY <2>1, <2>8 DEF vars
  <2> QED BY <2>2, <2>3, <2>4, <2>5, <2>6, <2>7, <2>8 DEF Next
<1> QED BY <1>1, <1>2, PTL DEF Spec

(* Whatever the transport loses, repeats or reorders and however often it   *)
(* restarts, the consumer holds the state the service emitted under the     *)
(* number it holds: the integrity hash makes up for the unchecked base.     *)
THEOREM ReplicaStaysExact == Spec => []ReplicaIsExact
<1>1. ChainInv => ReplicaIsExact
  BY DEF ChainInv
<1> QED BY <1>1, ChainInvariant, PTL

(* Every diff names an emitted base and yields its own state from it, also  *)
(* across blobs that were refused for the budget (SnapshotDiff).            *)
THEOREM ChainIsUnbroken == Spec => []DiffsChain
<1>1. ChainInv => DiffsChain
  BY DEF ChainInv, BlobsAreTrue, DiffsChain, Applies
<1> QED BY <1>1, ChainInvariant, PTL

-----------------------------------------------------------------------------
(* Resolution.                                                             *)

(* A Put stamps its key, and may evict others, but changes none.           *)
LEMMA PutKeepsOthers ==
    ASSUME NEW c, {"map", "order", "global", "identity"} = DOMAIN c,
           NEW key, NEW policy
    PROVE  /\ DOMAIN Put(c, key, policy) = DOMAIN c
           /\ key \in DOMAIN Put(c, key, policy).map
           /\ Put(c, key, policy).map[key].policy = policy
           /\ \A k \in DOMAIN Put(c, key, policy).map :
                 k # key => /\ k \in DOMAIN c.map
                            /\ Put(c, key, policy).map[k] = c.map[k]
<1>1. /\ DOMAIN MakeRoom(c) = DOMAIN c
      /\ DOMAIN MakeRoom(c).map \subseteq DOMAIN c.map
      /\ \A k \in DOMAIN MakeRoom(c).map : MakeRoom(c).map[k] = c.map[k]
  BY DEF MakeRoom, Without
<1> DEFINE d == IF key \in DOMAIN c.map THEN c ELSE MakeRoom(c)
<1>2. /\ DOMAIN d = DOMAIN c
      /\ DOMAIN d.map \subseteq DOMAIN c.map
      /\ \A k \in DOMAIN d.map : d.map[k] = c.map[k]
  BY <1>1
<1> HIDE DEF d
<1>3. /\ DOMAIN Put(c, key, policy) = DOMAIN d
      /\ Put(c, key, policy).map = With(d.map, key, Stamped(c, key, policy))
  BY <1>2 DEF Put, d
<1>4. Stamped(c, key, policy).policy = policy
  BY DEF Stamped
<1> QED BY <1>2, <1>3, <1>4 DEF With

(* The cache and the state agree in every reachable state.                  *)
THEOREM ResolveInvariant == Spec => []ResolveInv
<1>1. Init => ResolveInv
  BY DEF Init, ResolveInv, HalvesAgree, CacheAgreesWithState, EmptyCache, EmptyMap
<1>2. ResolveInv /\ [Next]_vars => ResolveInv'
  <2> SUFFICES ASSUME ResolveInv, [Next]_vars
               PROVE  ResolveInv'
    OBVIOUS
  <2>0. /\ {"map", "order", "global", "identity"} = DOMAIN cache
        /\ resolved = [t \in Threads |-> resolved[t]]
        /\ HalvesAgree /\ CacheAgreesWithState
    BY DEF ResolveInv
  <2>h. \A k : k \in HalfResolved <=> \E t \in Threads : \E r \in resolved[t] : r.key = k
    BY DEF HalfResolved
  <2>g. \A k : k \in HalfResolved' <=> \E t \in Threads : \E r \in resolved'[t] : r.key = k
    BY DEF HalfResolved
  <2>1. ASSUME NEW t \in Threads, NEW key, NEW policy, ResolveJson(t, key, policy)
        PROVE  ResolveInv'
    <3> DEFINE new == [key |-> key, policy |-> policy]
    <3>1. /\ resolved[t] = {} /\ resolved'[t] = {new}
          /\ \A u \in Threads : u # t => resolved'[u] = resolved[u]
          /\ resolved' = [u \in Threads |-> resolved'[u]]
          /\ state' = state
          /\ raced' = IF key \in HalfResolved THEN raced \cup {key} ELSE raced \ {key}
          /\ new.key = key /\ new.policy = policy
      BY <2>0, <2>1 DEF ResolveJson
    <3> HIDE DEF new
    <3>2. /\ DOMAIN cache' = DOMAIN cache
          /\ cache'.map[key].policy = policy
          /\ \A k \in DOMAIN cache'.map :
                k # key => k \in DOMAIN cache.map /\ cache'.map[k] = cache.map[k]
      BY <2>0, <2>1, PutKeepsOthers DEF ResolveJson
    <3>3. /\ key \in HalfResolved'
          /\ \A k \in HalfResolved : k \in HalfResolved'
      BY <2>h, <2>g, <3>1
    <3>4. CacheAgreesWithState'
      BY <2>0, <3>1, <3>2, <3>3 DEF CacheAgreesWithState
    <3>5. HalvesAgree'
      <4>1. \A u \in Threads : \A q, r \in resolved'[u] : q = r
        BY <2>0, <3>1 DEF HalvesAgree
      <4>2. ASSUME NEW u \in Threads, NEW v \in Threads, NEW q \in resolved'[u],
                   NEW r \in resolved'[v], u # v, q.key = r.key
            PROVE  q.key \in raced'
        <5>1. CASE u # t /\ v # t
          <6>1. q.key \in raced /\ q.key \in HalfResolved
            BY <2>0, <2>h, <3>1, <4>2, <5>1 DEF HalvesAgree
          <6> QED BY <3>1, <6>1
        <5>2. CASE u = t
          BY <2>h, <3>1, <4>2, <5>2
        <5>3. CASE v = t
          BY <2>h, <3>1, <4>2, <5>3
        <5> QED BY <5>1, <5>2, <5>3
      <4>3. ASSUME NEW u \in Threads, NEW r \in resolved'[u],
                   r.key \in DOMAIN cache'.map \ raced'
            PROVE  cache'.map[r.key].policy = r.policy
        <5>1. CASE u = t
          BY <3>1, <3>2, <4>3, <5>1
        <5>2. CASE u # t
          <6>1. r \in resolved[u] /\ r.key \in HalfResolved
            BY <2>h, <3>1, <4>3, <5>2
          <6>2. r.key # key /\ r.key \notin raced
            BY <3>1, <4>3, <6>1
          <6> QED BY <2>0, <3>2, <4>3, <6>1, <6>2 DEF HalvesAgree
        <5> QED BY <5>1, <5>2
      <4> QED BY <4>1, <4>2, <4>3 DEF HalvesAgree
    <3> QED BY <2>0, <3>1, <3>2, <3>4, <3>5 DEF ResolveInv
  <2>2. ASSUME NEW t \in Threads, Accumulate(t) PROVE ResolveInv'
    <3>1. PICK r \in resolved[t] : /\ state' = With(state, StateKeyOf(r.key), r)
                                   /\ resolved' = [resolved EXCEPT ![t] = {}]
                                   /\ UNCHANGED <<cache, raced>>
      BY <2>2 DEF Accumulate
    <3>2. /\ resolved'[t] = {}
          /\ \A u \in Threads : u # t => resolved'[u] = resolved[u]
          /\ resolved' = [u \in Threads |-> resolved'[u]]
      BY <2>0, <3>1
    <3>3. HalvesAgree'
      BY <2>0, <3>1, <3>2 DEF HalvesAgree
    <3>4. \A k \in HalfResolved : k = r.key \/ k \in HalfResolved'
      BY <2>0, <2>h, <2>g, <3>2 DEF HalvesAgree
    <3>5. /\ StateKeyOf(r.key) \in DOMAIN state' /\ state'[StateKeyOf(r.key)] = r
          /\ \A s \in DOMAIN state :
                s # StateKeyOf(r.key) => s \in DOMAIN state' /\ state'[s] = state[s]
      BY <3>1 DEF With
    <3>6. CacheAgreesWithState'
      <4> SUFFICES ASSUME NEW k \in DOMAIN cache.map, k \notin raced, k \notin HalfResolved'
                   PROVE  /\ StateKeyOf(k) \in DOMAIN state'
                          /\ state'[StateKeyOf(k)].key = k =>
                                state'[StateKeyOf(k)].policy = cache.map[k].policy
        BY <3>1 DEF CacheAgreesWithState
      <4>1. CASE k = r.key
        BY <2>0, <3>5, <4>1 DEF HalvesAgree
      <4>2. CASE k # r.key /\ StateKeyOf(k) = StateKeyOf(r.key)
        BY <3>5, <4>2
      <4>3. CASE k # r.key /\ StateKeyOf(k) # StateKeyOf(r.key)
        BY <2>0, <3>4, <3>5, <4>3 DEF CacheAgreesWithState
      <4> QED BY <4>1, <4>2, <4>3
    <3> QED BY <2>0, <3>1, <3>2, <3>3, <3>6 DEF ResolveInv
  <2>3. ASSUME UNCHANGED resolving PROVE ResolveInv'
    BY <2>0, <2>h, <2>g, <2>3 DEF resolving, ResolveInv, HalvesAgree, CacheAgreesWithState
  <2>4. CASE SnapshotFull \/ SnapshotDiff \/ RestartReplica \/ \E blob \in sent : Receive(blob)
    BY <2>3, <2>4 DEF SnapshotFull, SnapshotDiff, RestartReplica, Receive
  <2>5. CASE UNCHANGED vars
    BY <2>3, <2>5 DEF vars, resolving
  <2> QED BY <2>1, <2>2, <2>4, <2>5 DEF Next
<1> QED BY <1>1, <1>2, PTL DEF Spec

(* The cache and the accumulated state, written under two locks, agree on   *)
(* every cached key, whatever is evicted, but for a resolve in the middle,  *)
(* for a race that no resolve of the key alone has repaired, and for a key  *)
(* whose entry another one of the same joined names replaced (ResolveJson). *)
THEOREM CacheAndStateAgree == Spec => []CacheAgreesWithState
<1>1. ResolveInv => CacheAgreesWithState
  BY DEF ResolveInv
<1> QED BY <1>1, ResolveInvariant, PTL

-----------------------------------------------------------------------------
(* The authority of overlays and managed policies.                         *)

(* A trust has its place in the ladder, or none.                           *)
LEMMA TierIndexIsSmall ==
    ASSUME NEW trust
    PROVE  TrustTierIndex(trust) \in -1..2
<1>1. Contains(Tiers, trust) => \E i \in 1..3 : Tiers[i] = trust
  BY DEF Contains, Tiers
<1>2. DOMAIN Tiers = 1..3
  BY DEF Tiers
<1> QED BY <1>1, <1>2 DEF TrustTierIndex, IndexIn

(* What a tier switches on, the tiers above it switch on as well.          *)
LEMMA TiersAreStricter ==
    ASSUME NEW t \in -1..2, NEW floor \in 0..2, t >= floor \/ floor = 0,
           NEW ephemeral, NEW fortress, NEW class, NEW f \in Stricter,
           TieredPolicy(floor, FALSE, FALSE, class)[f]
    PROVE  TieredPolicy(t, ephemeral, fortress, class)[f]
<1> DEFINE low == TieredPolicy(floor, FALSE, FALSE, class)
           high == TieredPolicy(t, ephemeral, fortress, class)
<1>1. f \in {"hide_cosmetic", "block_scriptlets", "block_third_party", "dedicated", "letterbox"}
  BY DEF Stricter
<1>2. CASE f \in {"hide_cosmetic", "block_scriptlets", "block_third_party"}
  <2>1. low[f] = (floor >= 1) /\ high[f] = (t >= 1)
    BY <1>2 DEF TieredPolicy
  <2>2. floor >= 1
    BY <2>1, Zenon
  <2>3. t >= 1
    BY <2>2
  <2> QED BY <2>1, <2>3, Zenon
<1>3. CASE f \in {"dedicated", "letterbox"}
  <2>1. low[f] = (floor = 2)
    BY <1>3 DEF TieredPolicy
  <2>2. t = 2 => high["dedicated"] /\ high["letterbox"]
    BY Zenon DEF TieredPolicy
  <2>3. floor = 2
    BY <2>1, Zenon
  <2>4. t = 2
    BY <2>3
  <2> QED BY <1>3, <2>2, <2>4, Zenon
<1> QED BY <1>1, <1>2, <1>3

(* Nothing that is put under a request changes what it says itself.        *)
LEMMA RequestsWin ==
    ASSUME NEW raw, NEW store, NEW managed, NEW m \in DOMAIN raw
    PROVE  LET merged == MergeStoreLayers(raw, store, managed)
           IN  m \in DOMAIN merged /\ merged[m] = raw[m]
BY DEF MergeStoreLayers

(* An enforced managed policy gets into a request that has none.           *)
LEMMA ManagedIsHeard ==
    ASSUME NEW raw, NEW store \in Stores, NEW managed \in Manageds,
           Enforced(managed), "enterprise" \notin DOMAIN raw
    PROVE  /\ Request(raw, store, managed).enterprise = ParseEnterpriseFields(managed.data)
           /\ FitsEnterprise(managed.data)
<1> DEFINE merged == MergeStoreLayers(raw, store, managed)
<1>1. /\ managed.data # Wrong /\ FitsEnterprise(managed.data)
      /\ "enterprise" \notin DOMAIN store
  BY LayersAssumption DEF Enforced, LoadManagedPolicy, Layers
<1>2. "enterprise" \in DOMAIN merged /\ merged["enterprise"] = managed.data
  BY <1>1 DEF MergeStoreLayers
<1> HIDE DEF merged
<1>3. ParseResolveRequest(merged).enterprise = ParseEnterpriseFields(managed.data)
  BY <1>1, <1>2 DEF ParseResolveRequest, Is
<1> QED BY <1>1, <1>3 DEF Request, merged

(* The policy of a request that can be decided is the one of its tier,     *)
(* with what the enterprise forces, under the overlay.                     *)
Tiered(q) ==
    LET id == Identity(q)
    IN  TieredPolicy(TierOf(q), id.ephemeral, id.fortress, q.request_class)
HintedBy(p, e, ext) == [Forced(p, e) EXCEPT !.autofill = @ /\ ~ext]
Hinted(q) == HintedBy(Tiered(q), q.enterprise, q.extension)

LEMMA DecidedPolicy ==
    ASSUME NEW raw, IsDecided(ParseResolveRequest(raw))
    PROVE  LET q == ParseResolveRequest(raw)
           IN  Resolve(q).policy = ApplyPermissionOverlay(q, Hinted(q))
<1> DEFINE q == ParseResolveRequest(raw)
<1>1. q.has_request
  BY DEF ParseResolveRequest
<1> HIDE DEF q
<1>2. q.core_valid /\ ~q.version_mismatch
  BY DEF q, IsDecided
<1> QED BY <1>1, <1>2 DEF Resolve, Hinted, HintedBy, Tiered, q

Members == {"hide_cosmetic", "block_scriptlets", "permissions", "block_third_party", "route",
            "fingerprint", "storage", "in_memory", "autofill", "dedicated", "letterbox"}

Shaped(p) == p = [m \in Members |-> p[m]]
AsStrict(p, low) == \A f \in Stricter : low[f] => p[f]
Obeys(out, p, e) ==
    /\ e.force_letterbox => out.letterbox
    /\ e.force_block_third_party => out.block_third_party
    /\ out.route = IF e.force_route # "" THEN e.force_route ELSE p.route
    /\ out.fingerprint = IF e.force_fingerprint # "" THEN e.force_fingerprint ELSE p.fingerprint

(* What the enterprise forces it forces, and takes nothing back that the   *)
(* tier has switched on.                                                   *)
LEMMA ForcedIsStricter ==
    ASSUME NEW p, Shaped(p), NEW e, NEW ext
    PROVE  LET out == HintedBy(p, e, ext)
           IN  /\ DOMAIN out = Members /\ out.permissions = p.permissions
               /\ AsStrict(out, p)
               /\ e.present => Obeys(out, p, e)
<1> DEFINE forced == Forced(p, e)
           out == HintedBy(p, e, ext)
<1>0. p = [m \in Members |-> p[m]]
  BY DEF Shaped
<1>1. /\ DOMAIN forced = Members
      /\ \A f \in {"hide_cosmetic", "block_scriptlets", "dedicated", "permissions"} : forced[f] = p[f]
      /\ e.present =>
            /\ forced["route"] = IF e.force_route # "" THEN e.force_route ELSE p.route
            /\ forced["fingerprint"] = IF e.force_fingerprint # "" THEN e.force_fingerprint
                                       ELSE p.fingerprint
  BY <1>0 DEF Forced, Members
<1>2. /\ \A f \in {"block_third_party", "letterbox"} : p[f] => forced[f]
      /\ e.present => /\ e.force_letterbox => forced["letterbox"]
                      /\ e.force_block_third_party => forced["block_third_party"]
  <2>1. CASE ~e.present
    BY <2>1 DEF Forced
  <2>2. CASE e.present
    <3>1. forced["letterbox"] = (p["letterbox"] \/ e.force_letterbox)
      BY <1>0, <2>2 DEF Forced, Members
    <3>2. forced["block_third_party"] = (p["block_third_party"] \/ e.force_block_third_party)
      BY <1>0, <2>2 DEF Forced, Members
    <3> HIDE DEF forced
    <3> QED BY <3>1, <3>2, Zenon
  <2> QED BY <2>1, <2>2
<1>3. out = [forced EXCEPT !.autofill = @ /\ ~ext]
  BY DEF HintedBy
<1> HIDE DEF forced, out
<1>6. DOMAIN out = Members /\ \A f \in Members \ {"autofill"} : out[f] = forced[f]
  BY <1>1, <1>3 DEF Members
<1>4. /\ out.permissions = p.permissions
      /\ out.route = forced["route"] /\ out.fingerprint = forced["fingerprint"]
      /\ out.letterbox = forced["letterbox"] /\ out.block_third_party = forced["block_third_party"]
  BY <1>1, <1>6 DEF Members
<1>5. ASSUME NEW f \in Stricter, p[f] PROVE out[f]
  <2>1. f \in Members \ {"autofill"} /\ out[f] = forced[f]
    BY <1>6 DEF Stricter, Members
  <2>2. forced[f]
    BY <1>1, <1>2, <1>5, Zenon DEF Stricter
  <2> QED BY <2>1, <2>2, Zenon
<1>7. e.present => Obeys(out, p, e)
  BY <1>1, <1>2, <1>4, Zenon DEF Obeys
<1>8. AsStrict(out, p)
  BY <1>5 DEF AsStrict
<1> QED BY <1>4, <1>6, <1>7, <1>8 DEF out

(* A tier's policy has these members, and opens no capability.             *)
LEMMA TieredShape ==
    ASSUME NEW t \in Int, NEW ephemeral, NEW fortress, NEW class
    PROVE  LET p == TieredPolicy(t, ephemeral, fortress, class)
           IN  /\ Shaped(p)
               /\ DOMAIN p.permissions = Frozen
               /\ \A c \in Frozen : p.permissions[c] # "kAllow"
BY DEF TieredPolicy, Members, Shaped

(* The rung of the ladder that a request stands on.  Its tier is one of    *)
(* the ladder, no lower than that rung and the enterprise's floor.         *)
Rung(q) ==
    IF q.trust # "" THEN q.trust
    ELSE IF ExceptionOf(q) # <<>> THEN ExceptionOf(q)[1].trust
    ELSE IF BindingOf(q) # <<>> THEN BindingOf(q)[1].trust
    ELSE "kStandard"

LEMMA TierHasFloor ==
    ASSUME NEW q
    PROVE  /\ TierOf(q) \in -1..2
           /\ TierOf(q) >= TrustTierIndex(Rung(q))
           /\ q.enterprise.present => TierOf(q) >= TrustTierIndex(q.enterprise.trust_floor)
<1> DEFINE a == TrustTierIndex(Rung(q))
           b == IF q.enterprise.present THEN TrustTierIndex(q.enterprise.trust_floor) ELSE a
<1>1. a \in -1..2 /\ b \in -1..2
  BY TierIndexIsSmall
<1>2. TierOf(q) = Max({a, b})
  <2> DEFINE all == {a} \cup (IF q.enterprise.present THEN {TrustTierIndex(q.enterprise.trust_floor)} ELSE {})
  <2>1. all = {a, b}
    <3> HIDE DEF a
    <3> QED OBVIOUS
  <2>2. TierOf(q) = Max(all)
    BY Zenon DEF TierOf, Rung
  <2> QED BY <2>1, <2>2
<1>3. q.enterprise.present => b = TrustTierIndex(q.enterprise.trust_floor)
  OBVIOUS
<1> HIDE DEF a, b
<1>4. TierOf(q) \in {a, b} /\ TierOf(q) >= a /\ TierOf(q) >= b
  <2>1. a \in Int /\ b \in Int
    BY <1>1
  <2> QED BY <1>2, <2>1, MaxOfTwo
<1> QED BY <1>1, <1>3, <1>4 DEF a

(* Of several defaults one is the strictest.                               *)
LEMMA StrictestIsOne ==
    ASSUME NEW names, names # {}
    PROVE  Strictest(names) \in names
<1> DEFINE Index(s) == IndexIn(States, s)
           ranks == {Index(s) + 2 : s \in names}
<1>1. \A s : Index(s) \in -1..2
  <2>1. \A s : Contains(States, s) => \E i \in 1..3 : States[i] = s
    BY DEF Contains, States
  <2>2. DOMAIN States = 1..3
    BY DEF States
  <2> QED BY <2>1, <2>2 DEF IndexIn
<1> HIDE DEF Index
<1>2. ranks \in SUBSET Nat /\ ranks # {}
  BY <1>1
<1>3. PICK least \in ranks : \A y \in ranks : least <= y
  BY <1>2, LeastNumber
<1>4. PICK s \in names : Index(s) + 2 = least
  BY <1>3
<1>5. ASSUME NEW r \in names PROVE Index(s) <= Index(r)
  <2>1. Index(r) + 2 \in ranks
    OBVIOUS
  <2>2. Index(s) + 2 <= Index(r) + 2
    BY <1>3, <1>4, <2>1
  <2> QED BY <1>1, <2>2
<1>6. \E x \in names : \A r \in names : IndexIn(States, x) <= IndexIn(States, r)
  BY <1>5 DEF Index
<1> QED BY <1>6 DEF Strictest

(* What opens a capability of a request.                                   *)
OpenedBy(q, c) ==
    \/ \E g \in ToSet(q.overlay.grants) :
          /\ g.capability = c /\ OverlayGrantActive(g, q)
          /\ <<g.identity, g.domain>> = <<q.identity, q.domain>>
    \/ \E d \in ToSet(q.overlay.defaults) :
          /\ d.capability = c /\ d.state = "kAllow" /\ d.identity = q.identity

(* The overlay has the last word on permissions, and touches nothing else. *)
LEMMA OverlayDecides ==
    ASSUME NEW q, NEW p, DOMAIN p = Members, DOMAIN p.permissions = Frozen
    PROVE  LET ov == q.overlay
               out == ApplyPermissionOverlay(q, p)
           IN  /\ \A f \in Members \ {"permissions"} : out[f] = p[f]
               /\ ov.present /\ (ov.corrupt \/ q.identity \in ov.denied)
                     => out.permissions = DenyAll
               /\ \A c \in Frozen : out.permissions[c] = "kAllow" =>
                     p.permissions[c] = "kAllow" \/ OpenedBy(q, c)
<1> DEFINE ov == q.overlay
           out == ApplyPermissionOverlay(q, p)
           Defaults(c) == {d.state : d \in {x \in ToSet(ov.defaults) :
                                              x.identity = q.identity /\ x.capability = c}}
           Granted(c) == \E g \in ToSet(ov.grants) :
                             /\ g.identity = q.identity /\ g.domain = q.domain
                             /\ g.capability = c
                             /\ OverlayGrantActive(g, q)
           Answer(c) == IF ov.corrupt \/ q.identity \in ov.denied THEN "kDeny"
                        ELSE IF Granted(c) THEN "kAllow"
                        ELSE IF Defaults(c) # {} THEN Strictest(Defaults(c))
                        ELSE p.permissions[c]
<1>1. ~ov.present => out = p
  BY DEF ApplyPermissionOverlay
<1>2. ov.present => out = [p EXCEPT !.permissions = [c \in Frozen |-> Answer(c)]]
  BY DEF ApplyPermissionOverlay
<1>3. ASSUME NEW c \in Frozen, Answer(c) = "kAllow"
      PROVE  p.permissions[c] = "kAllow" \/ OpenedBy(q, c)
  <2>1. "kAllow" \in Defaults(c) => OpenedBy(q, c)
    BY DEF OpenedBy
  <2>2. Granted(c) => OpenedBy(q, c)
    BY DEF OpenedBy
  <2> HIDE DEF Defaults, Granted
  <2> QED BY <1>3, <2>1, <2>2, StrictestIsOne
<1>4. ov.corrupt \/ q.identity \in ov.denied => [c \in Frozen |-> Answer(c)] = DenyAll
  BY DEF DenyAll
<1> HIDE DEF out, Answer, Granted, Defaults
<1>5. ov.present => out.permissions = [c \in Frozen |-> Answer(c)]
  BY <1>2 DEF Members
<1>6. \A f \in Members \ {"permissions"} : out[f] = p[f]
  BY <1>1, <1>2
<1>7. ov.present /\ (ov.corrupt \/ q.identity \in ov.denied) => out.permissions = DenyAll
  BY <1>4, <1>5
<1>8. \A c \in Frozen : out.permissions[c] = "kAllow" =>
         p.permissions[c] = "kAllow" \/ OpenedBy(q, c)
  <2>1. ov.present => \A c \in Frozen : out.permissions[c] = Answer(c)
    BY <1>5
  <2>2. ~ov.present => out.permissions = p.permissions
    BY <1>1
  <2> HIDE DEF ov
  <2> QED BY <1>3, <2>1, <2>2, Zenon
<1> QED BY <1>6, <1>7, <1>8, Zenon DEF out

(* The tier's policy with what the enterprise forces: its members, no      *)
(* capability open, nothing laxer than the floor, what is forced forced.   *)
Floor(q) ==
    TieredPolicy(Max({0, TrustTierIndex(q.enterprise.trust_floor)}), FALSE, FALSE, q.request_class)

LEMMA HintedTells ==
    ASSUME NEW q
    PROVE  /\ DOMAIN Hinted(q) = Members /\ DOMAIN Hinted(q).permissions = Frozen
           /\ \A c \in Frozen : Hinted(q).permissions[c] # "kAllow"
           /\ q.enterprise.present => AsStrict(Hinted(q), Floor(q)) /\ Obeys(Hinted(q), Tiered(q), q.enterprise)
<1> DEFINE e == q.enterprise
           t == TierOf(q)
           i == TrustTierIndex(e.trust_floor)
           tiered == Tiered(q)
           hinted == Hinted(q)
<1>1. t \in -1..2 /\ i \in -1..2 /\ (e.present => t >= i)
  BY TierHasFloor, TierIndexIsSmall
<1>2. Shaped(tiered) /\ DOMAIN tiered.permissions = Frozen
      /\ \A c \in Frozen : tiered.permissions[c] # "kAllow"
  BY <1>1, TieredShape DEF Tiered
<1>3. ASSUME e.present PROVE AsStrict(tiered, Floor(q))
  <2> HIDE DEF t, i
  <2>1. Max({0, i}) \in 0..2 /\ (t >= Max({0, i}) \/ Max({0, i}) = 0)
    BY <1>1, <1>3, MaxOfTwo
  <2> QED BY <1>1, <2>1, TiersAreStricter DEF AsStrict, Tiered, Floor, t, i
<1>4. DOMAIN hinted = Members /\ hinted.permissions = tiered.permissions
  BY <1>2, ForcedIsStricter DEF Hinted
<1>5. AsStrict(hinted, tiered)
  BY <1>2, ForcedIsStricter DEF Hinted
<1>6. e.present => Obeys(hinted, tiered, e)
  BY <1>2, ForcedIsStricter DEF Hinted
<1>7. e.present => AsStrict(hinted, Floor(q))
  BY <1>3, <1>5, Zenon DEF AsStrict
<1> QED BY <1>2, <1>4, <1>6, <1>7

-----------------------------------------------------------------------------
(* What the service reads of a store.                                      *)

(* A file that the store accepts and that is not ahead of this build has a *)
(* known version, and all its entries are valid for it (store.cc, Load).   *)
LEMMA LoadedIsValid ==
    ASSUME NEW file, file.version \in Int, Load(file).ok, ~Load(file).future
    PROVE  /\ file.schema \in DOMAIN Known
           /\ file.version \in 1..Known[file.schema]
           /\ Valid(file.schema, file.version, file.entries)
<1>1. file.schema \in DOMAIN Known
  BY DEF Load, Refused
<1>2. Known[file.schema] \in Int
  BY <1>1 DEF Known
<1>3. ~(file.version > Known[file.schema]) /\ ~(file.version < 1)
  BY <1>1 DEF Load, Refused
<1>4. Valid(file.schema, file.version, file.entries)
  BY <1>1, <1>3 DEF Load, Refused
<1> QED BY <1>1, <1>2, <1>3, <1>4

(* What the store asks of an exception, and the type of the members that   *)
(* it does not look at, are all that the parser of the request asks.       *)
LEMMA ValidExceptionFits ==
    ASSUME NEW e, NEW version, ValidException(e, version),
           \A m \in Unchecked : OrAbsent(e, m)
    PROVE  FitsException(e)
<1>1. Is(e, "expires_at") /\ Is(e, "remaining_uses") /\ Is(e, "scope") /\ e["scope"] \in Scopes
  BY DEF ValidException
<1>2. \A m \in {"identity", "created_at", "expires_at", "remaining_uses", "session_id", "granted_by"} :
        OrAbsent(e, m)
  BY <1>1 DEF ValidException, Unchecked, Is, OrAbsent
<1>3. e["scope"] \in DOMAIN Needs => Needs[e["scope"]] \in DOMAIN e
  BY <1>1 DEF ValidException, Needs, Scopes, Is, IsName
<1> QED BY <1>1, <1>2, <1>3 DEF ValidException, FitsException

(* The member that the migration adds is the one that version 2 asks for.  *)
LEMMA MigratedIsValid ==
    ASSUME NEW e, ValidException(e, 1), "granted_by" \notin DOMAIN e
    PROVE  /\ ValidException(GrantedBy(e), 2)
           /\ \A m \in {"created_at", "session_id"} : OrAbsent(e, m) => OrAbsent(GrantedBy(e), m)
           /\ OrAbsent(GrantedBy(e), "granted_by")
           /\ GrantedBy(e)["scope"] = "permanent" => GrantedBy(e)["granted_by"] = "settings"
<1> DEFINE g == GrantedBy(e)
<1>1. /\ DOMAIN g = DOMAIN e \cup {"granted_by"}
      /\ \A m \in DOMAIN e : g[m] = e[m]
  BY DEF GrantedBy, Emplace, Or
<1>2. "scope" \in DOMAIN e
  BY DEF ValidException, Is
<1>3. g["granted_by"] = IF e["scope"] = "permanent" THEN "settings" ELSE "in_flow"
  BY <1>2 DEF GrantedBy, Emplace, Or
<1> HIDE DEF g
<1>4. \A m : m # "granted_by" =>
        /\ Is(g, m) <=> Is(e, m)
        /\ OrAbsent(g, m) <=> OrAbsent(e, m)
        /\ IsName(g, m) <=> IsName(e, m)
        /\ IsTier(g, m) <=> IsTier(e, m)
  BY <1>1 DEF Is, OrAbsent, IsName, IsTier
<1>5. g["scope"] = e["scope"] /\ Is(e, "expires_at") /\ Is(e, "remaining_uses")
  BY <1>1, <1>2 DEF ValidException
<1>6. g["expires_at"] = e["expires_at"] /\ g["remaining_uses"] = e["remaining_uses"]
  BY <1>1, <1>5 DEF Is
<1>7. "granted_by" \in DOMAIN g /\ g["granted_by"] \in {"in_flow", "settings"}
  BY <1>1, <1>3
<1>8. g["granted_by"] # Wrong
  BY <1>3, WrongAssumption
<1>9. Is(g, "granted_by") /\ OrAbsent(g, "granted_by")
  BY <1>7, <1>8 DEF Is, OrAbsent
<1>10. ValidException(g, 2)
  <2>1. /\ IsName(g, "id") /\ IsName(g, "domain") /\ OrAbsent(g, "identity") /\ IsTier(g, "trust")
        /\ Is(g, "scope") /\ Is(g, "expires_at") /\ Is(g, "remaining_uses")
        /\ e["scope"] = "session" => IsName(g, "session_id")
    BY <1>4 DEF ValidException
  <2>2. /\ e["scope"] \in Scopes
        /\ e["scope"] = "7d" => e["expires_at"] > 0
        /\ e["scope"] = "once" => e["remaining_uses"] > 0
    BY DEF ValidException
  <2> QED BY <1>3, <1>5, <1>6, <1>7, <1>9, <2>1, <2>2 DEF ValidException
<1>11. \A m \in {"created_at", "session_id"} : OrAbsent(e, m) => OrAbsent(g, m)
  BY <1>4
<1> QED BY <1>3, <1>5, <1>9, <1>10, <1>11 DEF g

(* A file that the store accepts is enforced whole, whatever the store     *)
(* holds (store.cc, service.cc, resolve_io.cc).                            *)
THEOREM AcceptedFilesAreHeard == StoreIsHeard
<1> SUFFICES ASSUME NEW s \in Stores, NEW l \in DOMAIN s,
                    Load(s[l]).ok, ~Load(s[l]).future, s[l].schema = l,
                    \A e \in ToSet(s[l].entries) : \A m \in Unchecked : OrAbsent(e, m),
                    ~(/\ l = "exceptions" /\ s[l].version = 1
                      /\ \E e \in ToSet(s[l].entries) : "granted_by" \in DOMAIN e)
             PROVE  LET kept == LoadStore(l, s[l])
                    IN  /\ kept # <<>>
                        /\ DOMAIN kept[1] = DOMAIN s[l].entries
                        /\ \A e \in ToSet(kept[1]) :
                              /\ Fits(e, l)
                              /\ l = "exceptions" /\ e["scope"] = "permanent" =>
                                    e["granted_by"] = "settings"
  BY DEF StoreIsHeard
<1> DEFINE file == s[l]
           mig == MigrateToLatest(file)
<1>1. l \in {"identities", "bindings", "exceptions"} /\ file.version \in Int
  BY LayersAssumption DEF Layers
<1>2. file.version \in 1..Known[l] /\ Valid(l, file.version, file.entries)
  BY <1>1, LoadedIsValid
<1>3. ASSUME mig.ok,
             DOMAIN mig.entries = DOMAIN file.entries,
             \A e \in ToSet(mig.entries) :
                /\ Fits(e, l)
                /\ l = "exceptions" /\ e["scope"] = "permanent" => e["granted_by"] = "settings"
      PROVE  LET kept == LoadStore(l, file)
             IN  /\ kept # <<>>
                 /\ DOMAIN kept[1] = DOMAIN file.entries
                 /\ \A e \in ToSet(kept[1]) :
                       /\ Fits(e, l)
                       /\ l = "exceptions" /\ e["scope"] = "permanent" => e["granted_by"] = "settings"
  <2>1. LoadStore(l, file) = <<mig.entries>>
    BY <1>3 DEF LoadStore
  <2> HIDE DEF mig, file
  <2>2. <<mig.entries>> # <<>> /\ <<mig.entries>>[1] = mig.entries
    OBVIOUS
  <2> QED BY <1>3, <2>1, <2>2
<1>4. CASE file.version >= Known[l]
  <2>1. mig = [ok |-> TRUE, entries |-> file.entries]
    BY <1>4 DEF MigrateToLatest
  <2>2. file.version = Known[l]
    BY <1>1, <1>2, <1>4 DEF Known
  <2>3. ASSUME NEW e \in ToSet(file.entries), l = "identities"
        PROVE  Fits(e, l)
    BY <1>2, <2>3 DEF Valid, ValidIdentity, Fits, FitsIdentity
  <2>4. ASSUME NEW e \in ToSet(file.entries), l = "bindings"
        PROVE  Fits(e, l)
    BY <1>2, <2>4 DEF Valid, ValidBinding, Fits, FitsBinding, Unchecked
  <2>5. ASSUME NEW e \in ToSet(file.entries), l = "exceptions"
        PROVE  Fits(e, l) /\ (e["scope"] = "permanent" => e["granted_by"] = "settings")
    <3>1. ValidException(e, 2)
      BY <1>2, <2>2, <2>5 DEF Valid, Known
    <3>2. FitsException(e)
      BY <2>5, <3>1, ValidExceptionFits
    <3> QED BY <2>5, <3>1, <3>2 DEF Fits, ValidException
  <2>6. \A e \in ToSet(file.entries) :
           /\ Fits(e, l)
           /\ l = "exceptions" /\ e["scope"] = "permanent" => e["granted_by"] = "settings"
    BY <1>1, <2>3, <2>4, <2>5, Zenon
  <2> HIDE DEF file, mig
  <2>7. mig.ok /\ mig.entries = file.entries
    BY <2>1
  <2> QED BY <1>3, <2>6, <2>7, Zenon DEF file
<1>5. CASE ~(file.version >= Known[l])
  <2>1. l = "exceptions" /\ file.version = 1
    BY <1>1, <1>2, <1>5 DEF Known
  <2>2. \A e \in ToSet(file.entries) :
           /\ ValidException(e, 1) /\ "granted_by" \notin DOMAIN e
           /\ \A m \in Unchecked : OrAbsent(e, m)
    BY <1>2, <2>1 DEF Valid
  <2> DEFINE entries == [i \in DOMAIN file.entries |-> GrantedBy(file.entries[i])]
  <2>3. mig = [ok |-> Valid(file.schema, 2, entries), entries |-> entries]
    BY <1>5 DEF MigrateToLatest
  <2>4. ASSUME NEW g \in ToSet(entries)
        PROVE  /\ ValidException(g, 2) /\ FitsException(g)
               /\ g["scope"] = "permanent" => g["granted_by"] = "settings"
    <3>1. PICK i \in DOMAIN file.entries : g = GrantedBy(file.entries[i])
      BY DEF ToSet
    <3>2. file.entries[i] \in ToSet(file.entries)
      BY DEF ToSet
    <3>3. /\ ValidException(g, 2) /\ \A m \in Unchecked : OrAbsent(g, m)
          /\ g["scope"] = "permanent" => g["granted_by"] = "settings"
      BY <2>2, <3>1, <3>2, MigratedIsValid DEF Unchecked
    <3> QED BY <3>3, ValidExceptionFits
  <2>5. Valid(file.schema, 2, entries)
    BY <2>1, <2>4 DEF Valid
  <2>6. \A g \in ToSet(entries) : Fits(g, l)
    BY <2>1, <2>4 DEF Fits
  <2> HIDE DEF file, entries, mig
  <2>7. mig.ok /\ mig.entries = entries
    BY <2>3, <2>5
  <2>8. DOMAIN entries = DOMAIN file.entries
    BY DEF entries
  <2> QED BY <1>3, <2>4, <2>6, <2>7, <2>8, Zenon DEF file
<1> QED BY <1>4, <1>5

-----------------------------------------------------------------------------
(* The entries decide, not their order.                                    *)

(* Entries that can be compared, and the one that wins: none is preferred  *)
(* to it, and it is preferred to all before it.                            *)
Comparable(list, at) == \A i \in at : list[i].created_at \in Int /\ TieBreak(list[i]) \in Int
Wins(list, at, i) ==
    /\ i \in at
    /\ \A j \in at : ~Prefer(list[j], list[i]) /\ (j < i => Prefer(list[i], list[j]))

(* No entry is preferred to itself, and of two that differ in age or rank   *)
(* one is.                                                                 *)
LEMMA OneIsPreferred ==
    ASSUME NEW a, NEW b, a.created_at \in Int, TieBreak(a) \in Int,
           b.created_at \in Int, TieBreak(b) \in Int
    PROVE  /\ ~Prefer(a, a)
           /\ \/ Prefer(a, b) \/ Prefer(b, a)
              \/ a.created_at = b.created_at /\ TieBreak(a) = TieBreak(b)
<1> DEFINE x == a.created_at
           y == b.created_at
           s == TieBreak(a)
           t == TieBreak(b)
<1>1. x \in Int /\ y \in Int /\ s \in Int /\ t \in Int
  OBVIOUS
<1>2. /\ Prefer(a, a) = (x > x \/ (x = x /\ s > s))
      /\ Prefer(a, b) = (x > y \/ (x = y /\ s > t))
      /\ Prefer(b, a) = (y > x \/ (y = x /\ t > s))
  BY Zenon DEF Prefer
<1> HIDE DEF x, y, s, t
<1>3. ~(x > x \/ (x = x /\ s > s)) /\ (x > y \/ y > x \/ x = y) /\ (s > t \/ t > s \/ s = t)
  BY <1>1
<1> QED BY <1>2, <1>3, Zenon DEF x, y, s, t

(* Of comparable entries one wins: of the least number of places that had  *)
(* none, the last one would beat the winner of the others, or not.         *)
LEMMA OneWins ==
    ASSUME NEW n \in Nat, NEW at \in SUBSET (1..n), at # {}, NEW list, Comparable(list, at)
    PROVE  \E i \in at : Wins(list, at, i)
<1> DEFINE upto(k) == {i \in at : i <= k}
           none == {k \in 0..n : upto(k) # {} /\ ~\E i \in upto(k) : Wins(list, upto(k), i)}
<1>1. ASSUME none # {} PROVE FALSE
  <2> DEFINE k == Min(none)
  <2>0. none \in SUBSET Nat
    OBVIOUS
  <2>1. k \in none /\ \A m \in none : k <= m
    <3> HIDE DEF none
    <3> QED BY <1>1, <2>0, LeastNumber
  <2> HIDE DEF k
  <2>2. k \in 1..n /\ k - 1 \in 0..n /\ k - 1 \notin none
    <3>0. \A i \in at : i \in Int /\ i >= 1
      OBVIOUS
    <3>1. upto(0) = {}
      <4> SUFFICES ASSUME NEW i \in at, i <= 0 PROVE FALSE
        OBVIOUS
      <4> QED BY <3>0
    <3>2. none \subseteq (0..n) \ {0}
      <4> HIDE DEF upto
      <4> QED BY <3>1
    <3> HIDE DEF none
    <3>3. k \in 1..n /\ k - 1 \in 0..n /\ ~(k <= k - 1)
      BY <2>1, <3>2
    <3> QED BY <2>1, <3>3
  <2>3. ~\E i \in upto(k) : Wins(list, upto(k), i)
    BY <2>1
  <2>4. upto(k - 1) # {} => \E i \in upto(k - 1) : Wins(list, upto(k - 1), i)
    BY <2>2
  <2>5. upto(k) = upto(k - 1) \cup {k} /\ k \in at
    <3>1. /\ \A i \in upto(k) : i \in upto(k - 1) \/ i = k
          /\ \A i \in upto(k - 1) : i \in upto(k)
          /\ k \in upto(k) <=> k \in at
      BY <2>2
    <3>2. upto(k) # {}
      BY <2>1
    <3> HIDE DEF upto
    <3>3. k \notin at => upto(k) = upto(k - 1)
      BY <3>1
    <3>4. k \in at
      BY <2>3, <2>4, <3>2, <3>3
    <3> QED BY <3>1, <3>4
  <2>6. \A i \in upto(k - 1) : i \in at /\ i < k /\ i \in Int
    BY <2>2
  <2> HIDE DEF upto, none
  <2>7. CASE upto(k - 1) = {}
    <3>1. ~Prefer(list[k], list[k])
      BY <2>5, OneIsPreferred DEF Comparable
    <3>2. upto(k) = {k}
      BY <2>5, <2>7
    <3>3. Wins(list, upto(k), k)
      BY <2>2, <3>1, <3>2 DEF Wins
    <3> QED BY <2>3, <3>2, <3>3
  <2>8. CASE upto(k - 1) # {}
    <3>1. PICK i \in upto(k - 1) : Wins(list, upto(k - 1), i)
      BY <2>4, <2>8
    <3>2. i \in at /\ i < k /\ i \in Int
      BY <2>6
    <3>3. CASE Prefer(list[k], list[i])
      <4>1. ASSUME NEW j \in upto(k)
            PROVE  ~Prefer(list[j], list[k]) /\ (j < k => Prefer(list[k], list[j]))
        <5>1. j \in at /\ (j = k \/ j \in upto(k - 1))
          BY <2>5, <2>6
        <5>2. j \in upto(k - 1) => ~Prefer(list[j], list[i])
          BY <3>1 DEF Wins
        <5> QED BY <2>2, <2>5, <3>2, <3>3, <5>1, <5>2 DEF Prefer, Comparable
      <4>2. Wins(list, upto(k), k)
        BY <2>5, <4>1 DEF Wins
      <4> QED BY <2>3, <2>5, <4>2
    <3>4. CASE ~Prefer(list[k], list[i])
      <4>1. ASSUME NEW j \in upto(k)
            PROVE  ~Prefer(list[j], list[i]) /\ (j < i => Prefer(list[i], list[j]))
        <5>1. j = k \/ j \in upto(k - 1)
          BY <2>5
        <5> QED BY <2>2, <3>1, <3>2, <3>4, <5>1 DEF Wins
      <4>2. Wins(list, upto(k), i)
        BY <2>5, <3>1, <4>1 DEF Wins
      <4> QED BY <2>3, <2>5, <3>1, <4>2
    <3> QED BY <3>3, <3>4
  <2> QED BY <2>7, <2>8
<1>2. upto(n) = at
  <2>1. \A i \in at : i \in upto(n)
    OBVIOUS
  <2>2. upto(n) \subseteq at
    OBVIOUS
  <2> HIDE DEF upto
  <2> QED BY <2>1, <2>2
<1>3. n \notin none
  BY <1>1
<1>4. n \in 0..n /\ (upto(n) = {} \/ \E i \in upto(n) : Wins(list, upto(n), i))
  BY <1>3
<1> HIDE DEF upto
<1> QED BY <1>2, <1>4

(* The winner is the one that wins.                                        *)
LEMMA WinnerWins ==
    ASSUME NEW n \in Nat, NEW at \in SUBSET (1..n), at # {}, NEW list, Comparable(list, at)
    PROVE  \E i \in at : Wins(list, at, i) /\ Winner(list, at) = <<list[i]>>
<1> DEFINE w == CHOOSE i \in at : Wins(list, at, i)
<1>1. w \in at /\ Wins(list, at, w)
  BY OneWins
<1>2. w = CHOOSE i \in at : \A j \in at : ~Prefer(list[j], list[i]) /\ (j < i => Prefer(list[i], list[j]))
  BY Zenon DEF Wins
<1>3. Winner(list, at) = <<list[w]>>
  BY <1>2 DEF Winner
<1> QED BY <1>1, <1>3

(* Lists of the same entries have the same winner, wherever these are, if  *)
(* entries of the same age and rank are the same.                          *)
SameEntries(list, at, reordered, other) ==
    /\ \A j \in other : \E i \in at : list[i] = reordered[j]
    /\ \A i \in at : \E j \in other : reordered[j] = list[i]
ToldApart(list, at) ==
    \A i, j \in at : /\ list[i].created_at = list[j].created_at
                     /\ TieBreak(list[i]) = TieBreak(list[j])
                     => list[i] = list[j]

(* So it is the same one in whatever order they stand.                     *)
LEMMA SameWinner ==
    ASSUME NEW n \in Nat, NEW at \in SUBSET (1..n), NEW list, Comparable(list, at),
           NEW m \in Nat, NEW other \in SUBSET (1..m), NEW reordered,
           SameEntries(list, at, reordered, other), ToldApart(list, at)
    PROVE  Winner(reordered, other) = Winner(list, at)
<1>1. CASE at = {}
  <2>1. other = {}
    BY <1>1 DEF SameEntries
  <2> QED BY <1>1, <2>1 DEF Winner
<1>2. CASE at # {}
  <2>1. Comparable(reordered, other) /\ other # {}
    BY <1>2, Zenon DEF Comparable, SameEntries
  <2>2. PICK i \in at : Wins(list, at, i) /\ Winner(list, at) = <<list[i]>>
    BY <1>2, WinnerWins
  <2>3. PICK j \in other : Wins(reordered, other, j) /\ Winner(reordered, other) = <<reordered[j]>>
    BY <2>1, WinnerWins
  <2>4. PICK k \in at : list[k] = reordered[j]
    BY DEF SameEntries
  <2>5. PICK l \in other : reordered[l] = list[i]
    BY DEF SameEntries
  <2>6. ~Prefer(list[k], list[i]) /\ ~Prefer(list[i], list[k])
    BY <2>2, <2>3, <2>4, <2>5 DEF Wins
  <2>7. /\ list[i].created_at \in Int /\ TieBreak(list[i]) \in Int
        /\ list[k].created_at \in Int /\ TieBreak(list[k]) \in Int
    BY DEF Comparable
  <2>8. list[i].created_at = list[k].created_at /\ TieBreak(list[i]) = TieBreak(list[k])
    BY <2>6, <2>7, OneIsPreferred
  <2>9. list[i] = list[k]
    BY <2>8 DEF ToldApart
  <2> QED BY <2>2, <2>3, <2>4, <2>9
<1> QED BY <1>1, <1>2

-----------------------------------------------------------------------------
(* A parsed request.                                                       *)

(* What is read from the store, migrated or not, has its types, and so has *)
(* a request with the stored layers under it.                              *)
LEMMA StoredEntries ==
    ASSUME NEW file, Entries(file.entries), NEW l, LoadStore(l, file) # <<>>
    PROVE  Entries(LoadStore(l, file)[1])
<1> DEFINE old == file.entries
           new == [i \in DOMAIN old |-> GrantedBy(old[i])]
           mig == MigrateToLatest(file)
<1>1. LoadStore(l, file) = <<mig.entries>>
  BY DEF LoadStore
<1>2. mig.entries \in {old, new}
  BY DEF MigrateToLatest
<1>3. Entries(new)
  <2>1. IsSeq(old)
    BY DEF Entries, IsSeq
  <2>2. Len(old) \in Nat /\ DOMAIN old = 1..Len(old)
    BY <2>1, SeqShape
  <2>3. DOMAIN new = 1..Len(old) /\ \A i \in 1..Len(old) : new[i] = GrantedBy(old[i])
    BY <2>2
  <2>4. \A i \in 1..Len(old) : Numbers(old[i])
    BY <2>2 DEF Entries, ToSet
  <2>5. ASSUME NEW e, Numbers(e) PROVE Numbers(GrantedBy(e))
    <3>1. \A m : m # "granted_by" =>
             /\ m \in DOMAIN GrantedBy(e) <=> m \in DOMAIN e
             /\ m \in DOMAIN e => GrantedBy(e)[m] = e[m]
      BY DEF GrantedBy, Emplace, Or
    <3>2. \A m : m # "granted_by" =>
             (Is(GrantedBy(e), m) => Is(e, m) /\ GrantedBy(e)[m] = e[m])
      BY <3>1 DEF Is
    <3> QED BY <2>5, <3>2 DEF Numbers
  <2>6. IsSeq(new)
    BY <2>2, <2>3, FunctionIsSeq
  <2> HIDE DEF new, old
  <2>7. \A e \in ToSet(new) : Numbers(e)
    BY <2>3, <2>4, <2>5 DEF ToSet
  <2> QED BY <2>6, <2>7 DEF Entries, IsSeq
<1> HIDE DEF old, new, mig
<1>4. LoadStore(l, file)[1] \in {old, new}
  BY <1>1, <1>2
<1> QED BY <1>3, <1>4 DEF old

(* A request with the stored layers put under it is one the assumption on  *)
(* requests covers (service.cc: MergeStoreLayers).                         *)
LEMMA MergedIsTyped ==
    ASSUME NEW raw \in Raws, NEW store \in Stores, NEW managed \in Manageds
    PROVE  Typed(MergeStoreLayers(raw, store, managed))
<1> DEFINE merged == MergeStoreLayers(raw, store, managed)
<1>1. Typed(raw)
  BY RequestsAssumption
<1>2. /\ DOMAIN store = Layers
      /\ \A l \in Layers : Entries(store[l].entries)
  BY LayersAssumption
<1>3. \A m \in DOMAIN merged :
         \/ m \in DOMAIN raw /\ merged[m] = raw[m]
         \/ m \in Layers /\ LoadStore(m, store[m]) # <<>> /\ merged[m] = LoadStore(m, store[m])[1]
         \/ m = "enterprise" /\ Enforced(managed) /\ merged[m] = managed.data
  BY <1>2 DEF MergeStoreLayers
<1> HIDE DEF merged
<1>4. ASSUME NEW l \in Layers, Is(merged, l) PROVE Entries(merged[l])
  <2>1. CASE l \in DOMAIN raw /\ merged[l] = raw[l]
    BY <1>1, <1>4, <2>1 DEF Typed, Is
  <2>2. CASE l \in Layers /\ LoadStore(l, store[l]) # <<>> /\ merged[l] = LoadStore(l, store[l])[1]
    BY <1>2, <2>2, StoredEntries
  <2>3. l # "enterprise"
    BY DEF Layers
  <2> QED BY <1>3, <1>4, <2>1, <2>2, <2>3 DEF Is
<1>5. Is(merged, "identity") => merged["identity"] \in Nat
  BY <1>1, <1>3 DEF Typed, Is, Layers
<1> QED BY <1>4, <1>5 DEF Typed, merged

(* The entries of a layer that are kept, and what they are read as, can be *)
(* compared, and have a tier.                                              *)
LEMMA KeptEntries ==
    ASSUME NEW raw, Typed(raw), NEW l \in Layers, NEW at \in SUBSET DOMAIN Layer(raw, l)
    PROVE  LET kept == Keep(Layer(raw, l), at)
           IN  /\ Len(kept) \in Nat /\ DOMAIN kept = 1..Len(kept)
               /\ \A k \in DOMAIN kept : /\ Nth(k, at) \in at
                                         /\ kept[k] = Layer(raw, l)[Nth(k, at)]
                                         /\ Numbers(kept[k])
<1> DEFINE s == Layer(raw, l)
           kept == Keep(s, at)
<1>1. IsSeq(s) /\ \A i \in DOMAIN s : Numbers(s[i])
  <2>1. CASE Is(raw, l)
    BY <2>1 DEF Typed, Entries, IsSeq, Layer, ToSet
  <2>2. CASE ~Is(raw, l)
    <3>1. s = <<>>
      BY <2>2 DEF Layer
    <3>2. DOMAIN s = 1..0 /\ s = [i \in 1..0 |-> s[i]]
      BY <3>1
    <3> HIDE DEF s
    <3>3. IsSeq(s)
      BY <3>2, FunctionIsSeq
    <3> QED BY <3>2, <3>3
  <2> QED BY <2>1, <2>2
<1> HIDE DEF s
<1>2. /\ IsSeq(kept)
      /\ \A k \in DOMAIN kept : Nth(k, at) \in at /\ kept[k] = s[Nth(k, at)]
  BY <1>1, KeptMembers DEF s
<1>3. Len(kept) \in Nat /\ DOMAIN kept = 1..Len(kept)
  BY <1>2, SeqShape
<1> HIDE DEF kept
<1>4. \A k \in DOMAIN kept : Numbers(kept[k])
  BY <1>1, <1>2 DEF s
<1> QED BY <1>2, <1>3, <1>4 DEF s, kept

Parsed(list) ==
    /\ IsSeq(list)
    /\ \A i \in DOMAIN list :
          /\ list[i].created_at \in Int /\ TieBreak(list[i]) \in Int
          /\ TrustTierIndex(list[i].trust) \in 0..2

(* The bindings of a request can be compared, and have a tier.             *)
LEMMA ParsedBindings ==
    ASSUME NEW raw, Typed(raw)
    PROVE  /\ Parsed(ParseBindings(raw))
           /\ \A i \in DOMAIN ParseBindings(raw) : TieBreak(ParseBindings(raw)[i]) = ParseBindings(raw)[i].identity
<1> DEFINE s == Layer(raw, "bindings")
           at == {i \in DOMAIN s : FitsBinding(s[i])}
           kept == Keep(s, at)
           out == ParseBindings(raw)
<1>1. /\ Len(kept) \in Nat /\ DOMAIN kept = 1..Len(kept)
      /\ \A k \in DOMAIN kept : Nth(k, at) \in at /\ kept[k] = s[Nth(k, at)] /\ Numbers(kept[k])
  <2>1. at \in SUBSET DOMAIN s /\ "bindings" \in Layers
    BY DEF Layers
  <2> HIDE DEF at
  <2> QED BY <2>1, KeptEntries
<1>2. \A k \in DOMAIN kept : FitsBinding(kept[k])
  BY <1>1
<1>3. out = [i \in DOMAIN kept |-> ParseBinding(kept[i])]
  BY DEF ParseBindings, Map, Filtered
<1> HIDE DEF kept, out
<1>4. IsSeq(out)
  BY <1>1, <1>3, FunctionIsSeq
<1>5. ASSUME NEW i \in DOMAIN out
      PROVE  /\ out[i].created_at \in Int /\ out[i].identity \in Int
             /\ TieBreak(out[i]) = out[i].identity
             /\ TrustTierIndex(out[i].trust) \in 0..2
  <2> DEFINE e == kept[i]
  <2>1. out[i] = ParseBinding(e) /\ FitsBinding(e) /\ Numbers(e)
    BY <1>1, <1>2, <1>3
  <2> HIDE DEF e
  <2>2. /\ Or(e, "created_at", 0) \in Int /\ Or(e, "identity", 0) \in Int
    BY <2>1 DEF FitsBinding, Numbers, OrAbsent, Or, Is
  <2>3. TrustTierIndex(e["trust"]) \in 0..2
    BY <2>1, TierIndexIsSmall DEF FitsBinding, IsTier
  <2> QED BY <2>1, <2>2, <2>3 DEF ParseBinding, TieBreak
<1> QED BY <1>4, <1>5 DEF Parsed, out

(* So can its exceptions, and they have one.                               *)
LEMMA ParsedExceptions ==
    ASSUME NEW raw, Typed(raw)
    PROVE  /\ Parsed(ParseExceptions(raw))
           /\ \A i \in DOMAIN ParseExceptions(raw) : TieBreak(ParseExceptions(raw)[i]) = ParseExceptions(raw)[i].id
<1> DEFINE s == Layer(raw, "exceptions")
           at == {i \in DOMAIN s : FitsException(s[i])}
           kept == Keep(s, at)
           out == ParseExceptions(raw)
<1>1. /\ Len(kept) \in Nat /\ DOMAIN kept = 1..Len(kept)
      /\ \A k \in DOMAIN kept : Nth(k, at) \in at /\ kept[k] = s[Nth(k, at)] /\ Numbers(kept[k])
  <2>1. at \in SUBSET DOMAIN s /\ "exceptions" \in Layers
    BY DEF Layers
  <2> HIDE DEF at
  <2> QED BY <2>1, KeptEntries
<1>2. \A k \in DOMAIN kept : FitsException(kept[k])
  BY <1>1
<1>3. out = [i \in DOMAIN kept |-> ParseException(kept[i])]
  BY DEF ParseExceptions, Map, Filtered
<1> HIDE DEF kept, out
<1>4. IsSeq(out)
  BY <1>1, <1>3, FunctionIsSeq
<1>5. ASSUME NEW i \in DOMAIN out
      PROVE  /\ out[i].created_at \in Int /\ out[i].id \in Int
             /\ TieBreak(out[i]) = out[i].id
             /\ TrustTierIndex(out[i].trust) \in 0..2
  <2> DEFINE e == kept[i]
             x == out[i]
  <2>1. x = ParseException(e) /\ FitsException(e) /\ Numbers(e)
    BY <1>1, <1>2, <1>3
  <2> HIDE DEF e, x
  <2>2. /\ Or(e, "created_at", 0) \in Int /\ e["id"] \in Int
    BY <2>1 DEF FitsException, Numbers, OrAbsent, Or, Is, IsName
  <2>3. TrustTierIndex(e["trust"]) \in 0..2
    BY <2>1, TierIndexIsSmall DEF FitsException, IsTier
  <2>4. /\ "id" \in DOMAIN x /\ x.id = e["id"] /\ x.trust = e["trust"]
        /\ x.created_at = Or(e, "created_at", 0)
    BY <2>1 DEF ParseException
  <2> QED BY <2>2, <2>3, <2>4 DEF TieBreak, x
<1> QED BY <1>4, <1>5 DEF Parsed, out

(* A decided request: its lists can be compared, and its identity has a    *)
(* name.                                                                   *)
LEMMA DecidedRequest ==
    ASSUME NEW raw, Typed(raw), IsDecided(ParseResolveRequest(raw))
    PROVE  LET q == ParseResolveRequest(raw)
           IN  /\ Parsed(q.exceptions)
               /\ \A i \in DOMAIN q.exceptions : TieBreak(q.exceptions[i]) = q.exceptions[i].id
               /\ Parsed(q.bindings)
               /\ \A i \in DOMAIN q.bindings : TieBreak(q.bindings[i]) = q.bindings[i].identity
               /\ q.identity \in Nat /\ q.identity > 0
               /\ q.trust \in ToSet(Tiers) \cup {""}
<1> DEFINE q == ParseResolveRequest(raw)
           named == Filtered(Layer(raw, "identities"), FitsIdentity)
           own == Map(named, ParseIdentityInfo)
<1>1. /\ q.exceptions = ParseExceptions(raw) /\ q.bindings = ParseBindings(raw)
      /\ q.trust \in ToSet(Tiers) \cup {""}
      /\ Is(raw, "identity") => q.identity = raw["identity"]
      /\ q.core_valid => Is(raw, "identity") /\ \E i \in ToSet(ParseIdentities(raw)) : i.value = raw["identity"]
  BY DEF ParseResolveRequest
<1> HIDE DEF q
<1>2. q.core_valid
  BY DEF IsDecided, q
<1>3. \A i \in ToSet(DefaultIdentities) : i.value # 0
  BY DEF DefaultIdentities, ToSet
<1>4. \A i \in ToSet(own) : i.value # 0
  <2> DEFINE at == {i \in DOMAIN Layer(raw, "identities") : FitsIdentity(Layer(raw, "identities")[i])}
  <2>1. at \in SUBSET DOMAIN Layer(raw, "identities") /\ "identities" \in Layers
    BY DEF Layers
  <2>2. \A i \in at : FitsIdentity(Layer(raw, "identities")[i])
    OBVIOUS
  <2>3. named = Keep(Layer(raw, "identities"), at)
    BY DEF Filtered
  <2> HIDE DEF at, named
  <2>4. \A k \in DOMAIN named : FitsIdentity(named[k])
    BY <2>1, <2>2, <2>3, KeptEntries
  <2>5. \A k \in DOMAIN named : own[k].value # 0
    BY <2>4 DEF Map, ParseIdentityInfo, FitsIdentity, IsName
  <2>6. DOMAIN own = DOMAIN named
    BY DEF Map
  <2> HIDE DEF own
  <2> QED BY <2>5, <2>6 DEF ToSet
<1>5. ParseIdentities(raw) \in {own, DefaultIdentities}
  BY DEF ParseIdentities
<1> HIDE DEF own
<1>6. q.identity \in Nat /\ q.identity # 0
  BY <1>1, <1>2, <1>3, <1>4, <1>5 DEF Typed
<1>7. q.identity > 0
  BY <1>6
<1> QED BY <1>1, <1>6, <1>7, ParsedBindings, ParsedExceptions DEF q

(* Requests that differ only in their trust, exceptions and bindings, and  *)
(* have the same tier, have the same answer.                               *)
Others == {"has_request", "version_mismatch", "core_valid", "identity", "domain", "request_class",
           "identities", "enterprise", "extension", "now_ms", "session_id", "overlay"}
AsAsked(r, q) == \A f \in Others : r[f] = q[f]

(* The overlay reads nothing of a request but what these members say.      *)
LEMMA OverlayFollows ==
    ASSUME NEW q, NEW r, AsAsked(r, q), NEW p
    PROVE  ApplyPermissionOverlay(r, p) = ApplyPermissionOverlay(q, p)
<1>1. /\ r.overlay = q.overlay /\ r.identity = q.identity /\ r.domain = q.domain
      /\ r.session_id = q.session_id /\ r.now_ms = q.now_ms
  BY DEF AsAsked, Others
<1> QED BY <1>1 DEF ApplyPermissionOverlay, OverlayGrantActive, Active

(* And the answer reads nothing else but the tier.                         *)
LEMMA AnswerFollows ==
    ASSUME NEW q, NEW r, AsAsked(r, q), TierOf(r) = TierOf(q)
    PROVE  Resolve(r) = Resolve(q)
<1>1. /\ r.has_request = q.has_request /\ r.version_mismatch = q.version_mismatch
      /\ r.core_valid = q.core_valid /\ r.identity = q.identity /\ r.identities = q.identities
      /\ r.request_class = q.request_class /\ r.enterprise = q.enterprise
      /\ r.extension = q.extension
  BY DEF AsAsked, Others
<1>2. Identity(r) = Identity(q)
  BY <1>1 DEF Identity
<1>3. \A p : ApplyPermissionOverlay(r, p) = ApplyPermissionOverlay(q, p)
  BY OverlayFollows
<1> QED BY <1>1, <1>2, <1>3 DEF Resolve

(* The entries of a list that decide: as many, in any order, and whatever  *)
(* else is in the list, have the same winner.                              *)
LEMMA ReorderedList ==
    ASSUME NEW list, Parsed(list), NEW at \in SUBSET DOMAIN list,
           NEW reordered, IsSeq(reordered), NEW other \in SUBSET DOMAIN reordered,
           SameEntries(list, at, reordered, other), ToldApart(list, at)
    PROVE  Winner(reordered, other) = Winner(list, at)
<1>1. /\ Len(list) \in Nat /\ at \in SUBSET (1..Len(list))
      /\ Len(reordered) \in Nat /\ other \in SUBSET (1..Len(reordered))
  BY SeqShape DEF Parsed
<1>2. Comparable(list, at)
  BY DEF Parsed, Comparable
<1> QED BY <1>1, <1>2, SameWinner

(* A request whose lists can be compared; the places of what decides.      *)
Fair(q) ==
    /\ DOMAIN q = Others \cup {"trust", "exceptions", "bindings"}
    /\ Parsed(q.exceptions)
    /\ \A i \in DOMAIN q.exceptions : TieBreak(q.exceptions[i]) = q.exceptions[i].id
    /\ Parsed(q.bindings)
    /\ \A i \in DOMAIN q.bindings : TieBreak(q.bindings[i]) = q.bindings[i].identity
    /\ q.identity \in Nat /\ q.identity > 0
ActiveAt(q) ==
    {i \in DOMAIN q.exceptions :
        ExceptionMatches(q.exceptions[i], q) /\ ExceptionActive(q.exceptions[i], q)}
BoundAt(q) ==
    {i \in DOMAIN q.bindings :
        q.bindings[i].domain = q.domain /\ q.bindings[i].identity \in {0, q.identity}}

-----------------------------------------------------------------------------
(* What a policy may say.                                                  *)
Switches == {"hide_cosmetic", "block_scriptlets", "block_third_party", "in_memory", "autofill",
             "dedicated", "letterbox"}
Storages == {"kEphemeral", "kIdentityScoped", "kFortressPartition"}
Legible(p) ==
    /\ \A f \in Switches : p[f] \in BOOLEAN
    /\ \A c \in Frozen : p.permissions[c] \in ToSet(States)
    /\ p.route \in RouteNames
    /\ p.fingerprint \in FingerprintNames
    /\ p.storage \in Storages

(* The words of the ladder, the routes and the states.                     *)
LEMMA Words ==
    /\ ToSet(States) = {"kDeny", "kAsk", "kAllow"}
    /\ ToSet(Routes) = {"kDirect", "kProxy", "kTor"}
    /\ RouteNames = {"kDirect", "kProxy", "kTor", "kWireguard"}
    /\ ToSet(Tiers) = {"kStandard", "kShield", "kFortress"}
    /\ TrustTierIndex("kStandard") = 0
    /\ \A t \in ToSet(Tiers) : TrustTierIndex(t) \in 0..2
<1>1. DOMAIN States = 1..3 /\ DOMAIN Routes = 1..3 /\ DOMAIN Tiers = 1..3
  BY DEF States, Routes, Tiers
<1>2. ToSet(States) = {"kDeny", "kAsk", "kAllow"}
  BY <1>1 DEF ToSet, States
<1>3. ToSet(Routes) = {"kDirect", "kProxy", "kTor"}
  BY <1>1 DEF ToSet, Routes
<1>4. ToSet(Tiers) = {"kStandard", "kShield", "kFortress"}
  BY <1>1 DEF ToSet, Tiers
<1>5. RouteNames = {"kDirect", "kProxy", "kTor", "kWireguard"}
  BY <1>3 DEF RouteNames
<1>6. ASSUME NEW i \in 1..3 PROVE TrustTierIndex(Tiers[i]) = i - 1
  <2>1. \A j \in DOMAIN Tiers : Tiers[j] = Tiers[i] => j = i
    BY <1>1 DEF Tiers
  <2>2. i \in DOMAIN Tiers /\ Contains(Tiers, Tiers[i])
    <3>1. Len(Tiers) = 3
      BY DEF Tiers
    <3> QED BY <1>1, <3>1 DEF Contains
  <2>3. (CHOOSE j \in DOMAIN Tiers : Tiers[j] = Tiers[i]) = i
    BY <2>1, <2>2
  <2> QED BY <2>2, <2>3 DEF TrustTierIndex, IndexIn
<1>7. \A t \in ToSet(Tiers) : TrustTierIndex(t) \in 0..2
  BY <1>1, <1>6 DEF ToSet
<1>8. TrustTierIndex("kStandard") = 0
  BY <1>6 DEF Tiers
<1> QED BY <1>2, <1>3, <1>4, <1>5, <1>7, <1>8

(* The entry that wins has a trust of the ladder.                          *)
LEMMA WinnerHasTier ==
    ASSUME NEW list, Parsed(list), NEW at \in SUBSET DOMAIN list
    PROVE  Winner(list, at) # <<>> => TrustTierIndex(Winner(list, at)[1].trust) \in 0..2
<1>1. Len(list) \in Nat /\ DOMAIN list = 1..Len(list) /\ Comparable(list, at)
  BY SeqShape DEF Parsed, Comparable
<1>2. CASE at = {}
  BY <1>2 DEF Winner
<1>3. CASE at # {}
  <2>1. PICK i \in at : Winner(list, at) = <<list[i]>>
    BY <1>1, <1>3, WinnerWins
  <2>2. Winner(list, at)[1] = list[i]
    BY <2>1
  <2> QED BY <2>2 DEF Parsed
<1> QED BY <1>2, <1>3

(* A request's rung is one of the ladder, and so is its tier.              *)
Trusted(q) == q.trust \in ToSet(Tiers) \cup {""}
LEMMA RungIsATier ==
    ASSUME NEW q, Fair(q), Trusted(q)
    PROVE  TierOf(q) \in 0..2
<1> DEFINE named == q.trust # ""
           x == ExceptionOf(q)
           b == BindingOf(q)
<1>1. named => q.trust \in ToSet(Tiers)
  BY Zenon DEF Trusted
<1>2. x # <<>> => TrustTierIndex(x[1].trust) \in 0..2
  BY WinnerHasTier DEF Fair, ExceptionOf, ActiveAt
<1>3. b # <<>> => TrustTierIndex(b[1].trust) \in 0..2
  BY WinnerHasTier DEF Fair, BindingOf, BoundAt
<1>4. \/ named /\ Rung(q) = q.trust
      \/ x # <<>> /\ Rung(q) = x[1].trust
      \/ b # <<>> /\ Rung(q) = b[1].trust
      \/ Rung(q) = "kStandard"
  BY Zenon DEF Rung
<1> HIDE DEF named, x, b
<1>5. TrustTierIndex(Rung(q)) \in 0..2
  BY <1>1, <1>2, <1>3, <1>4, Words
<1>6. TierOf(q) \in -1..2 /\ TierOf(q) >= TrustTierIndex(Rung(q))
  BY TierHasFloor
<1> HIDE DEF Trusted
<1> QED BY <1>5, <1>6

-----------------------------------------------------------------------------
(* What denies is final, and a managed policy holds.                       *)

(* A decided request is one whose lists can be compared, with a trust of   *)
(* the ladder or none.                                                     *)
LEMMA DecidedFair ==
    ASSUME NEW raw, Typed(raw), IsDecided(ParseResolveRequest(raw))
    PROVE  Fair(ParseResolveRequest(raw)) /\ Trusted(ParseResolveRequest(raw))
<1> DEFINE q == ParseResolveRequest(raw)
<1>1. DOMAIN q = Others \cup {"trust", "exceptions", "bindings"}
  BY DEF ParseResolveRequest, Others
<1>2. /\ Parsed(q.exceptions)
      /\ \A i \in DOMAIN q.exceptions : TieBreak(q.exceptions[i]) = q.exceptions[i].id
      /\ Parsed(q.bindings)
      /\ \A i \in DOMAIN q.bindings : TieBreak(q.bindings[i]) = q.bindings[i].identity
      /\ q.identity \in Nat /\ q.identity > 0
      /\ q.trust \in ToSet(Tiers) \cup {""}
  BY DecidedRequest
<1> HIDE DEF q
<1> QED BY <1>1, <1>2, Zenon DEF Fair, Trusted, q

(* The route and the fingerprint of a tier are no laxer than those of a    *)
(* lower one.                                                              *)
LEMMA RoutesAreStricter ==
    ASSUME NEW t \in 0..2, NEW floor \in 0..2, t >= floor, NEW ephemeral, NEW fortress, NEW class
    PROVE  LET low == TieredPolicy(floor, FALSE, FALSE, class)
               high == TieredPolicy(t, ephemeral, fortress, class)
           IN  /\ IndexIn(Routes, high.route) >= IndexIn(Routes, low.route)
               /\ low.fingerprint = "kStrict" => high.fingerprint = "kStrict"
<1>1. DOMAIN Routes = 1..3 /\ Len(Routes) = 3
  BY DEF Routes
<1>2. ASSUME NEW i \in 1..3 PROVE IndexIn(Routes, Routes[i]) = i - 1
  <2>1. \A j \in DOMAIN Routes : Routes[j] = Routes[i] => j = i
    BY <1>1 DEF Routes
  <2>2. i \in DOMAIN Routes /\ Contains(Routes, Routes[i])
    BY <1>1 DEF Contains
  <2>3. (CHOOSE j \in DOMAIN Routes : Routes[j] = Routes[i]) = i
    BY <2>1, <2>2
  <2> QED BY <2>2, <2>3 DEF IndexIn
<1> DEFINE low == TieredPolicy(floor, FALSE, FALSE, class)
           high == TieredPolicy(t, ephemeral, fortress, class)
<1>3. /\ low.route = Routes[floor + 1] /\ high.route = Routes[t + 1]
      /\ low.fingerprint = (IF floor = 2 THEN "kStrict" ELSE "kReduce")
      /\ high.fingerprint = (IF t = 2 THEN "kStrict" ELSE "kReduce")
  BY DEF TieredPolicy
<1> HIDE DEF low, high
<1>4. t + 1 \in 1..3 /\ floor + 1 \in 1..3 /\ (t + 1) - 1 >= (floor + 1) - 1
  OBVIOUS
<1>5. IndexIn(Routes, high.route) >= IndexIn(Routes, low.route)
  BY <1>2, <1>3, <1>4
<1>6. low.fingerprint = "kStrict" => high.fingerprint = "kStrict"
  <2>1. low.fingerprint = "kStrict" => floor = 2
    BY <1>3
  <2>2. floor = 2 => t = 2
    OBVIOUS
  <2> QED BY <1>3, <2>1, <2>2
<1> QED BY <1>5, <1>6 DEF low, high

(* So a managed policy holds before the overlay has its say.               *)
LEMMA HintedHolds ==
    ASSUME NEW q, Fair(q), Trusted(q), q.enterprise.present
    PROVE  Holds(q.enterprise, Hinted(q), q.request_class)
<1> DEFINE e == q.enterprise
           t == TierOf(q)
           i == TrustTierIndex(e.trust_floor)
           hinted == Hinted(q)
           tiered == Tiered(q)
           floor == Floor(q)
<1>1. t \in 0..2 /\ i \in -1..2 /\ t >= i
  BY RungIsATier, TierHasFloor, TierIndexIsSmall
<1>2. AsStrict(hinted, floor) /\ Obeys(hinted, tiered, e)
  BY HintedTells
<1>3. /\ IndexIn(Routes, tiered.route) >= IndexIn(Routes, floor.route)
      /\ floor.fingerprint = "kStrict" => tiered.fingerprint = "kStrict"
  <2> HIDE DEF t, i
  <2>1. Max({0, i}) \in 0..2 /\ t >= Max({0, i})
    BY <1>1, MaxOfTwo
  <2> QED BY <1>1, <2>1, RoutesAreStricter DEF Tiered, Floor, t, i
<1>4. floor = TieredPolicy(Max({0, i}), FALSE, FALSE, q.request_class)
  BY DEF Floor
<1> HIDE DEF hinted, tiered, floor, e, i
<1> QED BY <1>2, <1>3, <1>4, Zenon DEF Holds, AsStrict, Obeys, e, i, hinted

(* What a decided request gets: the overlay's word on the policy of its    *)
(* tier with what the enterprise forces.                                   *)
LEMMA DecidedTells ==
    ASSUME NEW raw, Typed(raw), IsDecided(ParseResolveRequest(raw))
    PROVE  LET q == ParseResolveRequest(raw)
               p == Resolve(q).policy
               ov == q.overlay
           IN  /\ ov.present /\ (ov.corrupt \/ q.identity \in ov.denied) => p.permissions = DenyAll
               /\ \A c \in Frozen : p.permissions[c] = "kAllow" => OpenedBy(q, c)
               /\ q.enterprise.present => Holds(q.enterprise, p, q.request_class)
<1> DEFINE q == ParseResolveRequest(raw)
           p == Resolve(q).policy
           ov == q.overlay
           hinted == Hinted(q)
<1>1. p = ApplyPermissionOverlay(q, hinted)
  BY DecidedPolicy
<1>0. Fair(q) /\ Trusted(q)
  BY DecidedFair
<1> HIDE DEF q
<1>2. /\ DOMAIN hinted = Members /\ DOMAIN hinted.permissions = Frozen
      /\ \A c \in Frozen : hinted.permissions[c] # "kAllow"
      /\ q.enterprise.present => Holds(q.enterprise, hinted, q.request_class)
  BY <1>0, HintedTells, HintedHolds
<1> HIDE DEF hinted, p
<1>3. /\ \A f \in Members \ {"permissions"} : p[f] = hinted[f]
      /\ ov.present /\ (ov.corrupt \/ q.identity \in ov.denied) => p.permissions = DenyAll
      /\ \A c \in Frozen : p.permissions[c] = "kAllow" =>
            hinted.permissions[c] = "kAllow" \/ OpenedBy(q, c)
  BY <1>1, <1>2, OverlayDecides
<1>4. \A c \in Frozen : p.permissions[c] = "kAllow" => OpenedBy(q, c)
  BY <1>2, <1>3
<1>5. /\ \A f \in Stricter : p[f] = hinted[f]
      /\ p.route = hinted.route /\ p.fingerprint = hinted.fingerprint
      /\ p.letterbox = hinted.letterbox /\ p.block_third_party = hinted.block_third_party
  BY <1>3 DEF Stricter, Members
<1>6. Holds(q.enterprise, hinted, q.request_class) => Holds(q.enterprise, p, q.request_class)
  BY <1>5, Zenon DEF Holds
<1> QED BY <1>2, <1>3, <1>4, <1>6 DEF q, p

(* What denies is final, and what is enforced holds, for any requests,     *)
(* store files and managed policies (resolve.cc, resolve_io.cc,            *)
(* service.cc): the laws that the run of the service evaluates.            *)
THEOREM WhatDeniesIsFinal == Authority
<1>1. ASSUME NEW raw \in Raws, NEW s \in Stores, NEW m \in Manageds, IsDecided(Request(raw, s, m)),
             "permission_overlay" \in DOMAIN raw,
             Refuses(raw["permission_overlay"], Request(raw, s, m).identity)
      PROVE  Resolve(Request(raw, s, m)).policy.permissions = DenyAll
  <2> DEFINE merged == MergeStoreLayers(raw, s, m)
             q == ParseResolveRequest(merged)
             v == raw["permission_overlay"]
  <2>1. "permission_overlay" \in DOMAIN merged /\ merged["permission_overlay"] = v
    BY <1>1, RequestsWin
  <2> HIDE DEF merged
  <2>2. q.overlay = ParsePermissionOverlay(v)
    BY <2>1 DEF ParseResolveRequest
  <2>3. Request(raw, s, m) = q
    BY DEF Request, merged
  <2> HIDE DEF q, v
  <2>4. q.overlay.present /\ (q.overlay.corrupt \/ q.identity \in q.overlay.denied)
    BY <1>1, <2>2, <2>3 DEF Refuses, ParsePermissionOverlay, CorruptOverlay, NoOverlay, v
  <2>5. Typed(merged)
    BY MergedIsTyped DEF merged
  <2> QED BY <1>1, <2>3, <2>4, <2>5, DecidedTells DEF q
<1>2. ASSUME NEW raw \in Raws, NEW s \in Stores, NEW m \in Manageds, IsDecided(Request(raw, s, m)),
             Enforced(m), "enterprise" \notin DOMAIN raw
      PROVE  Holds(ParseEnterpriseFields(m.data), Resolve(Request(raw, s, m)).policy,
                   Request(raw, s, m).request_class)
  <2> DEFINE e == ParseEnterpriseFields(m.data)
             merged == MergeStoreLayers(raw, s, m)
  <2>1. Request(raw, s, m).enterprise = e
    BY <1>2, ManagedIsHeard
  <2>2. e.present
    BY DEF ParseEnterpriseFields, NoEnterprise
  <2>3. Typed(merged)
    BY MergedIsTyped
  <2> HIDE DEF e, merged
  <2>4. Request(raw, s, m) = ParseResolveRequest(merged)
    BY DEF Request, merged
  <2> QED BY <1>2, <2>1, <2>2, <2>3, <2>4, DecidedTells DEF e
<1>3. ASSUME NEW q \in Decided, NEW c \in Frozen, Resolve(q).policy.permissions[c] = "kAllow"
      PROVE  \/ \E g \in ToSet(q.overlay.grants) :
                   /\ g.capability = c /\ OverlayGrantActive(g, q)
                   /\ <<g.identity, g.domain>> = <<q.identity, q.domain>>
             \/ \E d \in ToSet(q.overlay.defaults) :
                   /\ d.capability = c /\ d.state = "kAllow" /\ d.identity = q.identity
  <2>1. PICK raw \in Raws, s \in Stores, m \in Manageds : q = Request(raw, s, m)
    BY DEF Decided, Requests
  <2>2. IsDecided(q)
    BY DEF Decided
  <2>3. Typed(MergeStoreLayers(raw, s, m))
    BY MergedIsTyped
  <2> QED BY <1>3, <2>1, <2>2, <2>3, DecidedTells, Zenon DEF Request, OpenedBy
<1> QED BY <1>1, <1>2, <1>3, Zenon DEF Authority

-----------------------------------------------------------------------------
(* The entry that leads decides, not the order of the entries.             *)

(* A trust with a tier is not the empty one.                               *)
LEMMA NoTrustNoTier ==
    ASSUME NEW trust, TrustTierIndex(trust) \in 0..2
    PROVE  trust # ""
<1>1. trust \in ToSet(Tiers)
  <2>1. Contains(Tiers, trust)
    BY DEF TrustTierIndex, IndexIn
  <2> QED BY <2>1 DEF Contains, ToSet, Tiers
<1>2. trust \in {"kStandard", "kShield", "kFortress"}
  BY <1>1, Words
<1> QED BY <1>2, Zenon

(* The winner of several entries is not below any of them.                 *)
LEMMA WinnerLeads ==
    ASSUME NEW list, Parsed(list), NEW at \in SUBSET DOMAIN list, at # {}
    PROVE  \E i \in at : /\ Winner(list, at) = <<list[i]>>
                         /\ \A j \in at : NotAbove(list[j], list[i])
<1>1. /\ Len(list) \in Nat /\ at \in SUBSET (1..Len(list)) /\ Comparable(list, at)
  BY SeqShape DEF Parsed, Comparable
<1>2. PICK i \in at : Wins(list, at, i) /\ Winner(list, at) = <<list[i]>>
  BY <1>1, WinnerWins
<1>3. ASSUME NEW j \in at PROVE NotAbove(list[j], list[i])
  <2> DEFINE x == list[j].created_at
             y == list[i].created_at
             s == TieBreak(list[j])
             t == TieBreak(list[i])
  <2>1. x \in Int /\ y \in Int /\ s \in Int /\ t \in Int
    BY <1>1 DEF Comparable
  <2>2. ~(x > y \/ (x = y /\ s > t))
    BY <1>2 DEF Wins, Prefer
  <2> HIDE DEF x, y, s, t
  <2>3. x < y \/ (x = y /\ s <= t)
    BY <2>1, <2>2
  <2> QED BY <2>3, Zenon DEF NotAbove, x, y, s, t
<1> QED BY <1>2, <1>3

(* The tier of a rung and an enterprise.                                   *)
TierFrom(trust, e) ==
    Max({TrustTierIndex(trust)} \cup (IF e.present THEN {TrustTierIndex(e.trust_floor)} ELSE {}))

(* A request has the answer of one that asks for the trust it stands on.   *)
LEMMA RungDecides ==
    ASSUME NEW q, Fair(q), NEW trust, trust # "", Rung(q) = trust
    PROVE  Resolve(q) = Resolve(Asking(q, trust))
<1> DEFINE r == Asking(q, trust)
<1>1. AsAsked(r, q) /\ r.trust = trust
  <2>1. /\ DOMAIN q = Others \cup {"trust", "exceptions", "bindings"}
        /\ "trust" \notin Others
    BY DEF Fair, Others
  <2> QED BY <2>1, Zenon DEF Asking, AsAsked
<1> HIDE DEF r
<1>2. r.enterprise = q.enterprise
  BY <1>1 DEF AsAsked, Others
<1>3. Rung(r) = trust
  BY <1>1, Zenon DEF Rung
<1>4. TierOf(r) = TierFrom(Rung(r), r.enterprise) /\ TierOf(q) = TierFrom(Rung(q), q.enterprise)
  BY Zenon DEF TierOf, Rung, TierFrom
<1>5. TierOf(r) = TierOf(q)
  BY <1>2, <1>3, <1>4, Zenon
<1>6. Resolve(r) = Resolve(q)
  BY <1>1, <1>5, AnswerFollows
<1> QED BY <1>6 DEF r

(* So the entries decide, if the rung is that of their winner.             *)
LEMMA KeptDecide ==
    ASSUME NEW q, Fair(q), NEW list, Parsed(list), NEW at \in SUBSET DOMAIN list, at # {},
           Rung(q) = Winner(list, at)[1].trust
    PROVE  Decides(Keep(list, at), q)
<1>1. PICK i \in at : /\ Winner(list, at) = <<list[i]>>
                      /\ \A j \in at : NotAbove(list[j], list[i])
  BY WinnerLeads
<1>2. ToSet(Keep(list, at)) = {list[j] : j \in at}
  BY KeptMembers DEF Parsed
<1>3. Rung(q) = list[i].trust /\ list[i].trust # ""
  <2>1. TrustTierIndex(list[i].trust) \in 0..2
    BY DEF Parsed
  <2>2. list[i].trust # ""
    BY <2>1, NoTrustNoTier, Zenon
  <2>3. Winner(list, at)[1] = list[i]
    BY <1>1
  <2> QED BY <2>2, <2>3, Zenon
<1>4. Resolve(q) = Resolve(Asking(q, list[i].trust))
  BY <1>3, RungDecides
<1>5. /\ list[i] \in ToSet(Keep(list, at))
      /\ \A f \in ToSet(Keep(list, at)) : NotAbove(f, list[i])
  BY <1>1, <1>2
<1> QED BY <1>4, <1>5, Zenon DEF Decides

(* Entries that differ in age or rank are told apart at their places.      *)
LEMMA DistinctAreToldApart ==
    ASSUME NEW list, IsSeq(list), NEW at \in SUBSET DOMAIN list, Distinct(Keep(list, at))
    PROVE  ToldApart(list, at)
<1> DEFINE kept == Keep(list, at)
<1>1. Len(list) \in Nat /\ at \in SUBSET (1..Len(list))
  BY SeqShape
<1>2. /\ DOMAIN kept = 1..Cardinality(at)
      /\ \A k \in DOMAIN kept : kept[k] = list[Nth(k, at)]
  BY KeptMembers
<1>3. \A i \in at : Place(i, at) \in 1..Cardinality(at) /\ Nth(Place(i, at), at) = i
  BY <1>1, PlacesGrow, EveryPlaceIsTaken
<1> HIDE DEF kept
<1>4. \A i \in at : Place(i, at) \in DOMAIN kept /\ kept[Place(i, at)] = list[i]
  BY <1>2, <1>3
<1>5. ASSUME NEW i \in at, NEW j \in at, list[i].created_at = list[j].created_at,
             TieBreak(list[i]) = TieBreak(list[j])
      PROVE  list[i] = list[j]
  <2>1. Place(i, at) = Place(j, at)
    BY <1>4, <1>5, Zenon DEF Distinct, kept
  <2> QED BY <1>3, <2>1
<1> QED BY <1>5 DEF ToldApart

(* The same active exceptions and the same bindings, in other orders and   *)
(* with nothing else in the lists.                                         *)
LEMMA OrderIsIdle ==
    ASSUME NEW q, Fair(q),
           ToldApart(q.exceptions, ActiveAt(q)), ToldApart(q.bindings, BoundAt(q)),
           NEW exceptions, IsSeq(exceptions),
           ToSet(exceptions) = {q.exceptions[i] : i \in ActiveAt(q)},
           NEW bindings, IsSeq(bindings),
           ToSet(bindings) = {q.bindings[i] : i \in BoundAt(q)}
    PROVE  Resolve(q) = Resolve([q EXCEPT !.exceptions = exceptions, !.bindings = bindings])
<1> DEFINE r == [q EXCEPT !.exceptions = exceptions, !.bindings = bindings]
           X == q.exceptions
           B == q.bindings
<1>1. AsAsked(r, q) /\ r.trust = q.trust /\ r.exceptions = exceptions /\ r.bindings = bindings
  BY DEF AsAsked, Others, Fair
<1> HIDE DEF r
<1>2. /\ r.identity = q.identity /\ r.domain = q.domain /\ r.now_ms = q.now_ms
      /\ r.session_id = q.session_id /\ r.enterprise = q.enterprise
  BY <1>1 DEF AsAsked, Others
<1>3. Parsed(X) /\ Parsed(B)
  BY DEF Fair
<1>4. ExceptionOf(r) = ExceptionOf(q)
  <2>1. \A e : /\ ExceptionMatches(e, r) <=> ExceptionMatches(e, q)
               /\ ExceptionActive(e, r) <=> ExceptionActive(e, q)
    BY <1>2 DEF ExceptionMatches, ExceptionActive, Active
  <2>2. \A i \in DOMAIN exceptions : \E j \in ActiveAt(q) : exceptions[i] = X[j]
    BY DEF ToSet
  <2>3. \A j \in ActiveAt(q) : ExceptionMatches(X[j], q) /\ ExceptionActive(X[j], q)
    BY DEF ActiveAt
  <2>4. ActiveAt(r) = DOMAIN exceptions
    <3>1. ActiveAt(r) = {i \in DOMAIN exceptions :
                            ExceptionMatches(exceptions[i], r) /\ ExceptionActive(exceptions[i], r)}
      BY <1>1 DEF ActiveAt
    <3>2. \A i \in DOMAIN exceptions :
             ExceptionMatches(exceptions[i], r) /\ ExceptionActive(exceptions[i], r)
      BY <2>1, <2>2, <2>3
    <3> QED BY <3>1, <3>2
  <2>5. SameEntries(X, ActiveAt(q), exceptions, ActiveAt(r))
    <3>1. \A i \in ActiveAt(q) : X[i] \in ToSet(exceptions)
      BY Zenon
    <3>2. \A i \in ActiveAt(q) : \E j \in DOMAIN exceptions : exceptions[j] = X[i]
      BY <3>1, Zenon DEF ToSet
    <3> QED BY <2>2, <2>4, <3>2 DEF SameEntries
  <2>6. ActiveAt(q) \in SUBSET DOMAIN X /\ ActiveAt(r) \in SUBSET DOMAIN exceptions
    BY <2>4 DEF ActiveAt
  <2>7. Winner(exceptions, ActiveAt(r)) = Winner(X, ActiveAt(q))
    BY <1>3, <2>5, <2>6, ReorderedList
  <2>8. /\ ExceptionOf(q) = Winner(X, ActiveAt(q))
        /\ ExceptionOf(r) = Winner(r.exceptions, ActiveAt(r))
    BY DEF ExceptionOf, ActiveAt
  <2> QED BY <1>1, <2>7, <2>8
<1>5. BindingOf(r) = BindingOf(q)
  <2>1. \A i \in DOMAIN bindings : \E j \in BoundAt(q) : bindings[i] = B[j]
    BY DEF ToSet
  <2>2. \A j \in BoundAt(q) : B[j].domain = q.domain /\ B[j].identity \in {0, q.identity}
    BY DEF BoundAt
  <2>3. BoundAt(r) = DOMAIN bindings
    <3>1. BoundAt(r) = {i \in DOMAIN bindings :
                          bindings[i].domain = q.domain /\ bindings[i].identity \in {0, q.identity}}
      BY <1>1, <1>2 DEF BoundAt
    <3>2. \A i \in DOMAIN bindings :
             bindings[i].domain = q.domain /\ bindings[i].identity \in {0, q.identity}
      BY <2>1, <2>2
    <3> QED BY <3>1, <3>2
  <2>4. SameEntries(B, BoundAt(q), bindings, BoundAt(r))
    <3>1. \A i \in BoundAt(q) : B[i] \in ToSet(bindings)
      BY Zenon
    <3>2. \A i \in BoundAt(q) : \E j \in DOMAIN bindings : bindings[j] = B[i]
      BY <3>1, Zenon DEF ToSet
    <3> QED BY <2>1, <2>3, <3>2 DEF SameEntries
  <2>5. BoundAt(q) \in SUBSET DOMAIN B /\ BoundAt(r) \in SUBSET DOMAIN bindings
    BY <2>3 DEF BoundAt
  <2>6. Winner(bindings, BoundAt(r)) = Winner(B, BoundAt(q))
    BY <1>3, <2>4, <2>5, ReorderedList
  <2>7. /\ BindingOf(q) = Winner(B, BoundAt(q))
        /\ BindingOf(r) = Winner(r.bindings, BoundAt(r))
    BY DEF BindingOf, BoundAt
  <2> QED BY <1>1, <2>6, <2>7
<1>6. TierOf(r) = TierOf(q)
  BY <1>1, <1>2, <1>4, <1>5 DEF TierOf
<1>7. Resolve(r) = Resolve(q)
  BY <1>1, <1>6, AnswerFollows
<1> QED BY <1>7 DEF r

(* A trust that is asked for decides alone.                                *)
LEMMA AskedDecides ==
    ASSUME NEW q, Fair(q), q.trust # ""
    PROVE  Resolve(q) = Resolve([q EXCEPT !.exceptions = <<>>, !.bindings = <<>>])
<1> DEFINE r == [q EXCEPT !.exceptions = <<>>, !.bindings = <<>>]
<1>1. AsAsked(r, q) /\ r.trust = q.trust
  BY Zenon DEF AsAsked, Others, Fair
<1> HIDE DEF r
<1>2. r.enterprise = q.enterprise
  BY <1>1 DEF AsAsked, Others
<1>3. TierOf(r) = TierOf(q)
  BY <1>1, <1>2, Zenon DEF TierOf
<1>4. Resolve(r) = Resolve(q)
  BY <1>1, <1>3, AnswerFollows
<1> QED BY <1>4 DEF r

(* An exception that lives is one that is active.                          *)
LEMMA LivingIsActive ==
    ASSUME NEW e, NEW q
    PROVE  (IF e.scope = "permanent" THEN e.granted_by = "settings" ELSE Active(e, q))
             <=> ExceptionActive(e, q)
BY DEF ExceptionActive, Active

(* What is kept of a list is empty where no place is.                      *)
LEMMA NothingIsKept ==
    ASSUME NEW list, IsSeq(list), NEW at \in SUBSET DOMAIN list
    PROVE  Keep(list, at) = <<>> <=> at = {}
<1>1. Len(list) \in Nat /\ at \in SUBSET (1..Len(list))
  BY SeqShape
<1>2. IsFiniteSet(at) /\ (Cardinality(at) = 0 <=> at = {})
  BY <1>1, PlacesGrow, FS_EmptySet
<1>3. IsSeq(Keep(list, at)) /\ Len(Keep(list, at)) = Cardinality(at)
  BY KeptMembers
<1> QED BY <1>2, <1>3, EmptySeq DEF IsSeq

(* Whatever the entries, for any requests, stores and managed policies.    *)
THEOREM EntriesAlwaysDecide == EntriesDecide
<1> SUFFICES ASSUME NEW q \in Decided
             PROVE  /\ q.trust = "" =>
                          /\ LiveOf(q) # <<>> => Decides(LiveOf(q), q)
                          /\ LiveOf(q) = <<>> /\ BoundOf(q) # <<>> => Decides(BoundOf(q), q)
                          /\ LiveOf(q) = <<>> /\ BoundOf(q) = <<>> =>
                                Resolve(q) = Resolve(Asking(q, "kStandard"))
                    /\ q.trust # "" => Resolve(q) = Resolve([q EXCEPT !.exceptions = <<>>, !.bindings = <<>>])
                    /\ Distinct(LiveOf(q)) /\ Distinct(BoundOf(q)) =>
                          \A xs \in Orders(LiveOf(q)), bs \in Orders(BoundOf(q)) :
                              Resolve(q) = Resolve([q EXCEPT !.exceptions = xs, !.bindings = bs])
  BY Zenon DEF EntriesDecide
<1> DEFINE X == q.exceptions
           B == q.bindings
           live == Keep(X, ActiveAt(q))
           bound == Keep(B, BoundAt(q))
<1>1. Fair(q)
  <2>1. PICK raw : Typed(raw) /\ q = ParseResolveRequest(raw) /\ IsDecided(q)
    BY MergedIsTyped DEF Decided, Requests, Request
  <2> QED BY <2>1, DecidedFair
<1>2. Parsed(X) /\ IsSeq(X) /\ Parsed(B) /\ IsSeq(B)
  BY <1>1 DEF Fair, Parsed
<1>3. ActiveAt(q) \in SUBSET DOMAIN X /\ BoundAt(q) \in SUBSET DOMAIN B
  BY DEF ActiveAt, BoundAt
<1>4. LiveOf(q) = live /\ BoundOf(q) = bound
  <2> DEFINE Lives(e) == IF e.scope = "permanent" THEN e.granted_by = "settings" ELSE Active(e, q)
             liveAt == {i \in DOMAIN X : ExceptionMatches(X[i], q) /\ Lives(X[i])}
  <2>1. liveAt = ActiveAt(q)
    BY LivingIsActive DEF ActiveAt
  <2>2. LiveOf(q) = Keep(X, liveAt)
    BY DEF LiveOf, Filtered
  <2>3. BoundOf(q) = bound
    BY DEF BoundOf, BoundAt, Filtered
  <2> HIDE DEF liveAt
  <2> QED BY <2>1, <2>2, <2>3
<1>5. /\ ExceptionOf(q) = Winner(X, ActiveAt(q))
      /\ BindingOf(q) = Winner(B, BoundAt(q))
  BY DEF ExceptionOf, ActiveAt, BindingOf, BoundAt
<1>6. /\ live = <<>> <=> ActiveAt(q) = {}
      /\ bound = <<>> <=> BoundAt(q) = {}
  <2> HIDE DEF X, B
  <2> QED BY <1>2, <1>3, NothingIsKept
<1>7. /\ ActiveAt(q) = {} <=> ExceptionOf(q) = <<>>
      /\ BoundAt(q) = {} <=> BindingOf(q) = <<>>
  BY <1>5 DEF Winner
<1> HIDE DEF live, bound, X, B
<1>8. ASSUME q.trust = ""
      PROVE  /\ LiveOf(q) # <<>> => Decides(LiveOf(q), q)
             /\ LiveOf(q) = <<>> /\ BoundOf(q) # <<>> => Decides(BoundOf(q), q)
             /\ LiveOf(q) = <<>> /\ BoundOf(q) = <<>> => Resolve(q) = Resolve(Asking(q, "kStandard"))
  <2>1. CASE LiveOf(q) # <<>>
    <3>1. ActiveAt(q) # {} /\ ExceptionOf(q) # <<>>
      BY <1>4, <1>6, <1>7, <2>1
    <3>2. Rung(q) = Winner(X, ActiveAt(q))[1].trust
      BY <1>5, <1>8, <3>1, Zenon DEF Rung
    <3>3. Decides(live, q)
      BY <1>1, <1>2, <1>3, <3>1, <3>2, KeptDecide DEF live
    <3> QED BY <1>4, <2>1, <3>3
  <2>2. CASE LiveOf(q) = <<>> /\ BoundOf(q) # <<>>
    <3>1. BoundAt(q) # {} /\ BindingOf(q) # <<>> /\ ExceptionOf(q) = <<>>
      BY <1>4, <1>6, <1>7, <2>2
    <3>2. Rung(q) = Winner(B, BoundAt(q))[1].trust
      BY <1>5, <1>8, <3>1, Zenon DEF Rung
    <3>3. Decides(bound, q)
      BY <1>1, <1>2, <1>3, <3>1, <3>2, KeptDecide DEF bound
    <3> QED BY <1>4, <2>2, <3>3
  <2>3. CASE LiveOf(q) = <<>> /\ BoundOf(q) = <<>>
    <3>1. ExceptionOf(q) = <<>> /\ BindingOf(q) = <<>>
      BY <1>4, <1>6, <1>7, <2>3
    <3>2. Rung(q) = "kStandard" /\ "kStandard" # ""
      BY <1>8, <3>1, Zenon DEF Rung
    <3>3. Resolve(q) = Resolve(Asking(q, "kStandard"))
      BY <1>1, <3>2, RungDecides
    <3> QED BY <2>3, <3>3, Zenon
  <2> QED BY <2>1, <2>2, <2>3, Zenon
<1>9. ASSUME q.trust # ""
      PROVE  Resolve(q) = Resolve([q EXCEPT !.exceptions = <<>>, !.bindings = <<>>])
  BY <1>1, <1>9, AskedDecides
<1>10. ASSUME Distinct(LiveOf(q)), Distinct(BoundOf(q)),
              NEW xs \in Orders(LiveOf(q)), NEW bs \in Orders(BoundOf(q))
       PROVE  Resolve(q) = Resolve([q EXCEPT !.exceptions = xs, !.bindings = bs])
  <2>1. ToldApart(X, ActiveAt(q)) /\ ToldApart(B, BoundAt(q))
    BY <1>2, <1>3, <1>4, <1>10, DistinctAreToldApart DEF live, bound
  <2>2. /\ Len(live) \in Nat /\ DOMAIN live = 1..Len(live)
        /\ Len(bound) \in Nat /\ DOMAIN bound = 1..Len(bound)
        /\ ToSet(live) = {X[i] : i \in ActiveAt(q)}
        /\ ToSet(bound) = {B[i] : i \in BoundAt(q)}
    BY <1>2, <1>3, KeptMembers, SeqShape DEF live, bound
  <2>3. /\ xs \in [1..Len(live) -> ToSet(live)] /\ ToSet(xs) = ToSet(live)
        /\ bs \in [1..Len(bound) -> ToSet(bound)] /\ ToSet(bs) = ToSet(bound)
    BY <1>4, <1>10, <2>2 DEF Orders
  <2>4. IsSeq(xs) /\ IsSeq(bs)
    BY <2>2, <2>3, FunctionIsSeq
  <2> QED BY <1>1, <2>1, <2>2, <2>3, <2>4, OrderIsIdle DEF X, B
<1> QED BY <1>8, <1>9, <1>10, Zenon

-----------------------------------------------------------------------------
(* Every answer is one of the words of the wire.                           *)

(* The policy of a tier.                                                   *)
LEMMA TieredIsLegible ==
    ASSUME NEW t \in 0..2, NEW ephemeral \in BOOLEAN, NEW fortress, NEW class
    PROVE  Legible(TieredPolicy(t, ephemeral, fortress, class))
<1> DEFINE p == TieredPolicy(t, ephemeral, fortress, class)
           strict == t >= 1
           strictest == t = 2
           apart == fortress \/ t = 2
           fills == class \in {"kNavigation", "kPermission"}
<1>1. /\ p.hide_cosmetic = strict /\ p.block_scriptlets = strict /\ p.block_third_party = strict
      /\ p.dedicated = apart /\ p.letterbox = strictest /\ p.autofill = fills
      /\ p.in_memory = ephemeral
  <2> HIDE DEF strict, strictest, apart, fills
  <2> QED BY DEF TieredPolicy, strict, strictest, apart, fills
<1>2. strict \in BOOLEAN /\ strictest \in BOOLEAN /\ apart \in BOOLEAN /\ fills \in BOOLEAN
  OBVIOUS
<1>3. \A c \in Frozen : p.permissions[c] \in ToSet(States)
  BY Words DEF TieredPolicy
<1>4. p.route \in RouteNames
  BY Words DEF TieredPolicy, Routes
<1>5. p.fingerprint \in FingerprintNames
  BY DEF TieredPolicy, FingerprintNames
<1>6. p.storage \in Storages
  BY DEF TieredPolicy, Storages
<1> HIDE DEF p, strict, strictest, apart, fills
<1>7. \A f \in Switches : p[f] \in BOOLEAN
  BY <1>1, <1>2 DEF Switches
<1> QED BY <1>3, <1>4, <1>5, <1>6, <1>7 DEF Legible, p

(* The policy with what the enterprise forces.                             *)
MayBe(v, names) == v \in names \cup {""}
Instead(v, w) == IF v # "" THEN v ELSE w
LEMMA InsteadIsOne ==
    ASSUME NEW names, NEW v, MayBe(v, names), NEW w \in names
    PROVE  Instead(v, w) \in names
BY Zenon DEF MayBe, Instead

(* The tier's policy, with what the enterprise forces of such a name.      *)
LEMMA HintedIsLegible ==
    ASSUME NEW p, Shaped(p), Legible(p), NEW e, NEW ext,
           e.present => /\ MayBe(e.force_fingerprint, FingerprintNames)
                        /\ MayBe(e.force_route, RouteNames)
    PROVE  Legible(HintedBy(p, e, ext))
<1> DEFINE forced == Forced(p, e)
           out == HintedBy(p, e, ext)
<1>0. p = [m \in Members |-> p[m]]
  BY DEF Shaped
<1>1. Legible(forced) /\ DOMAIN forced = Members
  <2>1. CASE ~e.present
    BY <1>0, <2>1 DEF Forced
  <2>2. CASE e.present
    <3>1. /\ DOMAIN forced = Members
          /\ \A m \in Members \ {"letterbox", "block_third_party", "route", "fingerprint"} :
                forced[m] = p[m]
          /\ forced["route"] = Instead(e.force_route, p["route"])
          /\ forced["fingerprint"] = Instead(e.force_fingerprint, p["fingerprint"])
      BY <1>0, <2>2 DEF Forced, Members, Instead
    <3>2. forced["letterbox"] = (p["letterbox"] \/ e.force_letterbox)
      BY <1>0, <2>2 DEF Forced, Members
    <3>3. forced["block_third_party"] = (p["block_third_party"] \/ e.force_block_third_party)
      BY <1>0, <2>2 DEF Forced, Members
    <3> HIDE DEF forced
    <3>4. forced["letterbox"] \in BOOLEAN /\ forced["block_third_party"] \in BOOLEAN
      BY <3>2, <3>3
    <3>5. \A f \in Switches \ {"letterbox", "block_third_party"} :
             forced[f] = p[f] /\ p[f] \in BOOLEAN
      BY <3>1 DEF Switches, Members, Legible
    <3>6. \A f \in Switches : forced[f] \in BOOLEAN
      BY <3>4, <3>5
    <3>7. forced.permissions = p.permissions /\ forced.storage = p.storage
      BY <3>1 DEF Members
    <3>8. forced.route \in RouteNames /\ forced.fingerprint \in FingerprintNames
      BY <2>2, <3>1, InsteadIsOne DEF Legible
    <3> QED BY <3>1, <3>6, <3>7, <3>8 DEF Legible
  <2> QED BY <2>1, <2>2
<1>2. out = [forced EXCEPT !.autofill = @ /\ ~ext]
  BY DEF HintedBy
<1> HIDE DEF forced, out
<1>3. \A m \in Members \ {"autofill"} : out[m] = forced[m]
  BY <1>1, <1>2
<1>4. out["autofill"] = (forced["autofill"] /\ ~ext)
  BY <1>1, <1>2 DEF Members
<1>5. out["autofill"] \in BOOLEAN
  BY <1>4
<1>6. \A f \in Switches \ {"autofill"} : out[f] = forced[f]
  BY <1>3 DEF Switches, Members
<1>7. \A f \in Switches : out[f] \in BOOLEAN
  BY <1>1, <1>5, <1>6 DEF Legible
<1>8. /\ out.permissions = forced.permissions /\ out.storage = forced.storage
      /\ out.route = forced.route /\ out.fingerprint = forced.fingerprint
  BY <1>3 DEF Members
<1> QED BY <1>1, <1>7, <1>8 DEF Legible, out

(* The overlay's word on it, where its defaults are states.                *)
LEMMA OverlaidIsLegible ==
    ASSUME NEW q, NEW p, DOMAIN p = Members, Legible(p),
           \A d \in ToSet(q.overlay.defaults) : d.state \in ToSet(States)
    PROVE  Legible(ApplyPermissionOverlay(q, p))
<1> DEFINE ov == q.overlay
           out == ApplyPermissionOverlay(q, p)
           Defaults(c) == {d.state : d \in {x \in ToSet(ov.defaults) :
                                              x.identity = q.identity /\ x.capability = c}}
           Granted(c) == \E g \in ToSet(ov.grants) :
                             /\ g.identity = q.identity /\ g.domain = q.domain
                             /\ g.capability = c
                             /\ OverlayGrantActive(g, q)
           Answer(c) == IF ov.corrupt \/ q.identity \in ov.denied THEN "kDeny"
                        ELSE IF Granted(c) THEN "kAllow"
                        ELSE IF Defaults(c) # {} THEN Strictest(Defaults(c))
                        ELSE p.permissions[c]
<1>1. ~ov.present => out = p
  BY DEF ApplyPermissionOverlay
<1>2. ov.present => out = [p EXCEPT !.permissions = [c \in Frozen |-> Answer(c)]]
  BY DEF ApplyPermissionOverlay
<1>3. ASSUME NEW c \in Frozen PROVE Answer(c) \in ToSet(States)
  <2>1. \A s \in Defaults(c) : s \in ToSet(States)
    OBVIOUS
  <2>2. p.permissions[c] \in ToSet(States) /\ "kDeny" \in ToSet(States) /\ "kAllow" \in ToSet(States)
    BY Words DEF Legible
  <2> HIDE DEF Defaults, Granted, ov
  <2> QED BY <2>1, <2>2, StrictestIsOne
<1>4. CASE ~ov.present
  BY <1>1, <1>4
<1>5. CASE ov.present
  <2> HIDE DEF Answer
  <2>1. \A m \in Members \ {"permissions"} : out[m] = p[m]
    BY <1>2, <1>5
  <2>2. out.permissions = [c \in Frozen |-> Answer(c)]
    BY <1>2, <1>5 DEF Members
  <2> HIDE DEF out
  <2>3. \A f \in Switches : out[f] = p[f]
    BY <2>1 DEF Switches, Members
  <2>4. out.route = p.route /\ out.fingerprint = p.fingerprint /\ out.storage = p.storage
    BY <2>1 DEF Members
  <2>5. \A c \in Frozen : out.permissions[c] \in ToSet(States)
    BY <1>3, <2>2
  <2>6. \A f \in Switches : out[f] \in BOOLEAN
    BY <2>3 DEF Legible
  <2> QED BY <2>4, <2>5, <2>6 DEF Legible, out
<1> QED BY <1>4, <1>5

(* What a parsed request holds.                                            *)
LEMMA ParsedDefaults ==
    ASSUME NEW v, NEW d \in ToSet(ParsePermissionOverlay(v).defaults)
    PROVE  d.state \in ToSet(States)
<1>1. /\ ToSet(NoOverlay.defaults) = {} /\ ToSet(CorruptOverlay.defaults) = {}
  BY DEF NoOverlay, CorruptOverlay, ToSet
<1>2. /\ ParsePermissionOverlay(v) # CorruptOverlay
      /\ v # Wrong /\ FitsOverlay(v) /\ ~IsMarkedCorrupt(v)
      /\ ParsePermissionOverlay(v).defaults = ParseDefaults(v)
  BY <1>1, Zenon DEF ParsePermissionOverlay
<1> DEFINE defaults == Or(v, "defaults", <<>>)
<1>3. \A e \in ToSet(defaults) : FitsDefault(e)
  BY <1>2 DEF FitsOverlay
<1> HIDE DEF defaults
<1>4. PICK i \in DOMAIN defaults : d.state = defaults[i]["state"]
  BY <1>2 DEF ParseDefaults, Map, ToSet, defaults
<1>5. defaults[i] \in ToSet(defaults)
  BY DEF ToSet
<1> QED BY <1>3, <1>4, <1>5 DEF FitsDefault

(* What the enterprise forces is a name or nothing (resolve_io.cc).        *)
LEMMA ParsedEnterprise ==
    ASSUME NEW v, FitsEnterprise(v), NEW e, e = ParseEnterpriseFields(v)
    PROVE  /\ MayBe(e.force_fingerprint, FingerprintNames)
           /\ MayBe(e.force_route, RouteNames)
<1>1. /\ {"present", "force_fingerprint", "force_route"} \subseteq DOMAIN NoEnterprise
  BY DEF NoEnterprise
<1>2. /\ NoEnterprise.force_fingerprint = "" /\ NoEnterprise.force_route = ""
  BY DEF NoEnterprise
<1>3. /\ MayBe(Or(v, "force_fingerprint", NoEnterprise.force_fingerprint), FingerprintNames)
      /\ MayBe(Or(v, "force_route", NoEnterprise.force_route), RouteNames)
  BY <1>2, Zenon DEF FitsEnterprise, MayBe
<1> HIDE DEF NoEnterprise
<1>4. /\ e.force_fingerprint = Or(v, "force_fingerprint", NoEnterprise.force_fingerprint)
      /\ e.force_route = Or(v, "force_route", NoEnterprise.force_route)
  BY <1>1 DEF ParseEnterpriseFields
<1> QED BY <1>3, <1>4

(* An identity is in memory or not, an unknown one is not.                 *)
LEMMA ParsedIdentity ==
    ASSUME NEW raw, Typed(raw), NEW q, q.identities = ParseIdentities(raw)
    PROVE  Identity(q).ephemeral \in BOOLEAN
<1> DEFINE s == Layer(raw, "identities")
           at == {i \in DOMAIN s : FitsIdentity(s[i])}
           kept == Keep(s, at)
           own == Map(kept, ParseIdentityInfo)
           all == ParseIdentities(raw)
           mine == {i \in DOMAIN all : all[i].value = q.identity}
<1>1. /\ Len(kept) \in Nat /\ DOMAIN kept = 1..Len(kept)
  <2>1. at \in SUBSET DOMAIN s /\ "identities" \in Layers
    BY DEF Layers
  <2> HIDE DEF at
  <2> QED BY <2>1, KeptEntries
<1>2. all \in {own, DefaultIdentities}
  BY DEF ParseIdentities, Filtered
<1>3. own = [i \in DOMAIN kept |-> ParseIdentityInfo(kept[i])]
  BY DEF Map
<1> HIDE DEF kept, own, all
<1>4. IsSeq(own)
  BY <1>1, <1>3, FunctionIsSeq
<1>5. \A i \in DOMAIN own : own[i].ephemeral \in BOOLEAN
  BY <1>3 DEF ParseIdentityInfo
<1>6. IsSeq(DefaultIdentities) /\ \A i \in DOMAIN DefaultIdentities : DefaultIdentities[i].ephemeral \in BOOLEAN
  <2>1. DOMAIN DefaultIdentities = 1..3 /\ DefaultIdentities = [i \in 1..3 |-> DefaultIdentities[i]]
    BY DEF DefaultIdentities
  <2>2. /\ DefaultIdentities[1].ephemeral \in BOOLEAN /\ DefaultIdentities[2].ephemeral \in BOOLEAN
        /\ DefaultIdentities[3].ephemeral \in BOOLEAN
    BY DEF DefaultIdentities
  <2> HIDE DEF DefaultIdentities
  <2>3. \A i \in 1..3 : i = 1 \/ i = 2 \/ i = 3
    OBVIOUS
  <2> QED BY <2>1, <2>2, <2>3, FunctionIsSeq
<1>7. IsSeq(all) /\ \A i \in DOMAIN all : all[i].ephemeral \in BOOLEAN
  BY <1>2, <1>4, <1>5, <1>6
<1>8. Identity(q) = IF Keep(all, mine) = <<>> THEN [ephemeral |-> FALSE, fortress |-> FALSE]
                    ELSE Keep(all, mine)[1]
  BY DEF Identity, Filtered, all
<1>9. CASE Keep(all, mine) = <<>>
  BY <1>8, <1>9
<1>10. CASE Keep(all, mine) # <<>>
  <2>1. mine \in SUBSET DOMAIN all
    OBVIOUS
  <2> HIDE DEF mine
  <2>2. /\ IsSeq(Keep(all, mine))
        /\ \A k \in DOMAIN Keep(all, mine) : Nth(k, mine) \in mine /\ Keep(all, mine)[k] = all[Nth(k, mine)]
    BY <1>7, <2>1, KeptMembers
  <2>3. 1 \in DOMAIN Keep(all, mine)
    BY <1>10, <2>2, EmptySeq, SeqShape DEF IsSeq
  <2> QED BY <1>7, <1>8, <1>10, <2>1, <2>2, <2>3
<1> QED BY <1>9, <1>10

(* So every answer says what a policy may say.                             *)
LEMMA AnswersAreLegible ==
    ASSUME NEW p \in Answers
    PROVE  Legible(p)
<1>1. CASE p = DenyPolicy
  <2>1. \A f \in Switches : p[f] \in BOOLEAN
    <3>1. /\ p.hide_cosmetic \in BOOLEAN /\ p.block_scriptlets \in BOOLEAN /\ p.in_memory \in BOOLEAN
          /\ p.block_third_party \in BOOLEAN /\ p.autofill \in BOOLEAN /\ p.dedicated \in BOOLEAN
          /\ p.letterbox \in BOOLEAN
      BY <1>1 DEF DenyPolicy
    <3> QED BY <3>1 DEF Switches
  <2>2. \A c \in Frozen : p.permissions[c] \in ToSet(States)
    BY <1>1, Words DEF DenyPolicy, DenyAll
  <2>3. p.route \in RouteNames /\ p.fingerprint \in FingerprintNames /\ p.storage \in Storages
    BY <1>1, Words DEF DenyPolicy, FingerprintNames, Storages
  <2> QED BY <2>1, <2>2, <2>3 DEF Legible
<1>2. CASE p # DenyPolicy
  <2>1. PICK q \in Decided : p = Resolve(q).policy
    BY <1>2 DEF Answers
  <2>2. PICK raw : Typed(raw) /\ q = ParseResolveRequest(raw) /\ IsDecided(q)
    BY MergedIsTyped DEF Decided, Requests, Request
  <2>4. Fair(q) /\ Trusted(q)
    BY <2>2, DecidedFair
  <2>5. TierOf(q) \in 0..2
    BY <2>4, RungIsATier
  <2>6. q.identities = ParseIdentities(raw)
    BY <2>2 DEF ParseResolveRequest
  <2>7. Identity(q).ephemeral \in BOOLEAN
    BY <2>2, <2>6, ParsedIdentity
  <2>8. Legible(Tiered(q)) /\ Shaped(Tiered(q))
    BY <2>5, <2>7, TieredIsLegible, TieredShape DEF Tiered
  <2>9. q.enterprise.present => /\ MayBe(q.enterprise.force_fingerprint, FingerprintNames)
                                /\ MayBe(q.enterprise.force_route, RouteNames)
    <3>1. ~NoEnterprise.present
      BY DEF NoEnterprise
    <3>2. \/ q.enterprise = NoEnterprise
          \/ /\ FitsEnterprise(raw["enterprise"])
             /\ q.enterprise = ParseEnterpriseFields(raw["enterprise"])
      BY <2>2 DEF ParseResolveRequest
    <3> QED BY <3>1, <3>2, ParsedEnterprise
  <2>10. \A d \in ToSet(q.overlay.defaults) : d.state \in ToSet(States)
    <3>1. ToSet(NoOverlay.defaults) = {}
      BY DEF NoOverlay, ToSet
    <3>2. q.overlay \in {NoOverlay, ParsePermissionOverlay(raw["permission_overlay"])}
      BY <2>2 DEF ParseResolveRequest
    <3> QED BY <3>1, <3>2, ParsedDefaults
  <2>11. Legible(Hinted(q)) /\ DOMAIN Hinted(q) = Members
    BY <2>8, <2>9, HintedIsLegible, HintedTells DEF Hinted
  <2>12. p = ApplyPermissionOverlay(q, Hinted(q))
    BY <2>1, <2>2, DecidedPolicy
  <2> QED BY <2>10, <2>11, <2>12, OverlaidIsLegible
<1> QED BY <1>1, <1>2

(* The members of the wire form: each has a legal value, and none is the   *)
(* mark of a wrong one.                                                    *)
Steady == {"block_network_ads", "block_trackers", "upgrade_to_https", "site_isolated"}
Paths == {"contract_version", "export_allowed", "route", "fingerprint", "storage"}
             \cup Steady \cup Frozen \cup Switches
LEMMA ShapeHasPaths ==
    ASSUME NEW g \in DOMAIN Shape, NEW f \in Shape[g]
    PROVE  f \in Paths
BY DEF Shape, Paths, Steady, Frozen, Switches

(* What a member of the wire form may be.                                  *)
LEMMA LegalValues ==
    ASSUME NEW f \in Paths
    PROVE  /\ f = "contract_version" => Legal(f) = {<<1>>}
           /\ f = "export_allowed" => Legal(f) = {<<FALSE>>}
           /\ f = "route" => Legal(f) = {<<r>> : r \in RouteNames}
           /\ f = "fingerprint" => Legal(f) = {<<m>> : m \in FingerprintNames}
           /\ f = "storage" => Legal(f) = {<<s>> : s \in Storages}
           /\ f \in Frozen => Legal(f) = {<<s>> : s \in ToSet(States)}
           /\ f \in Steady \cup Switches => Legal(f) = {<<b>> : b \in BOOLEAN}
<1>1. DOMAIN Fixed = {"contract_version", "export_allowed", "route", "fingerprint", "storage"}
  BY DEF Fixed
<1>2. /\ Fixed["contract_version"] = {<<1>>} /\ Fixed["export_allowed"] = {<<FALSE>>}
      /\ Fixed["route"] = {<<r>> : r \in RouteNames}
      /\ Fixed["fingerprint"] = {<<m>> : m \in FingerprintNames}
  BY DEF Fixed
<1>3. Fixed["storage"] = {<<s>> : s \in Storages}
  BY DEF Fixed, Storages
<1>4. {<<TRUE>>, <<FALSE>>} = {<<b>> : b \in BOOLEAN}
  OBVIOUS
<1> HIDE DEF Fixed
<1>5. f \in DOMAIN Fixed => Legal(f) = Fixed[f]
  BY DEF Legal
<1>6. f \in Frozen => Legal(f) = {<<s>> : s \in ToSet(States)}
  BY <1>1 DEF Legal, Frozen
<1>7. f \in Steady \cup Switches => f \notin DOMAIN Fixed /\ f \notin Frozen
  BY <1>1 DEF Steady, Switches, Frozen
<1>8. f \in Steady \cup Switches => Legal(f) = {<<b>> : b \in BOOLEAN}
  BY <1>4, <1>7, Zenon DEF Legal
<1> QED BY <1>1, <1>2, <1>3, <1>5, <1>6, <1>8, Zenon

(* A policy's members are, and the mark of a wrong one is not.             *)
LEMMA FlatIsLegal ==
    ASSUME NEW p, Legible(p), NEW g \in DOMAIN Shape, NEW f \in Shape[g]
    PROVE  Flat(p)[f] \in Legal(f) /\ <<Wrong>> \notin Legal(f)
<1>1. f \in Paths
  BY ShapeHasPaths
<1>2. f \in UNION {Shape[h] : h \in DOMAIN Shape}
  OBVIOUS
<1>3. Flat(p)[f] = IF f = "contract_version" THEN <<1>> ELSE IF f = "export_allowed" THEN <<FALSE>>
                   ELSE IF f \in Steady THEN <<TRUE>>
                   ELSE IF f \in Frozen THEN <<p.permissions[f]>> ELSE <<p[f]>>
  BY <1>2 DEF Flat, Steady
<1>4. /\ Wrong \notin Storages /\ Wrong \notin RouteNames /\ Wrong \notin FingerprintNames
      /\ Wrong \notin ToSet(States) /\ Wrong \notin BOOLEAN /\ Wrong # 1
  BY WrongAssumption DEF Storages
<1>5. Wrong # FALSE /\ \A b \in BOOLEAN : Wrong # b
  BY <1>4, Zenon
<1>6. CASE f \in {"contract_version", "export_allowed"}
  <2>1. f = "contract_version" => Flat(p)[f] = <<1>> /\ Legal(f) = {<<1>>}
    BY <1>1, <1>3, LegalValues
  <2>2. f = "export_allowed" => Flat(p)[f] = <<FALSE>> /\ Legal(f) = {<<FALSE>>}
    BY <1>1, <1>3, LegalValues
  <2>3. \A v, w : <<v>> = <<w>> => v = w
    OBVIOUS
  <2>4. <<Wrong>> # <<1>> /\ <<Wrong>> # <<FALSE>>
    BY <1>4, <1>5, <2>3, Zenon
  <2> QED BY <1>6, <2>1, <2>2, <2>4, Zenon
<1>7. ASSUME NEW names, NEW v \in names, Legal(f) = {<<w>> : w \in names}, Flat(p)[f] = <<v>>,
             \A w \in names : Wrong # w
      PROVE  Flat(p)[f] \in Legal(f) /\ <<Wrong>> \notin Legal(f)
  <2>1. \A v1, w1 : <<v1>> = <<w1>> => v1 = w1
    OBVIOUS
  <2> QED BY <1>7, <2>1, Zenon
<1>8. CASE f \in {"route", "fingerprint", "storage"}
  <2>1. Flat(p)[f] = <<p[f]>>
    BY <1>3, <1>8 DEF Steady, Frozen
  <2>2. CASE f = "route"
    <3>1. p[f] \in RouteNames /\ Legal(f) = {<<s>> : s \in RouteNames}
      BY <1>1, <2>2, LegalValues DEF Legible
    <3> QED BY <1>4, <1>7, <2>1, <3>1, Zenon
  <2>3. CASE f = "fingerprint"
    <3>1. p[f] \in FingerprintNames /\ Legal(f) = {<<s>> : s \in FingerprintNames}
      BY <1>1, <2>3, LegalValues DEF Legible
    <3> QED BY <1>4, <1>7, <2>1, <3>1, Zenon
  <2>4. CASE f = "storage"
    <3>1. p[f] \in Storages /\ Legal(f) = {<<s>> : s \in Storages}
      BY <1>1, <2>4, LegalValues DEF Legible
    <3> QED BY <1>4, <1>7, <2>1, <3>1, Zenon
  <2> QED BY <1>8, <2>2, <2>3, <2>4
<1>9. CASE f \in Frozen
  <2>1. Flat(p)[f] = <<p.permissions[f]>>
    BY <1>3, <1>9 DEF Steady, Frozen
  <2> QED BY <1>1, <1>4, <1>7, <1>9, <2>1, LegalValues, Zenon DEF Legible
<1>10. CASE f \in Steady
  <2>1. Flat(p)[f] = <<TRUE>>
    BY <1>3, <1>10 DEF Steady
  <2>2. Legal(f) = {<<b>> : b \in BOOLEAN}
    BY <1>1, <1>10, LegalValues, Zenon
  <2> QED BY <1>5, <1>7, <2>1, <2>2, Zenon
<1>11. CASE f \in Switches
  <2>1. Flat(p)[f] = <<p[f]>>
    BY <1>3, <1>11 DEF Steady, Frozen, Switches
  <2>2. Legal(f) = {<<b>> : b \in BOOLEAN}
    BY <1>1, <1>11, LegalValues, Zenon
  <2>3. p[f] \in BOOLEAN
    BY <1>11, Zenon DEF Legible
  <2> QED BY <1>5, <1>7, <2>1, <2>2, <2>3, Zenon
<1> QED BY <1>1, <1>6, <1>8, <1>9, <1>10, <1>11 DEF Paths

(* The document of a policy is read as one, and none that differs from it  *)
(* by a member more, less or out of its values.                            *)
LEMMA WireIsExact ==
    ASSUME NEW p, Legible(p), NEW g \in DOMAIN ToJson(p), NEW f \in Shape[g]
    PROVE  LET doc == ToJson(p)
           IN  /\ FromJson(doc)
               /\ ~FromJson([doc EXCEPT ![g] = [h \in Shape[g] \ {f} |-> doc[g][h]]])
               /\ ~FromJson([doc EXCEPT ![g][f] = <<Wrong>>])
               /\ ~FromJson([doc EXCEPT ![g] = Emplace(doc[g], Wrong, <<TRUE>>)])
<1> DEFINE doc == ToJson(p)
<1>1. /\ doc = [h \in DOMAIN Shape |-> doc[h]] /\ DOMAIN doc = DOMAIN Shape
      /\ \A h \in DOMAIN Shape :
            /\ DOMAIN doc[h] = Shape[h] /\ doc[h] = [m \in Shape[h] |-> doc[h][m]]
            /\ \A m \in Shape[h] : doc[h][m] = Flat(p)[m]
  BY DEF ToJson
<1>2. \A h \in DOMAIN Shape : \A m \in Shape[h] : Flat(p)[m] \in Legal(m) /\ <<Wrong>> \notin Legal(m)
  BY FlatIsLegal
<1>3. g \in DOMAIN Shape /\ Wrong \notin Shape[g]
  BY <1>1, WrongAssumption
<1> HIDE DEF doc
<1>4. FromJson(doc)
  BY <1>1, <1>2 DEF FromJson
<1>5. ASSUME NEW other, FromJson([doc EXCEPT ![g] = other])
      PROVE  DOMAIN other = Shape[g] /\ \A m \in Shape[g] : other[m] \in Legal(m)
  BY <1>1, <1>3, <1>5 DEF FromJson
<1>6. ~FromJson([doc EXCEPT ![g] = [h \in Shape[g] \ {f} |-> doc[g][h]]])
  <2>1. DOMAIN [h \in Shape[g] \ {f} |-> doc[g][h]] # Shape[g]
    OBVIOUS
  <2> QED BY <1>5, <2>1
<1>7. ~FromJson([doc EXCEPT ![g][f] = <<Wrong>>])
  <2> DEFINE other == [doc[g] EXCEPT ![f] = <<Wrong>>]
  <2>1. other[f] = <<Wrong>>
    BY <1>1, <1>3
  <2>2. [doc EXCEPT ![g][f] = <<Wrong>>] = [doc EXCEPT ![g] = other]
    OBVIOUS
  <2>3. <<Wrong>> \notin Legal(f)
    BY <1>2, <1>3
  <2> HIDE DEF other
  <2> QED BY <1>5, <2>1, <2>2, <2>3
<1>8. ~FromJson([doc EXCEPT ![g] = Emplace(doc[g], Wrong, <<TRUE>>)])
  <2>1. Wrong \in DOMAIN Emplace(doc[g], Wrong, <<TRUE>>)
    BY DEF Emplace
  <2> QED BY <1>3, <1>5, <2>1
<1> QED BY <1>4, <1>6, <1>7, <1>8 DEF doc

(* The delta of two policies makes the one of the other.                   *)
LEMMA DeltaTellsAll ==
    ASSUME NEW p, NEW r
    PROVE  Flat(r) = [f \in DOMAIN Flat(p) |->
                        IF \E d \in DiffPolicies(p, r) : d.path = f
                        THEN (CHOOSE d \in DiffPolicies(p, r) : d.path = f).to ELSE Flat(p)[f]]
<1> DEFINE a == Flat(p)
           b == Flat(r)
           diff == DiffPolicies(p, r)
           D == UNION {Shape[g] : g \in DOMAIN Shape}
           told == [f \in D |-> IF \E d \in diff : d.path = f
                                THEN (CHOOSE d \in diff : d.path = f).to ELSE a[f]]
<1>1. DOMAIN a = D /\ DOMAIN b = D /\ b = [f \in D |-> b[f]]
  BY DEF Flat
<1>2. diff = {[path |-> f, from |-> a[f], to |-> b[f]] : f \in {g \in DOMAIN a : a[g] # b[g]}}
  BY DEF DiffPolicies
<1> HIDE DEF a, b, D, diff
<1>3. ASSUME NEW f \in D PROVE b[f] = told[f]
  <2>1. CASE \E d \in diff : d.path = f
    <3>1. \A d \in diff : d.path = f => d.to = b[f]
      BY <1>2
    <3> QED BY <2>1, <3>1
  <2>2. CASE ~\E d \in diff : d.path = f
    <3>1. a[f] # b[f] => [path |-> f, from |-> a[f], to |-> b[f]] \in diff
      BY <1>1, <1>2
    <3>2. [path |-> f, from |-> a[f], to |-> b[f]].path = f
      OBVIOUS
    <3>3. a[f] = b[f]
      BY <2>2, <3>1, <3>2
    <3> QED BY <2>2, <3>3
  <2> QED BY <2>1, <2>2
<1>4. b = told
  BY <1>1, <1>3
<1> QED BY <1>1, <1>4 DEF a, b, diff

(* The wire carries every answer as it is, or not at all, for any          *)
(* requests, stores and managed policies (effective_policy.cc, events.cc). *)
THEOREM WireAlwaysStrict == WireIsStrict
<1>1. ASSUME NEW p \in Answers
      PROVE  LET doc == ToJson(p)
             IN  /\ FromJson(doc)
                 /\ \A g \in DOMAIN doc : \A f \in Shape[g] :
                       /\ ~FromJson([doc EXCEPT ![g] = [h \in Shape[g] \ {f} |-> doc[g][h]]])
                       /\ ~FromJson([doc EXCEPT ![g][f] = <<Wrong>>])
                       /\ ~FromJson([doc EXCEPT ![g] = Emplace(doc[g], Wrong, <<TRUE>>)])
  <2>1. Legible(p)
    BY AnswersAreLegible
  <2>2. "letterbox" \in DOMAIN ToJson(p) /\ "letterbox" \in Shape["letterbox"]
    BY DEF ToJson, Shape
  <2> QED BY <2>1, <2>2, WireIsExact
<1> QED BY <1>1, DeltaTellsAll, Zenon DEF WireIsStrict

(* So the service keeps these laws, whatever it does: authority, as the    *)
(* requests and managed policies give it;                                  *)
THEOREM AuthorityAlways == Spec => []AuthorityHolds
<1>1. AuthorityHolds
  BY WhatDeniesIsFinal DEF AuthorityHolds
<1> QED BY <1>1, PTL

(* every accepted file enforced whole;                                     *)
THEOREM StoredIsAlwaysHeard == Spec => []StoredIsHeard
<1>1. StoredIsHeard
  BY AcceptedFilesAreHeard DEF StoredIsHeard
<1> QED BY <1>1, PTL

(* answers that the entries decide and the wire carries.                   *)
THEOREM AnswersAreAlwaysExact == Spec => []AnswersAreExact
<1>1. AnswersAreExact
  BY EntriesAlwaysDecide, WireAlwaysStrict DEF AnswersAreExact
<1> QED BY <1>1, PTL
=============================================================================
