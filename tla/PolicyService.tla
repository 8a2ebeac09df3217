---------------------------- MODULE PolicyService ----------------------------
(***************************************************************************)
(* The resolver service's accumulated state and the snapshots it           *)
(* distributes (policy/core/service.cc, snapshot.cc).  Every resolve puts  *)
(* its policy in the cache, under the cache's lock, and then in the state, *)
(* under the service's: the steps of concurrent resolves interleave.       *)
(* SnapshotFull and SnapshotDiff encode the state at the next sequence     *)
(* number, the diff against the last snapshot emitted; a blob over the     *)
(* budget is refused, and the sequence number is spent even then.          *)
(*                                                                         *)
(* External: the transport, which may lose, repeat and reorder blobs, and  *)
(* the consumer, which keeps the state of the last blob it could apply and *)
(* falls back to denying everything (no entries) when one does not apply   *)
(* or it restarts.  Abstracted: a policy is a model value; the SHA-256 of  *)
(* a state is the state; the size of a blob is its number of entries.  A   *)
(* name is the sequence of its parts between bars, and the site of a key   *)
(* stands for the site and the trust it is resolved for.                   *)
(***************************************************************************)
EXTENDS PolicyCacheOps

CONSTANTS
    Threads,        \* callers of ResolveJson
    Asks,           \* per caller, the keys it asks for
    Policies,       \* effective policies
    Budget,         \* kSnapshotBudgetBytes, in entries
    MaxSeq          \* snapshots attempted (TLC's bound)

ASSUME ServiceAssumption == Budget \in Nat /\ MaxSeq \in Nat

VARIABLES
    resolved,       \* per thread, the policies in the cache but not in state_
    state,          \* state_, a function from joined names to entries
    seq,            \* seq_
    last,           \* last_snapshot_seq_ and last_snapshot_state_
    sent,           \* the blobs handed to the transport
    replica,        \* the consumer's state and the seq it came with
    emitted,        \* observer: the state each emitted seq stood for
    raced           \* observer: keys whose last resolves ran at the same time

vars == <<cache, resolved, state, seq, last, sent, replica, emitted, raced>>

resolving == <<cache, resolved, state, raced>>
distributing == <<seq, last, sent, replica, emitted>>

Denying == [seq |-> 0, entries |-> EmptyMap]

(* The key of an entry of state_: its names joined by bars, which nothing  *)
(* keeps out of the names.                                                 *)
StateKeyOf(key) == key.identity \o key.site

(* What the snapshots encode: every entry of state_, under its own names.  *)
StateEntries ==
    [k \in {state[s].key : s \in DOMAIN state} |-> state[StateKeyOf(k)].policy]

----------------------------------------------------------------------------
(* The codec.                                                              *)

Only(f, keys) == [k \in keys |-> f[k]]
Over(f, g) == [k \in DOMAIN f \cup DOMAIN g |-> IF k \in DOMAIN f THEN f[k] ELSE g[k]]

EncodeFullSnapshot(s, entries) ==
    [kind |-> "full", seq |-> s, base_seq |-> s, hash |-> entries, entries |-> entries]

EncodeDiffSnapshot(s, base_seq, base, entries) ==
    LET kept == DOMAIN entries \cap DOMAIN base
    IN  [kind |-> "diff", seq |-> s, base_seq |-> base_seq, hash |-> entries,
         added   |-> Only(entries, DOMAIN entries \ DOMAIN base),
         changed |-> Only(entries, {k \in kept : entries[k] # base[k]}),
         removed |-> DOMAIN base \ DOMAIN entries]

Size(blob) ==
    IF blob.kind = "full" THEN Cardinality(DOMAIN blob.entries)
    ELSE Cardinality(DOMAIN blob.added) + Cardinality(DOMAIN blob.changed)
            + Cardinality(blob.removed)

(* The state a blob stands for, given the state it is applied to.          *)
Reconstructed(blob, base) ==
    IF blob.kind = "full" THEN blob.entries
    ELSE Without(Over(blob.changed, Over(blob.added, base)), blob.removed)

(* Mutant: the result is not compared with the hash.                       *)
AppliesUnverified(blob, base) == TRUE

(* The integrity hash covers the result; base_seq is parsed, never checked. *)
Applies(blob, base) == Reconstructed(blob, base) = blob.hash

----------------------------------------------------------------------------
Init ==
    /\ cache = EmptyCache
    /\ resolved = [t \in Threads |-> {}]
    /\ state = EmptyMap
    /\ seq = 0
    /\ last = Denying
    /\ sent = {}
    /\ replica = Denying
    /\ emitted = [s \in {0} |-> EmptyMap]
    /\ raced = {}

HalfResolved == {r.key : r \in UNION {resolved[t] : t \in Threads}}

(* The first half of ResolveJson of a request that resolves: cache_.Put.   *)
ResolveJson(t, key, policy) ==
    /\ resolved[t] = {}
    /\ cache' = Put(cache, key, policy)
    /\ resolved' = [resolved EXCEPT ![t] = {[key |-> key, policy |-> policy]}]
    /\ raced' = IF key \in HalfResolved THEN raced \cup {key} ELSE raced \ {key}
    /\ UNCHANGED <<state, distributing>>

(* Its second half: state_[StateKeyOf(e)] = e, under mu_.                  *)
Accumulate(t) ==
    \E r \in resolved[t] :
        /\ state' = With(state, StateKeyOf(r.key), r)
        /\ resolved' = [resolved EXCEPT ![t] = {}]
        /\ UNCHANGED <<cache, raced, distributing>>

(* Mutant: the base advances even when the blob was refused.               *)
EmitAlways(blob) ==
    /\ last' = [seq |-> blob.seq, entries |-> StateEntries]
    /\ IF Size(blob) <= Budget
       THEN /\ sent' = sent \cup {blob}
            /\ emitted' = With(emitted, blob.seq, StateEntries)
       ELSE UNCHANGED <<sent, emitted>>

(* The common part of the two snapshots, after ++seq_: a blob in the budget *)
(* becomes the base of the next diff, one over it changes nothing more.    *)
Emit(blob) ==
    IF Size(blob) <= Budget
    THEN /\ last' = [seq |-> blob.seq, entries |-> StateEntries]
         /\ sent' = sent \cup {blob}
         /\ emitted' = With(emitted, blob.seq, StateEntries)
    ELSE UNCHANGED <<last, sent, emitted>>

SnapshotFull ==
    /\ seq < MaxSeq
    /\ seq' = seq + 1
    /\ Emit(EncodeFullSnapshot(seq + 1, StateEntries))
    /\ UNCHANGED <<resolving, replica>>

SnapshotDiff ==
    /\ seq < MaxSeq
    /\ seq' = seq + 1
    /\ Emit(EncodeDiffSnapshot(seq + 1, last.seq, last.entries, StateEntries))
    /\ UNCHANGED <<resolving, replica>>

(* The consumer takes any blob ever sent.                                  *)
Receive(blob) ==
    /\ replica' = IF Applies(blob, replica.entries)
                  THEN [seq |-> blob.seq,
                        entries |-> Reconstructed(blob, replica.entries)]
                  ELSE Denying
    /\ UNCHANGED <<resolving, seq, last, sent, emitted>>

RestartReplica ==
    /\ replica' = Denying
    /\ UNCHANGED <<resolving, seq, last, sent, emitted>>

Next ==
    \/ \E t \in Threads :
        \/ \E key \in Asks[t], policy \in Policies : ResolveJson(t, key, policy)
        \/ Accumulate(t)
    \/ SnapshotFull
    \/ SnapshotDiff
    \/ \E blob \in sent : Receive(blob)
    \/ RestartReplica

Spec == Init /\ [][Next]_vars

----------------------------------------------------------------------------
(* Properties.                                                             *)

(* Whatever the transport loses, repeats or reorders, the consumer never   *)
(* enforces a state the service did not emit: what it holds is exactly the *)
(* state of the seq it holds it under.                                     *)
ReplicaIsExact ==
    /\ replica.seq \in DOMAIN emitted
    /\ replica.entries = emitted[replica.seq]

(* The chain of diffs is unbroken: each names as its base a snapshot that  *)
(* was emitted, and applied to the state of that snapshot it yields its    *)
(* own, even where blobs over the budget were refused in between.          *)
DiffsChain ==
    \A blob \in sent : blob.kind = "diff" =>
        /\ blob.base_seq \in DOMAIN emitted
        /\ Applies(blob, emitted[blob.base_seq])
        /\ Reconstructed(blob, emitted[blob.base_seq]) = emitted[blob.seq]

(* The cache and the accumulated state, written under two locks, agree on  *)
(* the policy of every cached key, with three exceptions: a resolve of the *)
(* key is between its two writes; two resolves of it overlapped and none   *)
(* has run by itself since, so that one that did repairs what a race left; *)
(* and the entry of another key, whose names join to the same string, has  *)
(* replaced this one's (ResolveJson, StateKeyOf).                          *)
CacheAgreesWithState ==
    \A k \in DOMAIN cache.map \ (raced \cup HalfResolved) :
        /\ StateKeyOf(k) \in DOMAIN state
        /\ LET entry == state[StateKeyOf(k)]
           IN  entry.key = k => entry.policy = cache.map[k].policy
=============================================================================
