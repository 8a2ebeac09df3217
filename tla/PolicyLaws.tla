----------------------------- MODULE PolicyLaws -----------------------------
(***************************************************************************)
(* The resolver service together with what it reads before it resolves:    *)
(* what it decides for any request, store and managed policy.  These laws  *)
(* do not depend on the state, and are evaluated where the service starts. *)
(***************************************************************************)
EXTENDS PolicyService, PolicyStore

AtStart == seq = 0 /\ state = EmptyMap /\ cache = EmptyCache

(* What denies is final, and the managed policy holds (resolve.cc).        *)
AuthorityHolds == AtStart => Authority

(* What the store accepts the service enforces whole (store.cc,            *)
(* service.cc, resolve_io.cc).                                             *)
StoredIsHeard == AtStart => StoreIsHeard

(* The entry that leads decides, not the order of the entries (resolve.cc: *)
(* Prefer), and the wire carries a policy as it is or not at all           *)
(* (effective_policy.cc).                                                  *)
AnswersAreExact == AtStart => EntriesDecide /\ WireIsStrict
=============================================================================
