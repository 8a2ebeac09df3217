--------------------------- MODULE PermissionOps ---------------------------
(***************************************************************************)
(* The clock-free permission core (permissions/core): the overlay store,   *)
(* the seven mutating operations, and the path by which the stored overlay *)
(* reaches a decision (ProjectViewJson, then the overlay stage of the      *)
(* policy resolver).  Every operation is a function of a store, its        *)
(* arguments and the caller's now_ms, and yields an OpOutcome: the new     *)
(* store and the audit rows of the change.                                 *)
(*                                                                         *)
(* Abstracted: names are model values, so the lexical refusals             *)
(* (bad-identity, bad-domain, bad-capability, bad-state, bad-scope) have   *)
(* no counterpart; an identity with no record is one whose record is       *)
(* empty, which no operation tells apart; extras are written by no         *)
(* operation; created_at and revoked_at only label rows, except that a 7d  *)
(* grant carries expires_at = created_at + Week.                           *)
(***************************************************************************)
EXTENDS Integers

CONSTANTS
    Identities,     \* identity keys
    Domains,        \* registrable domains
    Capabilities,   \* the frozen four, or a subset of them
    Sessions,       \* session ids
    NoSession,      \* the empty session_id
    Week,           \* kSevenDaysMillis
    MaxInt,         \* the largest int64_t
    Times,          \* what the wall clock (or --as-of) can read
    GrantIds        \* the sequence numbers grants may take (TLC's bound)

ASSUME OpsAssumption ==
    /\ NoSession \notin Sessions
    /\ Week \in Nat \ {0}
    /\ MaxInt \in Nat
    /\ Week <= MaxInt
    /\ Times \subseteq 0 .. MaxInt
    /\ 0 \in Times
    /\ GrantIds \subseteq Nat \ {0}
    /\ Capabilities # {}

CapStates == {"kDeny", "kAsk", "kAllow"}
NoDefault == "none"
Scopes == {"once", "session", "7d"}
Events == {"grant", "revoke", "expiry"}

(* StoredGrant.  The numeric part of the id "g<seq>" stands for the id.    *)
StoredGrant ==
    [id: Nat, identity: Identities, domain: Domains, capability: Capabilities,
     scope: Scopes, expires_at: Nat, session_id: Sessions \cup {NoSession},
     remaining_uses: {0, 1}, revoked: BOOLEAN]

Store ==
    [corrupt: BOOLEAN, next_seq: Nat,
     defaults: [Identities -> [Capabilities -> CapStates \cup {NoDefault}]],
     denied: SUBSET Identities,
     grants: SUBSET StoredGrant]

EmptyStore ==
    [corrupt |-> FALSE, next_seq |-> 1,
     defaults |-> [i \in Identities |-> [c \in Capabilities |-> NoDefault]],
     denied |-> {}, grants |-> {}]

(* What LoadStore returns for text that is not a canonical, schema-valid   *)
(* store, and what the marker SerializeStore writes for it reads back as.  *)
CorruptStore == [EmptyStore EXCEPT !.corrupt = TRUE]

(* An AuditRow.  `about' is the id of the grant the row reports (0 for a   *)
(* default or deny-list row): the code writes one row per grant in the     *)
(* same loop iteration that changes it and never prints the id.            *)
AuditRow ==
    [event: Events, identity: Identities, capability: Capabilities,
     scope: Scopes \cup {"identity_default", "identity_deny_list"},
     about: Nat]

GrantRow(event, g) ==
    [event |-> event, identity |-> g.identity, capability |-> g.capability,
     scope |-> g.scope, about |-> g.id]

IdentityRow(event, identity, capability, scope) ==
    [event |-> event, identity |-> identity, capability |-> capability,
     scope |-> scope, about |-> 0]

Refuse(in) == [ok |-> FALSE, store |-> in, rows |-> {}]
Accept(store, rows) == [ok |-> TRUE, store |-> store, rows |-> rows]

Live(store) == {g \in store.grants : ~g.revoked}
IdTaken(store, id) == \E g \in store.grants : g.id = id

----------------------------------------------------------------------------
(* The operations (ops.cc).                                                *)

(* Mutant: the corrupt-store refusal forgotten.                            *)
SetDefaultRepairs(in, identity, capability, state) ==
    Accept([in EXCEPT !.corrupt = FALSE,
                      !.defaults[identity][capability] = state], {})

SetDefault(in, identity, capability, state) ==
    IF in.corrupt THEN Refuse(in)
    ELSE IF in.defaults[identity][capability] = state THEN Accept(in, {})
    ELSE Accept([in EXCEPT !.defaults[identity][capability] = state],
                {IdentityRow(IF state = "kAllow" THEN "grant" ELSE "revoke",
                             identity, capability, "identity_default")})

(* The id loop: the first free sequence number from next_seq on; next_seq  *)
(* ends one past it.                                                       *)
IsNextFreeId(in, id) ==
    /\ id >= in.next_seq
    /\ ~IdTaken(in, id)
    /\ \A other \in in.next_seq .. (id - 1) : IdTaken(in, other)

(* Mutant: the lowest free number, next_seq ignored, so ids come back.     *)
LowestFreeId(in) ==
    CHOOSE id \in GrantIds :
        /\ ~IdTaken(in, id)
        /\ \A other \in GrantIds : other < id => IdTaken(in, other)

NextFreeId(in) ==
    CHOOSE id \in {in.next_seq} \cup {g.id + 1 : g \in in.grants} :
        IsNextFreeId(in, id)

NewGrant(in, identity, domain, capability, scope, session_id, now_ms) ==
    [id |-> NextFreeId(in), identity |-> identity, domain |-> domain,
     capability |-> capability, scope |-> scope,
     expires_at |-> IF scope = "7d" THEN now_ms + Week ELSE 0,
     session_id |-> session_id,
     remaining_uses |-> IF scope = "once" THEN 1 ELSE 0,
     revoked |-> FALSE]

GrantTemp(in, identity, domain, capability, scope, session_id, now_ms) ==
    IF \/ in.corrupt
       \/ (scope = "session") # (session_id # NoSession)    \* bad-session
       \/ scope = "7d" /\ now_ms > MaxInt - Week            \* bad-time
    THEN Refuse(in)
    ELSE LET g == NewGrant(in, identity, domain, capability, scope,
                           session_id, now_ms)
         IN  Accept([in EXCEPT !.next_seq = g.id + 1,
                               !.grants = @ \cup {g}],
                    {GrantRow("grant", g)})

SetDenied(in, identity, denied) ==
    IF in.corrupt THEN Refuse(in)
    ELSE IF (identity \in in.denied) = denied THEN Accept(in, {})
    ELSE Accept([in EXCEPT !.denied = IF denied THEN @ \cup {identity}
                                                ELSE @ \ {identity}],
                {IdentityRow(IF denied THEN "revoke" ELSE "grant",
                             identity, c, "identity_deny_list") :
                     c \in Capabilities})

(* The first unrevoked grant with the id decides; ids are unique (LoadStore *)
(* reads a duplicate as corruption), so "first" is "the".                  *)
ConsumeOnce(in, grant_id) ==
    LET spendable == {g \in Live(in) : /\ g.id = grant_id
                                       /\ g.scope = "once"
                                       /\ g.remaining_uses > 0}
    IN  IF in.corrupt \/ spendable = {} THEN Refuse(in)
        ELSE Accept([in EXCEPT !.grants = @ \ spendable],
                    {GrantRow("expiry", g) : g \in spendable})

(* The three reasons a live grant ends; a tombstone is never swept.        *)
Ended(g, now_ms, active_session_id) ==
    /\ ~g.revoked
    /\ \/ g.scope = "once" /\ g.remaining_uses <= 0
       \/ g.scope = "7d" /\ g.expires_at <= now_ms
       \/ g.scope = "session" /\ g.session_id # active_session_id

SweepExpired(in, now_ms, active_session_id) ==
    LET over == {g \in in.grants : Ended(g, now_ms, active_session_id)}
    IN  IF in.corrupt THEN Refuse(in)
        ELSE Accept([in EXCEPT !.grants = @ \ over],
                    {GrantRow("expiry", g) : g \in over})

Tombstone(g) == [g EXCEPT !.revoked = TRUE]

(* Tombstones the live grants in `hit': shared by the two revocations.     *)
RevokeGrants(grants, hit) == (grants \ hit) \cup {Tombstone(g) : g \in hit}

(* Mutant: the site is revoked for every identity, reported for one.       *)
RevokeSiteEverywhere(in, identity, domain) ==
    LET hit == {g \in Live(in) : g.domain = domain}
    IN  IF in.corrupt THEN Refuse(in)
        ELSE Accept([in EXCEPT !.grants = RevokeGrants(@, hit)],
                    {[GrantRow("revoke", g) EXCEPT !.identity = identity] :
                         g \in hit})

RevokeSite(in, identity, domain) ==
    LET hit == {g \in Live(in) : g.identity = identity /\ g.domain = domain}
    IN  IF in.corrupt THEN Refuse(in)
        ELSE Accept([in EXCEPT !.grants = RevokeGrants(@, hit)],
                    {GrantRow("revoke", g) : g \in hit})

(* Mutant: the defaults are cleared after the rows were written.           *)
RevokeAllSilent(in, identity) ==
    LET hit == {g \in Live(in) : g.identity = identity}
    IN  IF in.corrupt THEN Refuse(in)
        ELSE Accept([in EXCEPT !.grants = RevokeGrants(@, hit),
                               !.defaults[identity] =
                                   [c \in Capabilities |-> NoDefault]],
                    {GrantRow("revoke", g) : g \in hit})

RevokeAll(in, identity) ==
    LET hit == {g \in Live(in) : g.identity = identity}
        set == {c \in Capabilities : in.defaults[identity][c] # NoDefault}
    IN  IF in.corrupt THEN Refuse(in)
        ELSE Accept([in EXCEPT !.grants = RevokeGrants(@, hit),
                               !.defaults[identity] =
                                   [c \in Capabilities |-> NoDefault]],
                    {IdentityRow("revoke", identity, c, "identity_default") :
                         c \in set}
                    \cup {GrantRow("revoke", g) : g \in hit})

(* Mutant: the raw reading of the clock.                                   *)
RawNow(last_seen_ms, observed_ms) == observed_ms

EffectiveNow(last_seen_ms, observed_ms) ==
    IF observed_ms > last_seen_ms THEN observed_ms ELSE last_seen_ms

----------------------------------------------------------------------------
(* From the store to a decision.                                           *)

(* ProjectViewJson: what the resolver is handed.                           *)
ProjectView(store) ==
    [corrupt |-> store.corrupt,
     denied_identities |-> IF store.corrupt THEN {} ELSE store.denied,
     defaults |-> store.defaults,
     grants |-> {g \in Live(store) :
                    ~(g.scope = "once" /\ g.remaining_uses <= 0)}]

OverlayGrantActive(g, session_id, now_ms) ==
    \/ g.scope = "once" /\ g.remaining_uses > 0
    \/ g.scope = "session" /\ session_id # NoSession /\ g.session_id = session_id
    \/ g.scope = "7d" /\ g.expires_at > now_ms

(* ApplyPermissionOverlay for one capability, over the tier table's answer *)
(* `tier'.                                                                 *)
OverlayDecision(view, identity, domain, capability, session_id, now_ms, tier) ==
    IF view.corrupt \/ identity \in view.denied_identities THEN "kDeny"
    ELSE IF \E g \in view.grants :
                /\ g.identity = identity /\ g.domain = domain
                /\ g.capability = capability
                /\ OverlayGrantActive(g, session_id, now_ms)
         THEN "kAllow"
    ELSE IF view.defaults[identity][capability] # NoDefault
         THEN view.defaults[identity][capability]
    ELSE tier
=============================================================================
