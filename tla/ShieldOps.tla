------------------------------ MODULE ShieldOps ------------------------------
(***************************************************************************)
(* The shield core (src/shield/core) without its rule matcher: the posture *)
(* of the engine, the exception scopes, the decision pipeline, the two-    *)
(* slot bundle activation, and the block-event ring.  Ids, digests, sites  *)
(* and reasons are opaque values.  A document that comes over the wire is  *)
(* the record of the fields its strict parser looks at.                    *)
(***************************************************************************)
EXTENDS Integers, Sequences, FiniteSetsExt, SequencesExt, Places

CONSTANTS
    Unset,         \* the empty string: a scope field that is not set
    IntMax,        \* the largest int: 2^31 - 1 in the code
    RingCapacity,  \* EventRing::kCapacity: 256 in the code
    ChunkBudget    \* kChunkBudgetBytes, in units of an event's size

ASSUME ShieldAssumption ==
    IntMax \in Nat \ {0} /\ RingCapacity \in Nat \ {0} /\ ChunkBudget \in Nat \ {0}

(* static_cast<int>: the value modulo 2^32, with its sign.                 *)
Narrow(n) ==
    IF n \in -(IntMax + 1)..IntMax
    THEN n
    ELSE ((n + IntMax + 1) % (2 * (IntMax + 1))) - (IntMax + 1)

-----------------------------------------------------------------------------
(* posture.cc *)

PostureInputs == [route_bound : BOOLEAN, engine_alive : BOOLEAN,
                  engine_poisoned : BOOLEAN, kill_switch_on : BOOLEAN]

NormalInputs == [route_bound |-> TRUE, engine_alive |-> TRUE,
                 engine_poisoned |-> FALSE, kill_switch_on |-> FALSE]

Posture(mode, chip, reason) == [mode |-> mode, chip |-> chip, reason |-> reason]

(* Mutant: an engine's death asked about before the route.                 *)
DecidePostureEngineFirst(in) ==
    IF ~in.engine_alive THEN Posture("fail-open", "amber", "engine-dead")
    ELSE IF ~in.route_bound THEN Posture("fail-closed", "red", "route-loss")
    ELSE IF in.engine_poisoned THEN Posture("fail-open", "amber", "engine-poisoned")
    ELSE IF in.kill_switch_on THEN Posture("fail-open", "amber", "kill-switch")
    ELSE Posture("normal", "green", "normal")

DecidePosture(in) ==
    CASE ~in.route_bound -> Posture("fail-closed", "red", "route-loss")
      [] in.route_bound /\ ~in.engine_alive ->
            Posture("fail-open", "amber", "engine-dead")
      [] in.route_bound /\ in.engine_alive /\ in.engine_poisoned ->
            Posture("fail-open", "amber", "engine-poisoned")
      [] in = [NormalInputs EXCEPT !.kill_switch_on = TRUE] ->
            Posture("fail-open", "amber", "kill-switch")
      [] in = NormalInputs -> Posture("normal", "green", "normal")

(* The states the debug page's view has to render.                         *)
PageStates == {"normal", "engine-dead", "engine-poisoned", "kill-switch", "route-loss"}

-----------------------------------------------------------------------------
(* scope.cc: a scope has a scope_id, the five optional filters, an expiry  *)
(* (-1 for none) and a reason.                                             *)

ScopeFields == {"identity", "site", "workspace", "rule_id", "list_id"}

NoLimits == [f \in ScopeFields |-> Unset]

Scope(id, limits, expiry) == [scope_id |-> id, limits |-> limits, expiry_mono |-> expiry]

Expired(s, now) == s.expiry_mono >= 0 /\ now >= s.expiry_mono

ScopeIds(set) == {set[i].scope_id : i \in DOMAIN set}

(* Accepted by ParseScopeSet: no id twice, no expiry below -1.             *)
ParseScopeSet(set) ==
    /\ \A i, j \in DOMAIN set : set[i].scope_id = set[j].scope_id => i = j
    /\ \A i \in DOMAIN set : set[i].expiry_mono >= -1

(* What a scope's fields are compared with, for a request and a hit.       *)
Subject(ctx, hit) ==
    [identity |-> ctx.identity, site |-> ctx.site, workspace |-> ctx.workspace,
     rule_id |-> hit.rule_id, list_id |-> hit.list_id]

Covers(s, ctx, hit, now) ==
    /\ ~Expired(s, now)
    /\ \A f \in ScopeFields : s.limits[f] \in {Unset, Subject(ctx, hit)[f]}

(* Mutant: expiry itself still counts as alive.                            *)
SweepAsOfLate(set, now) ==
    LET Past(s) == s.expiry_mono >= 0 /\ now > s.expiry_mono
    IN  [expired |-> {s.scope_id : s \in {t \in ToSet(set) : Past(t)}},
         active |-> {s.scope_id : s \in {t \in ToSet(set) : ~Past(t)}}]

SweepAsOf(set, now) ==
    LET gone == {i \in DOMAIN set : Expired(set[i], now)}
    IN  [expired |-> {set[i].scope_id : i \in gone},
         active |-> {set[i].scope_id : i \in DOMAIN set \ gone}]

ScopeSetToJson(set) ==
    [i \in DOMAIN set |-> [set[i] EXCEPT !.expiry_mono = Narrow(@)]]

-----------------------------------------------------------------------------
(* match.cc: the decision over the engine's hit, or NoHit.                 *)

NoHit == [action |-> "none", rule_id |-> Unset, list_id |-> Unset]

Verdict(action, why, hit) ==
    [action |-> action, why_code |-> why, engine_decision |-> hit # NoHit,
     rule_id |-> hit.rule_id, list_id |-> hit.list_id]

WhyFromPosture(p) ==
    CASE p.reason = "route-loss" -> "route-loss-fail-closed"
      [] p.reason = "engine-dead" -> "engine-dead-fail-open"
      [] p.reason = "engine-poisoned" -> "engine-poisoned-fail-open"
      [] p.reason = "kill-switch" -> "kill-switch"

WhyFromRule(action) ==
    CASE action = "block" -> "rule-blocked"
      [] action = "allow" -> "rule-allowed"
      [] action = "redirect" -> "rule-redirected"
      [] action = "replace" -> "rule-replaced"

DecideMatch(ctx, have_bundle, hit, scopes, now, in) ==
    LET p == DecidePosture(in)
        excepted == \E i \in DOMAIN scopes : Covers(scopes[i], ctx, hit, now)
    IN  CASE p.mode = "fail-closed" -> Verdict("block", WhyFromPosture(p), NoHit)
          [] p.mode = "fail-open" -> Verdict("allow", WhyFromPosture(p), NoHit)
          [] p.mode = "normal" /\ ~have_bundle -> Verdict("allow", "no-bundle", NoHit)
          [] p.mode = "normal" /\ have_bundle /\ hit = NoHit ->
                Verdict("allow", "no-match", NoHit)
          [] p.mode = "normal" /\ have_bundle /\ hit # NoHit ->
                IF hit.action # "allow" /\ excepted
                THEN Verdict("allow", "exception-scope", hit)
                ELSE Verdict(hit.action, WhyFromRule(hit.action), hit)

-----------------------------------------------------------------------------
(* apply.cc: the active bundle, the last known good one, the pins, and the *)
(* time of the last apply (-1 before the first).                           *)

EmptySlot == [present |-> FALSE]
Slot(id, digest, version) ==
    [present |-> TRUE, bundle_id |-> id, digest |-> digest, version |-> version]

NoState == [active |-> EmptySlot, lkg |-> EmptySlot, pins |-> <<>>, last_apply_mono |-> -1]

SameBundle(a, b) ==
    a.present /\ b.present /\ a.bundle_id = b.bundle_id /\ a.version = b.version

(* ParseSlot and ParseApplyState.                                          *)
ParseSlot(slot) == slot.present => slot.version >= 1
ParseApplyState(st) ==
    /\ ParseSlot(st.active)
    /\ ParseSlot(st.lkg)
    /\ \A i \in DOMAIN st.pins : ParseSlot(st.pins[i])
    /\ st.last_apply_mono >= -1

(* The detail of the first broken invariant, or "ok".                      *)
CheckInvariants(st) ==
    IF Len(st.pins) > 2 THEN "too-many-pins"
    ELSE IF st.active.present /\ \A i \in DOMAIN st.pins : ~SameBundle(st.pins[i], st.active)
    THEN "pins-missing-active"
    ELSE IF SameBundle(st.lkg, st.active) THEN "lkg-duplicates-active"
    ELSE "ok"

Accepts(st) == ParseApplyState(st) /\ CheckInvariants(st) = "ok"

ApplyRefusal(candidate, st, now) ==
    IF st.last_apply_mono >= 0 /\ now < st.last_apply_mono THEN "stale-apply-clock"
    ELSE IF st.active.present /\ candidate.name = st.active.bundle_id
            /\ candidate.version < st.active.version THEN "bundle-version-downgrade"
    ELSE IF st.active.present /\ candidate.name = st.active.bundle_id
            /\ candidate.version = st.active.version THEN "bundle-version-equal-reoffer"
    ELSE "ok"

(* Mutants: only the old bundle is pinned; the first known good bundle     *)
(* stays for ever.                                                         *)
ApplyBundlePinsOld(candidate, st, now) ==
    LET new == Slot(candidate.name, candidate.digest, candidate.version)
        lkg == IF st.active.present THEN st.active ELSE st.lkg
    IN  [active |-> new, lkg |-> lkg, last_apply_mono |-> now,
         pins |-> IF lkg.present THEN <<lkg>> ELSE <<new>>]
ApplyBundleKeepsLkg(candidate, st, now) ==
    LET new == Slot(candidate.name, candidate.digest, candidate.version)
        lkg == IF st.lkg.present THEN st.lkg ELSE st.active
    IN  [active |-> new, lkg |-> lkg, last_apply_mono |-> now,
         pins |-> IF lkg.present THEN <<lkg, new>> ELSE <<new>>]

ApplyBundle(candidate, st, now) ==
    LET new == Slot(candidate.name, candidate.digest, candidate.version)
        lkg == IF st.active.present THEN st.active ELSE st.lkg
    IN  [active |-> new,
         lkg |-> lkg,
         pins |-> IF lkg.present THEN <<lkg, new>> ELSE <<new>>,
         last_apply_mono |-> now]

SlotToJson(slot) ==
    IF slot.present THEN [slot EXCEPT !.version = Narrow(@)] ELSE EmptySlot
ApplyStateToJson(st) ==
    [active |-> SlotToJson(st.active),
     lkg |-> SlotToJson(st.lkg),
     pins |-> [i \in DOMAIN st.pins |-> SlotToJson(st.pins[i])],
     last_apply_mono |-> Narrow(st.last_apply_mono)]

-----------------------------------------------------------------------------
(* events.cc: the ring keeps the last events; a view is the newest ones of *)
(* one identity, within a count and a budget of bytes.                     *)

(* Mutant: a full ring takes no more.                                      *)
RingAppendWhenRoom(ring, e) == IF Len(ring) < RingCapacity THEN Append(ring, e) ELSE ring

RingAppend(ring, e) ==
    LET longer == Append(ring, e)
    IN  IF Len(longer) > RingCapacity THEN Tail(longer) ELSE longer

(* Reading a ring document appends its events one after the other.         *)
ParseRing(events) ==
    LET read[n \in 0..Len(events)] ==
            IF n = 0 THEN <<>> ELSE RingAppend(read[n - 1], events[n])
    IN  read[Len(events)]

EventsOf(ring, identity) == Keep(ring, {i \in DOMAIN ring : ring[i].identity = identity})

RingView(ring, identity, max_events) ==
    LET mine == Reverse(EventsOf(ring, identity))
        Size(k) == FoldLeft(LAMBDA n, e : n + e.size, 0, SubSeq(mine, 1, k))
        Fits(k) == k <= max_events /\ (k <= 1 \/ Size(k) <= ChunkBudget)
    IN  SubSeq(mine, 1, Max({k \in 0..Len(mine) : \A j \in 1..k : Fits(j)}))

Blocked(ring) == Keep(ring, {i \in DOMAIN ring : ring[i].action = "kBlocked"})

BlockedCount(ring, identity) ==
    Cardinality({i \in DOMAIN ring :
        ring[i].identity = identity /\ ring[i].action = "kBlocked"})

(* A request becomes an event without its query and fragment.              *)
RedactTarget(url) == [url EXCEPT !.query = FALSE, !.fragment = FALSE]

MakeEvent(ctx, rule_id, list_id, action, size) ==
    [identity |-> ctx.identity, origin |-> ctx.site, target |-> RedactTarget(ctx.url),
     rule |-> rule_id, list_provenance |-> list_id, action |-> action, size |-> size]
=============================================================================
