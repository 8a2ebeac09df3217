----------------------------- MODULE ShieldHost -----------------------------
(***************************************************************************)
(* shield_host (src/shield/host): one process per request.  The host keeps *)
(* nothing: the apply state, the scope set and the event ring ride in each *)
(* request, and the caller replaces what it holds by what an accepted      *)
(* reply returns.  The caller is outside src/; it is modelled as the       *)
(* simplest one the protocol allows, one request at a time.                *)
(***************************************************************************)
EXTENDS ShieldOps

CONSTANTS
    Identities, Sites,
    Bundles,        \* candidate bundles: [name, version, digest, parse]
    Strays,         \* apply states the host did not emit
    Offers,         \* scopes a caller may ask to add
    Hits,           \* what the engine may answer
    Contexts,       \* requests: [identity, site, workspace, url]
    Postures,       \* posture arguments of the requests
    EventSizes,     \* canonical sizes of events
    MaxTime,        \* bound on the monotonic clock
    MaxCalls        \* bound on the requests that change what the caller holds

ASSUME BundlesAssumption ==
    \A b \in Bundles : b.parse = "ok" => b.version \in Nat \ {0}

(* The active bundle of a stray state has a version the narrowing keeps.   *)
ASSUME StraysAssumption ==
    \A st \in Strays : st.active.present =>
        LET slot == st.active
        IN  /\ slot = Slot(slot.bundle_id, slot.digest, slot.version)
            /\ slot.version \in 0..IntMax

(* A scope asked for has an expiry that is a number, if not one of an int. *)
ASSUME OffersAssumption ==
    \A s \in Offers : s = Scope(s.scope_id, s.limits, s.expiry_mono) /\ s.expiry_mono \in Int

(* A request without an identity is malformed (context.cc).                *)
ASSUME IdentitiesAssumption ==
    Unset \notin Identities /\ \A ctx \in Contexts : ctx.identity \in Identities

ASSUME PosturesAssumption == Postures \subseteq PostureInputs

VARIABLES
    now,        \* the caller's monotonic clock
    apply,      \* the apply state the caller holds
    scopes,     \* the scope set the caller holds
    ring,       \* the events the browser has recorded
    reply,      \* the last reply
    installed,  \* the bundles activated so far, in order
    swept,      \* the time of the last sweep, -1 before
    fresh,      \* the ids of the scopes added since that sweep
    calls       \* the requests spent

vars == <<now, apply, scopes, ring, reply, installed, swept, fresh, calls>>

NoReply == [method |-> "none", status |-> "none"]
Ok(method, body) == [method |-> method, status |-> "ok", body |-> body]
Reject(method, detail) == [method |-> method, status |-> "rejected", detail |-> detail]
Malformed(method) == [method |-> method, status |-> "malformed"]
FrozenError(method, code) == [method |-> method, status |-> code]

Init ==
    /\ now = 0
    /\ apply = NoState
    /\ scopes = <<>>
    /\ ring = <<>>
    /\ reply = NoReply
    /\ installed = <<>>
    /\ swept = -1
    /\ fresh = {}
    /\ calls = 0

Spend == calls < MaxCalls /\ calls' = calls + 1

-----------------------------------------------------------------------------
(* bundle-load, bundle-check, and the bundle argument of match and apply:  *)
(* a content refusal is a rejection, a parse failure an error.             *)
BundleReply(method, b) ==
    IF b.parse = "malformed" THEN Malformed(method) ELSE Reject(method, b.parse)

BundleLoad(b) ==
    IF b.parse = "ok" THEN Ok("bundle-load", b.digest) ELSE BundleReply("bundle-load", b)

(* apply: the bundle, then the state, then its invariants, then the        *)
(* activation.                                                             *)
ApplyReply(b, st) ==
    IF b.parse # "ok" THEN BundleReply("apply", b)
    ELSE IF ~ParseApplyState(st) THEN Malformed("apply")
    ELSE IF CheckInvariants(st) # "ok" THEN Reject("apply", CheckInvariants(st))
    ELSE IF ApplyRefusal(b, st, now) # "ok" THEN Reject("apply", ApplyRefusal(b, st, now))
    ELSE Ok("apply", ApplyStateToJson(ApplyBundle(b, st, now)))

Apply(b) ==
    /\ Spend
    /\ reply' = ApplyReply(b, apply)
    /\ IF reply'.status = "ok"
       THEN apply' = reply'.body /\ installed' = Append(installed, b)
       ELSE UNCHANGED <<apply, installed>>
    /\ UNCHANGED <<now, scopes, ring, swept, fresh>>

-----------------------------------------------------------------------------
(* The exception surface.  r is the reply when the held set parses.        *)

ScopeRequest(method, r) ==
    /\ Spend
    /\ reply' = IF ParseScopeSet(scopes) THEN r ELSE Malformed(method)
    /\ scopes' = IF reply'.status = "ok" THEN reply'.body ELSE scopes
    /\ UNCHANGED <<now, apply, ring, installed>>

(* The ids added since the last sweep: history for the properties.         *)
NoSweep ==
    /\ fresh' = (fresh \cup (ScopeIds(scopes') \ ScopeIds(scopes))) \cap ScopeIds(scopes')
    /\ UNCHANGED swept

Emitted(method, set) == Ok(method, ScopeSetToJson(set))

Without(set, ids) == Keep(set, {i \in DOMAIN set : set[i].scope_id \notin ids})

ExceptionAdd(s) ==
    LET r ==
            IF s.expiry_mono < -1 THEN Malformed("exception-add")
            ELSE IF s.scope_id \in ScopeIds(scopes)
            THEN Reject("exception-add", "duplicate-scope-id")
            ELSE Emitted("exception-add", Append(scopes, s))
    IN  ScopeRequest("exception-add", r) /\ NoSweep

ExceptionRemove(id) ==
    LET r ==
            IF id \in ScopeIds(scopes) THEN Emitted("exception-remove", Without(scopes, {id}))
            ELSE Reject("exception-remove", "unknown-scope-id")
    IN  ScopeRequest("exception-remove", r) /\ NoSweep

ExceptionSweep ==
    LET r == Emitted("exception-sweep", Without(scopes, SweepAsOf(scopes, now).expired))
    IN  /\ ScopeRequest("exception-sweep", r)
        /\ IF reply'.status = "ok" THEN swept' = now /\ fresh' = {}
           ELSE UNCHANGED <<swept, fresh>>

ToggleId(site) == <<"site-toggle", site>>
ToggleScope(site, expiry) ==
    Scope(ToggleId(site), [NoLimits EXCEPT !["site"] = site], expiry)

SiteToggle(site, on, expiry) ==
    LET id == ToggleId(site)
        r ==
            IF on /\ id \in ScopeIds(scopes)
            THEN [method |-> "site-toggle", status |-> "rejected",
                  detail |-> "toggle-already-on", site |-> site]
            ELSE IF on THEN Emitted("site-toggle", Append(scopes, ToggleScope(site, expiry)))
            ELSE IF id \in ScopeIds(scopes) THEN Emitted("site-toggle", Without(scopes, {id}))
            ELSE Reject("site-toggle", "toggle-already-off")
    IN  ScopeRequest("site-toggle", r) /\ NoSweep

-----------------------------------------------------------------------------
(* What the browser does with a decision: event-emit builds the redacted   *)
(* row, and the ring keeps the event.                                      *)
EventEmit(ctx, action, size) ==
    LET e == MakeEvent(ctx, Unset, Unset, action, size)
    IN  /\ Spend
        /\ reply' = Ok("event-emit", e)
        /\ ring' = Append(ring, e)
        /\ UNCHANGED <<now, apply, scopes, installed, swept, fresh>>

-----------------------------------------------------------------------------
(* The requests that only ask: their replies over the held documents.      *)

(* match: the scopes, the posture, then the decision over the engine's hit. *)
Match(ctx, hit, have_bundle, in) ==
    IF ~ParseScopeSet(scopes) THEN Malformed("match")
    ELSE Ok("match", [posture |-> DecidePosture(in),
                      verdict |-> DecideMatch(ctx, have_bundle, hit, scopes, now, in)])

(* The frozen surface.  Every request parses the ring anew.                *)
Status(identity, origin_known, flag) ==
    IF identity = Unset THEN FrozenError("Status", "kUnknownIdentity")
    ELSE IF ~origin_known THEN FrozenError("Status", "kUnknownOrigin")
    ELSE Ok("Status", [enabled |-> flag = "on",
                       blocked_count |-> BlockedCount(ParseRing(ring), identity)])

RecentEvents(identity, max_events) ==
    IF identity = Unset THEN FrozenError("RecentEvents", "kMalformedInput")
    ELSE Ok("RecentEvents", RingView(ParseRing(ring), identity, max_events))

(* The debug page, for the dev channel only.  The enterprise row forces    *)
(* the kill switch and must then give a reason, and only then.             *)
Enterprise == [force_disabled : BOOLEAN, reason : BOOLEAN]

DebugPage(channel, in, enterprise) ==
    LET in2 == [in EXCEPT !.kill_switch_on = @ \/ enterprise.force_disabled]
    IN  IF channel # "dev" THEN Reject("debug-page", "build-channel-not-dev")
        ELSE IF enterprise.force_disabled # enterprise.reason
                \/ ~ParseApplyState(apply) \/ ~ParseScopeSet(scopes)
        THEN Malformed("debug-page")
        ELSE Ok("debug-page", [posture |-> DecidePosture(in2),
                               bundles |-> ApplyStateToJson(apply),
                               chip_count |-> Len(Blocked(ParseRing(ring))),
                               ring_events |-> Len(ParseRing(ring)),
                               scope_count |-> Len(scopes)])

Tick ==
    /\ now < MaxTime
    /\ now' = now + 1
    /\ reply' = NoReply
    /\ UNCHANGED <<apply, scopes, ring, installed, swept, fresh, calls>>

Next ==
    \/ \E b \in Bundles : Apply(b)
    \/ \E s \in Offers : ExceptionAdd(s)
    \/ \E id \in ScopeIds(scopes) \cup {s.scope_id : s \in Offers} : ExceptionRemove(id)
    \/ ExceptionSweep
    \/ \E site \in Sites, on \in BOOLEAN, expiry \in -1..MaxTime : SiteToggle(site, on, expiry)
    \/ \E ctx \in Contexts, action \in {"kBlocked", "kAllowed"}, size \in EventSizes :
          EventEmit(ctx, action, size)
    \/ Tick

Spec == Init /\ [][Next]_vars
-----------------------------------------------------------------------------
(* The numbers met so far survive the narrowing to int.                    *)
NumbersFit ==
    /\ now <= IntMax
    /\ \A i \in DOMAIN installed : installed[i].version <= IntMax

(* The host accepts the apply state it emitted: whatever sequence of       *)
(* activations a caller drives, the next request is not refused for the    *)
(* state's own sake (apply.cc: ApplyBundle against CheckInvariants and     *)
(* ParseApplyState).  The same for a state it did not emit, if that has an *)
(* active bundle.  Numbers beyond int are where this ends: see Narrow.     *)
EmittedIsAccepted ==
    /\ NumbersFit => Accepts(apply)
    /\ \A b \in Bundles, st \in Strays :
          LET r == ApplyReply(b, st)
          IN  now <= IntMax /\ r.status = "ok" /\ b.version <= IntMax /\ st.active.present
              => Accepts(r.body)

(* The slots are the history: the active bundle is the one activated last, *)
(* the last known good one the one activated before it, and the pins are   *)
(* exactly these two, whatever was refused in between (apply.cc).          *)
SlotsFollowHistory ==
    NumbersFit =>
        LET n == Len(installed)
            Past(i) == Slot(installed[i].name, installed[i].digest, installed[i].version)
        IN  /\ n = 0 => apply = NoState
            /\ n >= 1 => apply.active = Past(n)
            /\ n = 1 => apply.lkg = EmptySlot /\ apply.pins = <<Past(1)>>
            /\ n >= 2 => apply.lkg = Past(n - 1) /\ apply.pins = <<Past(n - 1), Past(n)>>

(* A toggle refused as already on is in force for every request of its     *)
(* site.  The two ways it is not: it has expired and no sweep has run      *)
(* since it was there and expired (shield_host.cc looks the id up, not the *)
(* expiry), or a scope with other limits was added under the toggle's id.  *)
RefusedToggleIsInForce ==
    reply.method = "site-toggle" /\ reply.status = "rejected" =>
        \/ reply.detail = "toggle-already-off"
        \/ \E i \in DOMAIN scopes :
              LET s == scopes[i]
              IN  /\ s.scope_id = ToggleId(reply.site)
                  /\ \/ s.limits # ToggleScope(reply.site, 0).limits
                     \/ Expired(s, now) /\ (swept < s.expiry_mono \/ s.scope_id \in fresh)
                     \/ \A ctx \in Contexts, hit \in Hits :
                           ctx.site = reply.site => Covers(s, ctx, hit, now)

(* The three views of the ring tell one story: the chip of the debug page  *)
(* counts what the statuses of all identities count together; an identity  *)
(* is shown its newest events without a gap, at least one if it has any,   *)
(* and no event of another identity (events.cc, shield_host.cc).           *)
ViewsAgree ==
    LET r == ParseRing(ring)
        CountOf(id) == Status(id, TRUE, "on").body.blocked_count
        shown == DebugPage("dev", NormalInputs, [force_disabled |-> FALSE, reason |-> FALSE])
    IN  /\ r = SubSeq(ring, Max({1, Len(ring) - RingCapacity + 1}), Len(ring))
        /\ shown.status = "ok" =>
              shown.body.chip_count =
                 Cardinality(UNION {{id} \X (1..CountOf(id)) : id \in Identities})
        /\ \A id \in Identities, n \in 1..RingCapacity :
              LET events == RecentEvents(id, n).body
              IN  /\ IsPrefix(events, Reverse(EventsOf(r, id)))
                  /\ EventsOf(r, id) # <<>> => events # <<>>
                  /\ Len(Blocked(events)) <= CountOf(id)

(* What is done with a request, by the chip that is shown.                  *)
TellsTruth(chip, action, in, have_bundle, hit, excepted) ==
    /\ chip = "red" <=> ~in.route_bound
    /\ chip = "red" => action = "block"
    /\ chip = "amber" => action = "allow"
    /\ chip = "green" => in = NormalInputs
    /\ chip = "green" /\ have_bundle /\ hit # NoHit =>
          action = IF excepted THEN "allow" ELSE hit.action
    /\ action # "allow" => chip = "red" \/ (have_bundle /\ hit.action = action /\ ~excepted)

(* The chip tells what becomes of a request.  Red: it is blocked.  Amber:   *)
(* it is allowed.  Green: the engine is alive and not poisoned, no one has  *)
(* switched it off, the enterprise policy included, and what the rule says  *)
(* that matches is done, unless an exception in force covers it; but with   *)
(* no bundle nothing is matched, and the chip is green all the same.  And   *)
(* nothing is blocked that none of these tells (posture.cc, match.cc,       *)
(* shield_host.cc).                                                         *)
ChipTellsProtection ==
    \A in \in Postures :
        /\ \A e \in Enterprise :
              LET shown == DebugPage("dev", in, e)
              IN  shown.status = "ok" =>
                    /\ shown.body.posture.reason \in PageStates
                    /\ shown.body.posture.chip = "green" => in = NormalInputs /\ ~e.force_disabled
        /\ \A ctx \in Contexts, hit \in Hits, have_bundle \in BOOLEAN :
              LET m == Match(ctx, hit, have_bundle, in)
                  excepted == \E i \in DOMAIN scopes : Covers(scopes[i], ctx, hit, now)
              IN  m.status = "ok" => TellsTruth(m.body.posture.chip, m.body.verdict.action, in,
                                                have_bundle, hit, excepted)
=============================================================================
