---------------------------- MODULE PolicyResolve ----------------------------
(***************************************************************************)
(* The policy resolver (src/policy/core): the pure function from a parsed  *)
(* request to an effective policy, and the delta of two policies.  Names   *)
(* (identities, ids of exceptions) are numbers, in the order of the names; *)
(* 0 is the empty one.  A trust of "" is none.                             *)
(***************************************************************************)
EXTENDS Integers, SequencesExt, FiniteSetsExt, Places

Frozen == {"geolocation", "camera", "microphone", "notifications"}
States == <<"kDeny", "kAsk", "kAllow">>
Tiers == <<"kStandard", "kShield", "kFortress">>
Routes == <<"kDirect", "kProxy", "kTor">>
RouteNames == ToSet(Routes) \cup {"kWireguard"}
FingerprintNames == {"kOff", "kReduce", "kStrict"}

IndexIn(seq, x) == IF Contains(seq, x) THEN (CHOOSE i \in DOMAIN seq : seq[i] = x) - 1 ELSE -1
TrustTierIndex(trust) == IndexIn(Tiers, trust)

(* The deny policy: the defaults of EffectivePolicy.                       *)
DenyAll == [c \in Frozen |-> "kDeny"]
DenyPolicy ==
    [hide_cosmetic |-> TRUE, block_scriptlets |-> TRUE, permissions |-> DenyAll,
     block_third_party |-> TRUE, route |-> "kDirect", fingerprint |-> "kStrict",
     storage |-> "kEphemeral", in_memory |-> TRUE, autofill |-> FALSE,
     dedicated |-> TRUE, letterbox |-> TRUE]

TieredPolicy(t, ephemeral, fortress, request_class) ==
    [hide_cosmetic |-> t >= 1, block_scriptlets |-> t >= 1,
     permissions |-> [c \in Frozen |->
        IF c = "notifications" THEN IF t <= 1 THEN "kAsk" ELSE "kDeny"
        ELSE IF t = 0 THEN "kAsk" ELSE "kDeny"],
     block_third_party |-> t >= 1,
     route |-> Routes[t + 1],
     fingerprint |-> IF t = 2 THEN "kStrict" ELSE "kReduce",
     storage |-> IF ephemeral THEN "kEphemeral"
                 ELSE IF fortress \/ t = 2 THEN "kFortressPartition" ELSE "kIdentityScoped",
     in_memory |-> ephemeral,
     autofill |-> request_class \in {"kNavigation", "kPermission"},
     dedicated |-> fortress \/ t = 2,
     letterbox |-> t = 2]

-----------------------------------------------------------------------------
(* Scopes: an entry is active for a request, or has run out.               *)
Active(e, req) ==
    \/ e.scope = "once" /\ e.remaining_uses > 0
    \/ e.scope = "session" /\ e.session_id # 0 /\ e.session_id = req.session_id
    \/ e.scope = "7d" /\ e.expires_at > req.now_ms

ExceptionActive(e, req) ==
    Active(e, req) \/ (e.scope = "permanent" /\ e.granted_by = "settings")
ExceptionMatches(e, req) == e.domain = req.domain /\ e.identity \in {0, req.identity}
OverlayGrantActive(g, req) == Active(g, req)

(* The winner: the newest, then the greatest id, or identity; the first    *)
(* one in the list among equals.                                           *)
TieBreak(e) == IF "id" \in DOMAIN e THEN e.id ELSE e.identity
PreferNewer(a, b) == a.created_at > b.created_at    \* mutant: no tie-break
Prefer(a, b) ==
    a.created_at > b.created_at \/ (a.created_at = b.created_at /\ TieBreak(a) > TieBreak(b))
Winner(list, at) ==
    LET first(i) == \A j \in at : ~Prefer(list[j], list[i]) /\ (j < i => Prefer(list[i], list[j]))
    IN  IF at = {} THEN <<>> ELSE <<list[CHOOSE i \in at : first(i)]>>

(* The ladder: explicit trust, an active exception, a binding, Standard;   *)
(* then the floor of the enterprise.                                       *)
ExceptionOf(req) ==
    Winner(req.exceptions, {i \in DOMAIN req.exceptions :
               ExceptionMatches(req.exceptions[i], req) /\ ExceptionActive(req.exceptions[i], req)})
BindingOf(req) ==
    Winner(req.bindings, {i \in DOMAIN req.bindings :
               /\ req.bindings[i].domain = req.domain
               /\ req.bindings[i].identity \in {0, req.identity}})
TierOf(req) ==
    LET rung == IF req.trust # "" THEN req.trust
                ELSE IF ExceptionOf(req) # <<>> THEN ExceptionOf(req)[1].trust
                ELSE IF BindingOf(req) # <<>> THEN BindingOf(req)[1].trust
                ELSE "kStandard"
    IN  Max({TrustTierIndex(rung)}
            \cup (IF req.enterprise.present THEN {TrustTierIndex(req.enterprise.trust_floor)} ELSE {}))

Forced(p, e) ==
    IF ~e.present THEN p
    ELSE [p EXCEPT !.fingerprint = IF e.force_fingerprint # "" THEN e.force_fingerprint ELSE @,
                   !.route = IF e.force_route # "" THEN e.force_route ELSE @,
                   !.letterbox = @ \/ e.force_letterbox,
                   !.block_third_party = @ \/ e.force_block_third_party]

-----------------------------------------------------------------------------
(* The permission overlay: corrupt and denied are final, then the defaults *)
(* of the identity (the strictest of several), then its active grants.     *)
Strictest(names) == CHOOSE s \in names : \A r \in names : IndexIn(States, s) <= IndexIn(States, r)

ApplyPermissionOverlay(req, p) ==
    LET ov == req.overlay
        defaults(c) == {d.state : d \in {x \in ToSet(ov.defaults) :
                                            x.identity = req.identity /\ x.capability = c}}
        granted(c) == \E g \in ToSet(ov.grants) :
                        /\ g.identity = req.identity /\ g.domain = req.domain
                        /\ g.capability = c
                        /\ OverlayGrantActive(g, req)
    IN  IF ~ov.present THEN p
        ELSE [p EXCEPT !.permissions = [c \in Frozen |->
            IF ov.corrupt \/ req.identity \in ov.denied THEN "kDeny"
            ELSE IF granted(c) THEN "kAllow"
            ELSE IF defaults(c) # {} THEN Strictest(defaults(c))
            ELSE @[c]]]

Identity(req) ==
    LET own == Filtered(req.identities, LAMBDA i : i.value = req.identity)
    IN  IF own = <<>> THEN [ephemeral |-> FALSE, fortress |-> FALSE] ELSE own[1]

(* Resolve is total: it denies what it cannot read, and refuses only a     *)
(* request of another version.                                             *)
Resolve(req) ==
    IF req.has_request /\ req.version_mismatch
    THEN [ok |-> FALSE, error |-> "kVersionMismatch"]
    ELSE IF ~req.has_request \/ ~req.core_valid
    THEN [ok |-> TRUE, policy |-> DenyPolicy]
    ELSE LET id == Identity(req)
             tiered == TieredPolicy(TierOf(req), id.ephemeral, id.fortress, req.request_class)
             forced == Forced(tiered, req.enterprise)
             hinted == [forced EXCEPT !.autofill = @ /\ ~req.extension]
         IN  [ok |-> TRUE, policy |-> ApplyPermissionOverlay(req, hinted)]

-----------------------------------------------------------------------------
(* The wire form: ten groups, exactly these members, and no export.        *)
Shape == [version |-> {"contract_version"},
          blocking |-> {"block_network_ads", "block_trackers", "upgrade_to_https"},
          cosmetic |-> {"hide_cosmetic", "block_scriptlets"}, permissions |-> Frozen,
          egress |-> {"block_third_party", "route"}, fingerprint_protection |-> {"fingerprint"},
          storage_scope |-> {"storage", "in_memory"},
          vault_scope |-> {"autofill", "export_allowed"},
          process_policy |-> {"site_isolated", "dedicated"}, letterbox |-> {"letterbox"}]
Fixed == [contract_version |-> {<<1>>}, export_allowed |-> {<<FALSE>>},
          route |-> {<<r>> : r \in RouteNames}, fingerprint |-> {<<m>> : m \in FingerprintNames},
          storage |-> {<<"kEphemeral">>, <<"kIdentityScoped">>, <<"kFortressPartition">>}]
Legal(f) == IF f \in DOMAIN Fixed THEN Fixed[f]
            ELSE IF f \in Frozen THEN {<<s>> : s \in ToSet(States)}
            ELSE {<<TRUE>>, <<FALSE>>}

(* A member is a one-element sequence, which keeps the types apart.        *)
Flat(p) == [f \in UNION {Shape[g] : g \in DOMAIN Shape} |->
    IF f = "contract_version" THEN <<1>> ELSE IF f = "export_allowed" THEN <<FALSE>>
    ELSE IF f \in {"block_network_ads", "block_trackers", "upgrade_to_https", "site_isolated"} THEN <<TRUE>>
    ELSE IF f \in Frozen THEN <<p.permissions[f]>> ELSE <<p[f]>>]
ToJson(p) == [g \in DOMAIN Shape |-> [f \in Shape[g] |-> Flat(p)[f]]]
FromJson(doc) ==      \* whether it is a policy
    /\ DOMAIN doc = DOMAIN Shape
    /\ \A g \in DOMAIN Shape : /\ DOMAIN doc[g] = Shape[g]
                                /\ \A f \in Shape[g] : doc[g][f] \in Legal(f)

(* The delta of two policies, path by path, as a change event reports it.  *)
DiffPolicies(old, new) ==
    LET a == Flat(old)
        b == Flat(new)
    IN  {[path |-> f, from |-> a[f], to |-> b[f]] : f \in {g \in DOMAIN a : a[g] # b[g]}}
BuildPolicyChangeEvent(identity, site, old_trust, new_trust, old, new, undo) ==
    [identity |-> identity, site |-> site, previous_trust |-> old_trust,
     new_trust |-> new_trust, deltas |-> DiffPolicies(old, new), undo |-> undo]
=============================================================================
