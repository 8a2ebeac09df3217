----------------------------- MODULE PolicyStore -----------------------------
(***************************************************************************)
(* What the resolver service reads before it resolves: the store's files   *)
(* (store.cc), the managed policy (enterprise/managed_source.cc), and the  *)
(* request, under which the stored layers are put (service.cc) and which   *)
(* is then parsed (resolve_io.cc).                                         *)
(*                                                                         *)
(* An object is a function from its members to their values; a member of   *)
(* the wrong type has the value Wrong.                                     *)
(***************************************************************************)
EXTENDS PolicyResolve, TLC

CONSTANTS
    Wrong,
    Raws,           \* requests as they come in
    Stores,         \* stores: [identities, bindings, exceptions], each a file
    Manageds        \* managed policies

(* No value of a member is the mark of a wrong one.                        *)
ASSUME WrongAssumption ==
    /\ Wrong \notin {"in_flow", "settings", "kEphemeral", "kIdentityScoped", "kFortressPartition"}
    /\ Wrong \notin ToSet(States) \cup RouteNames \cup FingerprintNames
    /\ Wrong \notin BOOLEAN /\ Wrong \notin Int
    /\ \A g \in DOMAIN Shape : Wrong \notin Shape[g]

Is(r, m) == m \in DOMAIN r /\ r[m] # Wrong
OrAbsent(r, m) == m \in DOMAIN r => r[m] # Wrong
Or(r, m, default) == IF m \in DOMAIN r THEN r[m] ELSE default
IsName(r, m) == Is(r, m) /\ r[m] # 0
IsTier(r, m) == Is(r, m) /\ TrustTierIndex(r[m]) >= 0
Map(s, F(_)) == [i \in DOMAIN s |-> F(s[i])]

(* The members that are compared: names are numbers, times are integers.   *)
Numbers(e) ==
    /\ \A m \in {"id", "identity"} : Is(e, m) => e[m] \in Nat
    /\ Is(e, "created_at") => e["created_at"] \in Int
Entries(es) == es \in Seq(ToSet(es)) /\ \A e \in ToSet(es) : Numbers(e)

(* A layer is an array of entries, of a request or of a file; a store has  *)
(* three of them; and a managed policy is an object.                       *)
Layers == {"identities", "bindings", "exceptions"}
Typed(raw) ==
    /\ \A l \in Layers : Is(raw, l) => Entries(raw[l])
    /\ Is(raw, "identity") => raw["identity"] \in Nat
ASSUME RequestsAssumption == \A raw \in Raws : Typed(raw)
ASSUME LayersAssumption ==
    /\ \A s \in Stores : /\ DOMAIN s = Layers
                         /\ \A l \in Layers : s[l].version \in Int /\ Entries(s[l].entries)
    /\ \A m \in Manageds :
          m.kind \notin {"absent", "malformed"} => m.data # Wrong

-----------------------------------------------------------------------------
(* Entries of a request.                                                   *)
Scopes == {"once", "session", "7d", "permanent"}
Needs == [s \in Scopes \ {"permanent"} |->
    CASE s = "once" -> "remaining_uses" [] s = "session" -> "session_id" [] s = "7d" -> "expires_at"]

FitsIdentity(e) == IsName(e, "value") /\ OrAbsent(e, "storage") /\ OrAbsent(e, "kind")
ParseIdentityInfo(e) ==
    [value |-> e["value"], ephemeral |-> Or(e, "storage", "") = "in_memory",
     fortress |-> Or(e, "kind", "") = "fortress"]

FitsBinding(e) ==
    IsName(e, "domain") /\ OrAbsent(e, "identity") /\ IsTier(e, "trust") /\ OrAbsent(e, "created_at")
ParseBinding(e) ==
    [domain |-> e["domain"], identity |-> Or(e, "identity", 0), trust |-> e["trust"],
     created_at |-> Or(e, "created_at", 0)]

FitsException(e) ==
    /\ IsName(e, "id") /\ IsName(e, "domain") /\ IsTier(e, "trust")
    /\ Is(e, "scope") /\ e["scope"] \in Scopes
    /\ \A m \in {"identity", "created_at", "expires_at", "remaining_uses", "session_id", "granted_by"} :
          OrAbsent(e, m)
    /\ e["scope"] \in DOMAIN Needs => Needs[e["scope"]] \in DOMAIN e
ParseException(e) ==
    [id |-> e["id"], domain |-> e["domain"], identity |-> Or(e, "identity", 0),
     scope |-> e["scope"], trust |-> e["trust"], created_at |-> Or(e, "created_at", 0),
     expires_at |-> Or(e, "expires_at", 0), remaining_uses |-> Or(e, "remaining_uses", 0),
     session_id |-> Or(e, "session_id", 0), granted_by |-> Or(e, "granted_by", "")]

NoEnterprise == [present |-> FALSE, trust_floor |-> "", force_fingerprint |-> "", force_route |-> "",
                 force_letterbox |-> FALSE, force_block_third_party |-> FALSE]
FitsEnterprise(v) ==
    /\ \A m \in DOMAIN NoEnterprise \ {"present"} : OrAbsent(v, m)
    /\ Or(v, "trust_floor", "") \in ToSet(Tiers) \cup {""}
    /\ Or(v, "force_fingerprint", "") \in FingerprintNames \cup {""}
    /\ Or(v, "force_route", "") \in RouteNames \cup {""}
ParseEnterpriseFields(v) ==
    [m \in DOMAIN NoEnterprise |-> IF m = "present" THEN TRUE ELSE Or(v, m, NoEnterprise[m])]

(* The overlay: one defect anywhere, and all of it is corrupt.             *)
Exactly(e, members) == DOMAIN e = members /\ \A m \in members : e[m] # Wrong
FitsDefault(e) ==
    /\ Exactly(e, {"identity", "capability", "state"})
    /\ e["identity"] # 0 /\ e["capability"] \in Frozen /\ e["state"] \in ToSet(States)
FitsGrant(e) ==
    /\ Is(e, "scope") /\ e["scope"] \in DOMAIN Needs
    /\ Exactly(e, {"identity", "domain", "capability", "scope", Needs[e["scope"]]})
    /\ e["identity"] # 0 /\ e["domain"] # 0 /\ e["capability"] \in Frozen
    /\ e["scope"] = "session" => e["session_id"] # 0
ParseGrant(e) ==
    [identity |-> e["identity"], domain |-> e["domain"], capability |-> e["capability"],
     scope |-> e["scope"], expires_at |-> Or(e, "expires_at", 0),
     session_id |-> Or(e, "session_id", 0), remaining_uses |-> Or(e, "remaining_uses", 0)]

NoOverlay == [present |-> FALSE, corrupt |-> FALSE, denied |-> {}, defaults |-> <<>>, grants |-> <<>>]
CorruptOverlay == [NoOverlay EXCEPT !.present = TRUE, !.corrupt = TRUE]
IsMarkedCorrupt(v) == Or(v, "corrupt", FALSE) = TRUE
FitsOverlay(v) ==
    /\ DOMAIN v \subseteq {"contract_version", "corrupt", "denied_identities", "defaults", "grants"}
    /\ OrAbsent(v, "contract_version") /\ Or(v, "contract_version", 1) = 1
    /\ OrAbsent(v, "corrupt")
    /\ \/ IsMarkedCorrupt(v)
       \/ /\ \A m \in {"denied_identities", "defaults", "grants"} : OrAbsent(v, m)
          /\ 0 \notin Or(v, "denied_identities", {})
          /\ LET defaults == Or(v, "defaults", <<>>)
                 Slot(e) == <<e["identity"], e["capability"]>>
             IN  /\ \A e \in ToSet(defaults) : FitsDefault(e)
                 /\ IsInjective(Map(defaults, Slot))
          /\ \A e \in ToSet(Or(v, "grants", <<>>)) : FitsGrant(e)
ParseDefaults(v) ==
    Map(Or(v, "defaults", <<>>), LAMBDA e : [identity |-> e["identity"],
                            capability |-> e["capability"], state |-> e["state"]])
ParseGrants(v) == Map(Or(v, "grants", <<>>), ParseGrant)
DropGrants(v) ==      \* mutant: a bad grant is dropped, as in the other layers
    IF v = Wrong THEN CorruptOverlay
    ELSE [NoOverlay EXCEPT !.present = TRUE, !.denied = Or(v, "denied_identities", {}),
            !.grants = Map(SelectSeq(Or(v, "grants", <<>>), FitsGrant), ParseGrant)]
ParsePermissionOverlay(v) ==
    IF v = Wrong THEN CorruptOverlay
    ELSE IF ~FitsOverlay(v) \/ IsMarkedCorrupt(v) THEN CorruptOverlay
    ELSE [present |-> TRUE, corrupt |-> FALSE, denied |-> Or(v, "denied_identities", {}),
          defaults |-> ParseDefaults(v), grants |-> ParseGrants(v)]

-----------------------------------------------------------------------------
(* The request.  A layer that is no array is ignored, an entry that does   *)
(* not fit is dropped, and both are reported; the core is all or nothing.  *)
DefaultIdentities ==
    <<[value |-> 1, ephemeral |-> FALSE, fortress |-> FALSE],
      [value |-> 2, ephemeral |-> FALSE, fortress |-> TRUE],
      [value |-> 3, ephemeral |-> TRUE, fortress |-> FALSE]>>
Classes == {"kNavigation", "kSubresource", "kScript", "kPermission", "kStorage", "kNetwork"}

Layer(raw, m) == IF Is(raw, m) THEN raw[m] ELSE <<>>
Fits(e, m) ==
    CASE m = "identities" -> FitsIdentity(e)
      [] m = "bindings" -> FitsBinding(e)
      [] m = "exceptions" -> FitsException(e)
ParseIdentities(raw) ==
    LET own == Map(Filtered(Layer(raw, "identities"), FitsIdentity), ParseIdentityInfo)
    IN  IF own = <<>> THEN DefaultIdentities ELSE own
ParseBindings(raw) == Map(Filtered(Layer(raw, "bindings"), FitsBinding), ParseBinding)
ParseExceptions(raw) == Map(Filtered(Layer(raw, "exceptions"), FitsException), ParseException)
ParseResolveRequest(raw) ==
    LET identities == ParseIdentities(raw)
        trust == Or(raw, "trust_context", "")      \* null is none
        entered == IF Is(raw, "enterprise") THEN FitsEnterprise(raw["enterprise"]) ELSE FALSE
    IN  [has_request |-> TRUE,
         version_mismatch |-> ~OrAbsent(raw, "contract_version") \/ Or(raw, "contract_version", 1) # 1,
         core_valid |-> /\ Is(raw, "identity")
                        /\ \E i \in ToSet(identities) : i.value = raw["identity"]
                        /\ IsName(raw, "domain")
                        /\ Is(raw, "request_class") /\ raw["request_class"] \in Classes
                        /\ trust # Wrong /\ trust \in ToSet(Tiers) \cup {""},
         identity |-> IF Is(raw, "identity") THEN raw["identity"] ELSE 0,
         domain |-> IF Is(raw, "domain") THEN raw["domain"] ELSE 0,
         request_class |-> IF Is(raw, "request_class") THEN raw["request_class"] ELSE "",
         trust |-> IF trust # Wrong /\ trust \in ToSet(Tiers) THEN trust ELSE "",
         identities |-> identities,
         bindings |-> ParseBindings(raw),
         exceptions |-> ParseExceptions(raw),
         enterprise |-> IF entered THEN ParseEnterpriseFields(raw["enterprise"]) ELSE NoEnterprise,
         extension |-> IF Is(raw, "extension") THEN IsName(raw["extension"], "id") /\ OrAbsent(raw["extension"], "capabilities")
                        ELSE FALSE,
         now_ms |-> IF Is(raw, "now_ms") THEN raw["now_ms"] ELSE 0,
         session_id |-> IF Is(raw, "session_id") THEN raw["session_id"] ELSE 0,
         overlay |-> IF "permission_overlay" \in DOMAIN raw
                     THEN ParsePermissionOverlay(raw["permission_overlay"]) ELSE NoOverlay]
NoRequest == [ParseResolveRequest(<<>>) EXCEPT !.has_request = FALSE]

-----------------------------------------------------------------------------
(* The store's files.  A file is [kind, schema, version, entries]; kind    *)
(* tells how far its bytes can be read.                                    *)
Known == [identities |-> 1, bindings |-> 1, exceptions |-> 2]

ValidIdentity(e) ==
    /\ IsName(e, "value")
    /\ OrAbsent(e, "storage") /\ Or(e, "storage", "persistent") \in {"persistent", "in_memory"}
    /\ OrAbsent(e, "kind") /\ Or(e, "kind", "standard") \in {"standard", "fortress"}
ValidBinding(e) == IsName(e, "domain") /\ OrAbsent(e, "identity") /\ IsTier(e, "trust")
ValidException(e, version) ==
    /\ IsName(e, "id") /\ IsName(e, "domain") /\ OrAbsent(e, "identity") /\ IsTier(e, "trust")
    /\ Is(e, "scope") /\ e["scope"] \in Scopes
    /\ Is(e, "expires_at") /\ Is(e, "remaining_uses")
    /\ e["scope"] = "7d" => e["expires_at"] > 0
    /\ e["scope"] = "once" => e["remaining_uses"] > 0
    /\ e["scope"] = "session" => IsName(e, "session_id")
    /\ version >= 2 =>
          /\ Is(e, "granted_by") /\ e["granted_by"] \in {"in_flow", "settings"}
          /\ e["scope"] = "permanent" => e["granted_by"] = "settings"
Valid(schema, version, entries) ==
    \A e \in ToSet(entries) :
        CASE schema = "identities" -> ValidIdentity(e)
          [] schema = "bindings" -> ValidBinding(e)
          [] OTHER -> ValidException(e, version)

Refused(error) == [ok |-> FALSE, error |-> error, future |-> FALSE, entries |-> <<>>]
Load(file) ==
    IF file.kind = "absent" THEN Refused("kIoError")
    ELSE IF file.kind = "malformed" THEN Refused("kMalformedInput")
    ELSE IF file.schema \notin DOMAIN Known THEN Refused("kUnknownSchema")
    ELSE IF file.version > Known[file.schema]
         THEN [ok |-> TRUE, error |-> "kNone", future |-> TRUE, entries |-> file.entries]
    ELSE IF file.version < 1 THEN Refused("kMalformedInput")
    ELSE IF ~Valid(file.schema, file.version, file.entries) THEN Refused("kInvalidEntry")
    ELSE [ok |-> TRUE, error |-> "kNone", future |-> FALSE, entries |-> file.entries]

(* Exceptions of version 1 get the member granted_by, if they have none.   *)
Emplace(e, m, v) == [n \in DOMAIN e \cup {m} |-> Or(e, n, v)]
GrantedByFlow(e) == Emplace(e, "granted_by", "in_flow")       \* mutant: whatever the scope
GrantedBy(e) ==
    Emplace(e, "granted_by", IF Or(e, "scope", "") = "permanent" THEN "settings" ELSE "in_flow")
MigrateToLatest(file) ==
    IF file.version >= Known[file.schema] THEN [ok |-> TRUE, entries |-> file.entries]
    ELSE LET entries == [i \in DOMAIN file.entries |-> GrantedBy(file.entries[i])]
         IN  [ok |-> Valid(file.schema, 2, entries), entries |-> entries]

(* What the service enforces of the file of a layer: <<>> or <<its         *)
(* entries>>.                                                              *)
LoadStore(layer, file) ==
    LET r == Load(file)
    IN  IF ~r.ok \/ r.future THEN <<>>
        ELSE IF file.schema = layer /\ MigrateToLatest(file).ok
        THEN <<MigrateToLatest(file).entries>> ELSE <<>>

(* The managed policy: signed or ignored.                                  *)
LoadManagedPolicy(m) ==
    IF m.kind = "absent" THEN "kAbsent"
    ELSE IF m.kind = "malformed" THEN "kIgnoredInvalid"
    ELSE IF m.version > 1 THEN "kIgnoredFutureVersion"
    ELSE IF m.version < 1 \/ ~FitsEnterprise(m.data) THEN "kIgnoredInvalid"
    ELSE IF m.signature = "none" THEN "kIgnoredUnsigned"
    ELSE IF m.signature = "unchecked" THEN "kSkippedNoTool"
    ELSE IF m.signature = "bad" THEN "kIgnoredBadSignature"
    ELSE "kVerified"
Enforced(m) == LoadManagedPolicy(m) = "kVerified"

(* What the request carries wins over what is stored, well-formed or not.  *)
MergeStoreLayers(raw, store, managed) ==
    LET stored == {l \in DOMAIN store : LoadStore(l, store[l]) # <<>>}
        signed == IF Enforced(managed) THEN {"enterprise"} ELSE {}
    IN  [m \in DOMAIN raw \cup stored \cup signed |->
            IF m \in DOMAIN raw THEN raw[m]
            ELSE IF m \in stored THEN LoadStore(m, store[m])[1] ELSE managed.data]
Request(raw, store, managed) == ParseResolveRequest(MergeStoreLayers(raw, store, managed))
-----------------------------------------------------------------------------
(* Over every request, store and managed policy of the instance.           *)
Requests == {Request(raw, s, m) : raw \in Raws, s \in Stores, m \in Manageds}
IsDecided(q) == q.core_valid /\ ~q.version_mismatch
Decided == {q \in Requests : IsDecided(q)}
Stricter == {"hide_cosmetic", "block_scriptlets", "block_third_party", "dedicated", "letterbox"}

(* What denies is final, whatever else the request says: an overlay that   *)
(* is marked corrupt or has one defect, and the deny-list, close all four  *)
(* capabilities, and a capability is open only by a default or an active   *)
(* grant for this identity and site.  A verified managed policy holds      *)
(* unless the request carries its own enterprise member: what it forces is *)
(* in the answer, and what it does not is no laxer than its floor          *)
(* (resolve.cc, resolve_io.cc, service.cc).                                *)
Refuses(ov, identity) ==
    IF ov = Wrong THEN TRUE
    ELSE \/ IsMarkedCorrupt(ov) \/ ~FitsOverlay(ov)
         \/ identity \in Or(ov, "denied_identities", {})
Holds(e, p, request_class) ==
    LET floor == TieredPolicy(Max({0, TrustTierIndex(e.trust_floor)}), FALSE, FALSE, request_class)
    IN  /\ \A f \in Stricter : floor[f] => p[f]
        /\ e.force_letterbox => p.letterbox
        /\ e.force_block_third_party => p.block_third_party
        /\ IF e.force_route # "" THEN p.route = e.force_route
           ELSE IndexIn(Routes, p.route) >= IndexIn(Routes, floor.route)
        /\ IF e.force_fingerprint # "" THEN p.fingerprint = e.force_fingerprint
           ELSE floor.fingerprint = "kStrict" => p.fingerprint = "kStrict"
Authority ==
    /\ \A raw \in Raws, s \in Stores, m \in Manageds :
          LET q == Request(raw, s, m)
              p == Resolve(q).policy
          IN  IsDecided(q) =>
              /\ /\ "permission_overlay" \in DOMAIN raw
                 /\ Refuses(raw["permission_overlay"], q.identity)
                 => p.permissions = DenyAll
              /\ Enforced(m) /\ "enterprise" \notin DOMAIN raw =>
                    Holds(ParseEnterpriseFields(m.data), p, q.request_class)
    /\ \A q \in Decided, c \in Frozen : Resolve(q).policy.permissions[c] = "kAllow" =>
          \/ \E g \in ToSet(q.overlay.grants) : /\ g.capability = c /\ OverlayGrantActive(g, q)
                                               /\ <<g.identity, g.domain>> = <<q.identity, q.domain>>
          \/ \E d \in ToSet(q.overlay.defaults) : /\ d.capability = c /\ d.state = "kAllow"
                                                 /\ d.identity = q.identity

(* A request that asks for no trust gets the answer of one that asks for   *)
(* the trust of the entry which decides: of its active exceptions, if it   *)
(* has any, else of the bindings of its site, its own and the default one; *)
(* and of these the newest, at one age the greatest id or identity, so     *)
(* that the own one beats the default only at its age or above.  Entries   *)
(* of other sites and identities and those that have run out decide        *)
(* nothing, nor does the order of the others, but where two of one age and *)
(* id both lead: the first of them does (resolve.cc: Prefer, Resolve).     *)
LiveOf(q) ==
    LET Lives(e) == IF e.scope = "permanent" THEN e.granted_by = "settings" ELSE Active(e, q)
    IN  Filtered(q.exceptions, LAMBDA e : ExceptionMatches(e, q) /\ Lives(e))
BoundOf(q) ==
    Filtered(q.bindings, LAMBDA b : b.domain = q.domain /\ b.identity \in {0, q.identity})

Asking(q, trust) == [q EXCEPT !.trust = trust]
NotAbove(f, e) ==
    \/ f.created_at < e.created_at
    \/ f.created_at = e.created_at /\ TieBreak(f) <= TieBreak(e)
Decides(entries, q) ==
    \E e \in ToSet(entries) : /\ \A f \in ToSet(entries) : NotAbove(f, e)
                              /\ Resolve(q) = Resolve(Asking(q, e.trust))
Distinct(entries) ==
    \A i, j \in DOMAIN entries :
        entries[i].created_at = entries[j].created_at /\ TieBreak(entries[i]) = TieBreak(entries[j])
            => i = j
Orders(entries) == {s \in [DOMAIN entries -> ToSet(entries)] : ToSet(s) = ToSet(entries)}
EntriesDecide ==
    \A q \in Decided :
        /\ q.trust = "" =>
              /\ LiveOf(q) # <<>> => Decides(LiveOf(q), q)
              /\ LiveOf(q) = <<>> /\ BoundOf(q) # <<>> => Decides(BoundOf(q), q)
              /\ LiveOf(q) = <<>> /\ BoundOf(q) = <<>> => Resolve(q) = Resolve(Asking(q, "kStandard"))
        /\ q.trust # "" => Resolve(q) = Resolve([q EXCEPT !.exceptions = <<>>, !.bindings = <<>>])
        /\ Distinct(LiveOf(q)) /\ Distinct(BoundOf(q)) =>
              \A xs \in Orders(LiveOf(q)), bs \in Orders(BoundOf(q)) :
                  Resolve(q) = Resolve([q EXCEPT !.exceptions = xs, !.bindings = bs])

(* A file that the store accepts is enforced whole: it migrates, and the   *)
(* parser of the request drops none of its entries, if the members that    *)
(* the store does not look at have their types; and a permanent exception  *)
(* is one of the settings (store.cc, resolve_io.cc).  But a file of the    *)
(* first version with a member of the second one is accepted without a     *)
(* look at it, and the migration may then refuse the whole.                *)
Unchecked == {"created_at", "session_id", "granted_by"}
StoreIsHeard ==
    \A s \in Stores : \A l \in DOMAIN s :
        LET file == s[l]
            kept == LoadStore(l, file)
            typed == \A e \in ToSet(file.entries) : \A m \in Unchecked : OrAbsent(e, m)
            ahead == /\ l = "exceptions" /\ file.version = 1
                     /\ \E e \in ToSet(file.entries) : "granted_by" \in DOMAIN e
        IN  Load(file).ok /\ ~Load(file).future /\ file.schema = l /\ typed /\ ~ahead =>
              /\ kept # <<>>
              /\ DOMAIN kept[1] = DOMAIN file.entries
              /\ \A e \in ToSet(kept[1]) :
                    /\ Fits(e, l)
                    /\ l = "exceptions" /\ e["scope"] = "permanent" => e["granted_by"] = "settings"

(* Every policy survives the wire, no document with a member more, less or *)
(* out of its values is read as one, and the delta of two policies tells   *)
(* all that changed (effective_policy.cc, events.cc).                      *)
Answers == {Resolve(q).policy : q \in Decided} \cup {DenyPolicy}
WireIsStrict ==
    /\ \A p \in Answers :
          LET doc == ToJson(p)
          IN  /\ FromJson(doc)
              /\ \A g \in DOMAIN doc : \A f \in Shape[g] :
                    /\ ~FromJson([doc EXCEPT ![g] = [h \in Shape[g] \ {f} |-> doc[g][h]]])
                    /\ ~FromJson([doc EXCEPT ![g][f] = <<Wrong>>])
                    /\ ~FromJson([doc EXCEPT ![g] = Emplace(doc[g], Wrong, <<TRUE>>)])
    /\ \A p, r \in Answers :
          Flat(r) = [f \in DOMAIN Flat(p) |->
                        IF \E d \in DiffPolicies(p, r) : d.path = f
                        THEN (CHOOSE d \in DiffPolicies(p, r) : d.path = f).to ELSE Flat(p)[f]]
=============================================================================
