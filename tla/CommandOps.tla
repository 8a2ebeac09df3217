----------------------------- MODULE CommandOps -----------------------------
(***************************************************************************)
(* The command core (src/commands/core): descriptors and the registry, the *)
(* availability predicates, the dispatcher's gates, the shortcut store and *)
(* the trust file, as operators on their contents.                         *)
(***************************************************************************)
EXTENDS Places, SequencesExt, FiniteSetsExt

CONSTANTS
    Unset,          \* a string or member that is not there
    MaxTier1,       \* the ceiling of always-visible controls
    Reserved        \* accelerators of the browser and of the system

(* Descriptors: functions from member names to values.                     *)
RequiredFields == {"id", "title", "attention_tier", "danger_class", "surface", "handler"}
Tiers == {"tier0", "tier1", "tier2"}
Dangers == {"safe", "caution", "destructive"}
KnownScopes == {"global", "window", "identity", "site"}

ValidateDescriptor(desc) ==
    /\ DOMAIN desc = RequiredFields
    /\ \A f \in RequiredFields : desc[f] # Unset
    /\ desc["attention_tier"] \in Tiers
    /\ desc["danger_class"] \in Dangers

ASSUME CommandsAssumption == MaxTier1 \in Nat /\ Unset \notin KnownScopes

ScopeFromString(s) == IF s \in KnownScopes THEN s ELSE "global"

(* A command: its descriptor and the registry's metadata.                  *)
Command(desc, scope, predicate) ==
    [desc |-> desc, id |-> desc["id"],
     scope |-> ScopeFromString(IF scope = Unset THEN "global" ELSE scope),
     predicate |-> IF predicate = Unset THEN "always" ELSE predicate]

-----------------------------------------------------------------------------
(* The registry: the commands in the order of their registration.          *)
KnownId(reg, id) == \E i \in DOMAIN reg : reg[i].id = id
Find(reg, id) == reg[CHOOSE i \in DOMAIN reg : reg[i].id = id]
Tier1(reg) == {i \in DOMAIN reg : reg[i].desc["attention_tier"] = "tier1"}
Tier1Count(reg) == Cardinality(Tier1(reg))

RegisterRefusal(reg, c) ==
    IF ~ValidateDescriptor(c.desc) THEN "frozen field"
    ELSE IF KnownId(reg, c.id) THEN "duplicate id"
    ELSE IF c.desc["attention_tier"] = "tier1" /\ Tier1Count(reg) >= MaxTier1 THEN "tier1 ceiling"
    ELSE "ok"

(* The document of a registry, and the registry read back from one: every  *)
(* entry is registered anew, and the first refusal refuses the document.   *)
Entry(c) == [desc |-> c.desc, scope |-> c.scope, predicate |-> c.predicate]
ToJsonRegistry(reg) == [i \in DOMAIN reg |-> Entry(reg[i])]

FromJsonRegistry(entries) ==
    LET reg == [i \in DOMAIN entries |->
                    Command(entries[i].desc, entries[i].scope, entries[i].predicate)]
    IN  [reg |-> reg,
         ok |-> \A i \in DOMAIN entries :
                    /\ ValidateDescriptor(entries[i].desc)
                    /\ entries[i].scope \in KnownScopes \cup {Unset}
                    /\ RegisterRefusal(SubSeq(reg, 1, i - 1), reg[i]) = "ok"]

-----------------------------------------------------------------------------
(* Availability against a pinned snapshot; an unknown id is denied.        *)
Registered == {"always", "policy.trust-dial-writable", "tor.engine-ready",
               "identity.active", "build.channel-dev"}
Evaluate(predicate, snap) ==
    \/ predicate = "always"
    \/ predicate = "policy.trust-dial-writable" /\ snap.dial_writable
    \/ predicate = "tor.engine-ready" /\ "tor.engine" \in snap.capabilities
    \/ predicate = "identity.active" /\ snap.active_identity # Unset
    \/ predicate = "build.channel-dev" /\ "build.channel-dev" \in snap.capabilities

(* The dispatcher's gates, in their order.                                 *)
AllowedSources == {"ui-chrome", "palette", "menu", "shortcut", "test"}
InvokeStatus(reg, id, source, confirmed) ==
    IF source \notin AllowedSources \/ ~KnownId(reg, id) THEN "rejected"
    ELSE IF Find(reg, id).desc["danger_class"] = "destructive" /\ ~confirmed
    THEN "confirmation-required"
    ELSE "authorized"

-----------------------------------------------------------------------------
(* Shortcuts.  An accelerator is a key combination and how it is spelled;  *)
(* normalising leaves the combination.                                     *)
Normalize(acc) == acc.combo
Binding(id, combo) == [command_id |-> id, accelerator |-> combo]
WithoutCommand(bindings, id) ==
    Keep(bindings, {i \in DOMAIN bindings : bindings[i].command_id # id})

BindRefusalBySpelling(bindings, id, acc) ==   \* mutant: a loose spelling is not compared
    LET combo == Normalize(acc)
    IN  IF combo = Unset THEN "empty"
        ELSE IF combo \in Reserved THEN "reserved"
        ELSE IF ~acc.loose /\ \E i \in DOMAIN bindings :
                bindings[i].accelerator = combo /\ bindings[i].command_id # id THEN "duplicate"
        ELSE "ok"
BindRefusal(bindings, id, acc) ==
    LET combo == Normalize(acc)
    IN  IF combo = Unset THEN "empty"
        ELSE IF combo \in Reserved THEN "reserved"
        ELSE IF \E i \in DOMAIN bindings : bindings[i].accelerator = combo
                                        /\ bindings[i].command_id # id THEN "duplicate"
        ELSE "ok"
Bind(bindings, id, acc) == Append(WithoutCommand(bindings, id), Binding(id, Normalize(acc)))
-----------------------------------------------------------------------------
(* The trust file: per domain and identity.  An entry with no identity     *)
(* member is every identity's.                                             *)
EntryOf(domain, identity, tier) ==
    [domain |-> domain, identity |-> identity, trust |-> tier, created_at |-> 0]
IsOfDomain(e, domain, identity) == e.domain = domain    \* mutant: whatever identity
IsOf(e, domain, identity) == e.domain = domain /\ e.identity \in {identity, Unset}
Own(entries, domain, identity) == {i \in DOMAIN entries : IsOf(entries[i], domain, identity)}
WithoutTrust(entries, domain, identity) ==
    Keep(entries, DOMAIN entries \ Own(entries, domain, identity))
CurrentTrust(entries, domain, identity) ==
    LET own == Own(entries, domain, identity)
    IN  IF own = {} THEN Unset ELSE entries[Min(own)].trust
SetTrustAppends(entries, domain, identity, tier) ==    \* mutant: the old entry stays
    Append(entries, EntryOf(domain, identity, tier))
SetTrust(entries, domain, identity, tier) ==
    Append(WithoutTrust(entries, domain, identity), EntryOf(domain, identity, tier))
=============================================================================
