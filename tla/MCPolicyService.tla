-------------------------- MODULE MCPolicyService --------------------------
(* The resolver service on a small instance: two callers and three keys,   *)
(* of which two join to the same string and one is asked for by both, a    *)
(* cache of one, and a budget of one entry.  Beside it, what the service   *)
(* decides for a set of requests, stores and managed policies.             *)
EXTENDS PolicyLaws

CONSTANTS t1

(* The names a, a|b, c and b|c.                                            *)
MCIdentities == {<<"a">>, <<"a", "b">>}
MCSites == {<<"c">>, <<"b", "c">>}
Key(identity, site) == [identity |-> identity, site |-> site]
MCAsks == [t \in Threads |->
    {Key(<<"a">>, <<"b", "c">>),
     IF t = t1 THEN Key(<<"a">>, <<"c">>) ELSE Key(<<"a", "b">>, <<"c">>)}]
Symmetry == Permutations(Policies)

-----------------------------------------------------------------------------
Bare == [identity |-> 1, domain |-> 1, request_class |-> "kNavigation",
         now_ms |-> 5, session_id |-> 1]
As(i) == [Bare EXCEPT !.identity = i]
Grant == [identity |-> 1, domain |-> 1, capability |-> "camera", scope |-> "7d", expires_at |-> 6]
Default(i) == [identity |-> i, capability |-> "geolocation", state |-> "kAllow"]
Overlay(grants) ==
    [denied_identities |-> {2}, defaults |-> <<Default(1), Default(2)>>, grants |-> grants]
Overlays ==
    {Wrong, [corrupt |-> TRUE], [corrupt |-> TRUE] @@ Overlay(<<Grant>>),
     Overlay(<<Grant, [Grant EXCEPT !.identity = 2]>>),
     Overlay(<<[Grant EXCEPT !.expires_at = 5]>>),
     Overlay(<<Grant, [Grant EXCEPT !.capability = "odd"]>>)}
File(schema, version, entries) ==
    [kind |-> "doc", schema |-> schema, version |-> version, entries |-> entries]
NoFile == [kind |-> "absent", schema |-> "identities", version |-> 1, entries |-> <<>>]
B(domain, identity, trust, at) ==
    [domain |-> domain, identity |-> identity, trust |-> trust, created_at |-> at]
X(id, scope, trust, at) ==
    [id |-> id, domain |-> 1, scope |-> scope, trust |-> trust, created_at |-> at,
     expires_at |-> 6, remaining_uses |-> 1, session_id |-> 1]
InFlow == [granted_by |-> "in_flow"]
MCRaws ==
    {As(i) : i \in 1..4}
    \cup {[Bare EXCEPT !.request_class = c] : c \in {"kScript", "odd"}}
    \cup {As(i) @@ ("permission_overlay" :> v) : i \in {1, 2}, v \in Overlays}
    \cup {Bare @@ e : e \in {[enterprise |-> Wrong], [exceptions |-> <<X(4, "permanent", "kStandard", 9) @@ InFlow>>],
                             [trust_context |-> "kShield"],
                             [trust_context |-> "odd"], [contract_version |-> 2]}}

MCStores ==
    [identities : {NoFile, File("identities", 1, <<[value |-> 4, kind |-> "fortress"], [value |-> 1]>>)},
     bindings :
        {File("bindings", 1, <<B(1, 1, "kFortress", 1), B(1, 0, "kShield", 1)>>),
         File("bindings", 1, <<B(1, 0, "kShield", 2), B(1, 1, "kFortress", 1), B(2, 1, "kFortress", 3)>>),
         File("bindings", 2, <<>>),
         File("bindings", 1, <<B(1, 0, "kShield", Wrong)>>)},
     exceptions :
        {NoFile,
         File("exceptions", 1, <<X(1, "permanent", "kStandard", 1), X(2, "7d", "kShield", 1)>>),
         File("exceptions", 2, <<X(1, "permanent", "kStandard", 1) @@ InFlow>>),
         File("exceptions", 1, <<X(2, "7d", "kShield", 1) @@ [granted_by |-> "odd"]>>),
         File("exceptions", 2, <<[X(3, "7d", "kFortress", 1) EXCEPT !.expires_at = 5] @@ InFlow,
                                 X(2, "session", "kShield", 2) @@ InFlow>>)}]
Forcing ==
    {[trust_floor |-> "kShield", force_route |-> "kTor"],
     [trust_floor |-> "kFortress"],
     [force_letterbox |-> TRUE, force_block_third_party |-> TRUE, force_fingerprint |-> "kOff"]}
MCManageds ==
    {[kind |-> "absent", version |-> 1, data |-> <<>>, signature |-> "none"]}
    \cup {[kind |-> "doc", version |-> 1, signature |-> "good", data |-> d] : d \in Forcing}
    \cup {[kind |-> "doc", version |-> 1, signature |-> "bad", data |-> [force_route |-> "kTor"]]}

=============================================================================
