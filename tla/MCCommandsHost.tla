---------------------------- MODULE MCCommandsHost ----------------------------
(* A roster with a dial, a destructive dial and a reset; a command that may *)
(* be registered, in an unknown scope, and one above the ceiling.           *)
EXTENDS CommandsHost, CommandMatcher

CONSTANTS shield, fortress, reset, extra, k1, k2, f11, s1, s2, i1

Desc(id, tier, danger, handler) ==
    [id |-> id, title |-> id, attention_tier |-> tier, danger_class |-> danger,
     surface |-> "palette", handler |-> handler]
MCRoster ==
    <<[desc |-> Desc(shield, "tier1", "safe", "action.dial.shield"),
       scope |-> "site", predicate |-> "policy.trust-dial-writable"],
      [desc |-> Desc(fortress, "tier2", "destructive", "action.dial.fortress"),
       scope |-> Unset, predicate |-> Unset],
      [desc |-> Desc(reset, "tier2", "caution", "action.dial.reset"),
       scope |-> "site", predicate |-> "always"]>>
MCInitial ==
    <<EntryOf(s1, i1, "kFortress"), [EntryOf(s2, Unset, "kStandard") EXCEPT !.created_at = 2],
      [EntryOf(s2, Palette, "kShield") EXCEPT !.created_at = 1], EntryOf(s2, i1, "kShield")>>

Set(id, combo, loose) ==
    [method |-> "bindings-set", id |-> id, acc |-> [combo |-> combo, loose |-> loose]]
Call(id, source, confirmed, site, flag) ==
    [method |-> "invoke", id |-> id, source |-> source, confirmed |-> confirmed,
     site |-> site, flag |-> flag]
Reg1(desc, scope, predicate) ==
    [method |-> "register", id |-> extra, desc |-> desc, scope |-> scope,
     predicate |-> predicate, flag |-> "on"]
MCRequests ==
    {Set(shield, k1, FALSE), Set(reset, k1, TRUE), Set(reset, k2, FALSE),
     Set(shield, f11, TRUE), Set(extra, k2, TRUE),
     [method |-> "bindings-clear", id |-> shield],
     [method |-> "bindings-clear", id |-> Unset],
     Call(shield, "palette", FALSE, s1, "on"), Call(shield, "menu", FALSE, s2, "off"),
     Call(fortress, "palette", FALSE, s2, "on"), Call(fortress, "menu", TRUE, s2, "on"),
     Call(reset, "shortcut", FALSE, s1, "on"), Call(reset, "page", TRUE, s2, "on"),
     Reg1(Desc(extra, "tier2", "safe", "action.open"), "odd", "always"),
     Reg1(Desc(extra, "tier1", "safe", "action.open"), "site", "always"),
     Reg1(Desc(extra, "tier2", "safe", "action.open"), "site", "odd")}

-----------------------------------------------------------------------------
MCCorpus ==
    {<<[id |-> <<"o">>, title |-> t, keywords |-> <<<<"t">>>>],
       [id |-> <<"t">>, title |-> <<"o", "-", "t">>, keywords |-> <<>>],
       [id |-> <<"b">>, title |-> <<"b">>, keywords |-> <<<<"o", "t">>>>]>> :
     t \in {<<"o", "t">>, <<"t", "o">>, <<"b", "o", "t">>, <<"t", " ", "o">>}}
MCQueries == UNION {[1..n -> {"o", "t", "-", " "}] : n \in 0..3}

(* Evaluated before the first request.  The palette lists what matches,    *)
(* the closer match first (matcher.cc).                                    *)
PaletteRanksWell ==
    requests = 0 /\ faults = 0 => \A q \in MCQueries, corpus \in MCCorpus : RanksWell(q, corpus)
=============================================================================
