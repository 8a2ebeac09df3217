---------------------------- MODULE MCSettingsHost ----------------------------
(* A schema of two sections and one setting; a ledger that is missing,      *)
(* corrupt, or has counted on the two days before.                          *)
EXTENDS SettingsHost

CONSTANTS h1, h2

MCIntMin == -2
N == <<"n">>
L == <<"p">>
K == <<"n", ".", "a">>
Bool(b) == [type |-> "bool", value |-> b]
Def(key, section) ==
    [key |-> key, section |-> section, type |-> "bool", default |-> Bool(TRUE),
     aliases |-> {<<"a", "d", " ", "b">>}]
Section(id, settings) ==
    [id |-> id, availability |-> "always", settings |-> settings, aliases |-> {}]
MCSchema ==
    [sections |-> <<Section(N, <<K>>),
                    [Section(L, <<>>) EXCEPT !.availability = "identity.active"]>>,
     settings |-> <<Def(K, N)>>, options |-> <<>>, writable |-> {K}]
MCState == [identity |-> Unset, values |-> <<>>]
MCAsks ==
    {[method |-> "search", query |-> <<"a">>], [method |-> "search", query |-> <<"z">>],
     [method |-> "get", key |-> K],
     [method |-> "set", key |-> K, value |-> Bool(FALSE)],
     [method |-> "router-resolve", anchor |-> <<N, <<"a">>>>],
     [method |-> "router-resolve", anchor |-> <<N, <<"b">>>>]}
MCLedgers ==
    {Absent, Corrupt, Doc((0 :> [NoRow EXCEPT ![<<"queries">>] = 1])
                          @@ (1 :> [NoRow EXCEPT ![<<"opened", N>>] = 2]))}

-----------------------------------------------------------------------------
(* The laws below are evaluated before the first request.                   *)
AtStart == asks = 0 /\ faults = 0 /\ day = RetentionDays

Names == {<<"n">>, <<"a">>, <<"n", ".", "a">>, <<"n", ".", "p">>, <<"p", ".", "a">>,
          <<"n", ".", "a", ".", "a">>}
MCSchemas ==
    {[sections |-> <<Section(N, SelectSeq(keys, LAMBDA k : in[k] = N)),
                     Section(L, SelectSeq(keys, LAMBDA k : in[k] = L))>>,
      settings |-> [i \in DOMAIN keys |-> Def(keys[i], in[keys[i]])],
      options |-> <<>>, writable |-> {}] :
        keys \in [1..2 -> Names], in \in [Names -> {N, L}]}
MCPaths == {<<>>} \cup [1..1 -> {N, L, <<"a">>}] \cup [1..2 -> {N, L} \cup Names]

(* Whatever the settings are called, a link that resolves names a setting   *)
(* of the section it names, and gives that setting's anchor as its          *)
(* canonical form.  A setting resolves by its full key in its section.  Its *)
(* anchor resolves to it exactly if the anchor's suffix is the key itself;  *)
(* or has no dot, is no other key of the section, and is the suffix of no   *)
(* setting of the section that comes before (router.cc: Resolve,            *)
(* SettingAnchor).                                                          *)
LeadsTo(schema, path, key) ==
    LET r == Resolve(schema, path) IN r.ok /\ r.kind = "setting" /\ r.setting = key
IsAnchored(schema, i) ==
    LET d == schema.settings[i]
        suffix == AnchorSuffix(d.section, d.key)
        Own(j) == schema.settings[j].section = d.section
        Other(j) == schema.settings[j]
    IN  \/ suffix = d.key
        \/ /\ Dot \notin ToSet(suffix)
           /\ \A j \in DOMAIN schema.settings : Own(j) => Other(j).key # suffix
           /\ \A j \in 1..(i - 1) : Own(j) => AnchorSuffix(d.section, Other(j).key) # suffix
LinksRoundTrip ==
    AtStart => \A schema \in {s \in MCSchemas : LoadSchema(s)} :
        /\ \A path \in MCPaths :
              LET r == Resolve(schema, path)
              IN  r.ok /\ r.kind = "setting" =>
                    /\ FindSetting(schema, r.setting)[1].section = path[1]
                    /\ r.canonical = SettingAnchor(schema, r.setting)
        /\ \A i \in DOMAIN schema.settings :
              LET d == schema.settings[i]
              IN  /\ LeadsTo(schema, <<d.section, d.key>>, d.key)
                  /\ LeadsTo(schema, SettingAnchor(schema, d.key), d.key)
                        <=> IsAnchored(schema, i)

MCTexts == UNION {[1..n -> {"a", "b"}] : n \in 1..3}
           \cup {<<"a", "b", " ", "a">>, <<"b", "a", " ", "a", "b", "b">>}
MCCorpora ==
    {[i \in 1..2 |-> [key |-> i, kind |-> "setting", fields |-> {texts[i]}]] :
        texts \in [1..2 -> MCTexts]}

(* Search lists an entry that has the query for a name ahead of every entry *)
(* that has not, and lists every entry of which the query is a part         *)
(* (search.cc: MatchQuery).                                                 *)
SearchPutsNamesFirst ==
    AtStart => \A corpus \in MCCorpora, query \in MCTexts :
        LET found == MatchQuery(query, corpus)
            Named(i) == query \in corpus[found[i].key].fields
            Joined(i) == JoinNoSpaces(query) \in
                            {JoinNoSpaces(f) : f \in corpus[found[i].key].fields}
        IN  /\ \A i, j \in DOMAIN found : Named(i) /\ ~Joined(j) => i < j
            /\ \A k \in 1..2 :
                  (\E f \in corpus[k].fields :
                        \E m, n \in DOMAIN f : SubSeq(f, m, n) = query)
                  => \E i \in DOMAIN found : found[i].key = k

(* Links and names lead to the settings they are links and names of.        *)
EverySettingIsFound == LinksRoundTrip /\ SearchPutsNamesFirst
=============================================================================
