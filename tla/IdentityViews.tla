---------------------------- MODULE IdentityViews ----------------------------
(***************************************************************************)
(* What the identity core computes from one request (src/identity/core):   *)
(* the mint, templates and provisioning, the memory table, the ledger      *)
(* overlay, the frozen calls and the manager page.  Each request has a     *)
(* process and a store of its own, so these are operators.                 *)
(*                                                                         *)
(* A minted domain is a sequence of characters; everywhere else a domain   *)
(* is a number, its place in the byte order of the domains.                *)
(***************************************************************************)
EXTENDS Integers, SequencesExt, FiniteSetsExt, Functions, TLC

CONSTANTS
    Unset,
    EventClasses,   \* LedgerEventClasses
    NameMax         \* kDisplayNameMax

-----------------------------------------------------------------------------
(* The mint: thirty-two digits of a digest, four of whose bits and two of  *)
(* whose bits are fixed.                                                   *)
Hex == <<"0", "1", "2", "3", "4", "5", "6", "7", "8", "9", "a", "b", "c", "d", "e", "f">>
Prefix == <<"x", "r", ":">>
Dashes == {12, 17, 22, 27}

FormatUuid(nibbles) ==
    LET fixed == [nibbles EXCEPT ![13] = 4, ![17] = 8 + (@ % 4)]
        digits == [i \in 1..32 |-> Hex[fixed[i] + 1]]
    IN  Prefix \o SubSeq(digits, 1, 8) \o <<"-">> \o SubSeq(digits, 9, 12)
        \o <<"-">> \o SubSeq(digits, 13, 16) \o <<"-">> \o SubSeq(digits, 17, 20)
        \o <<"-">> \o SubSeq(digits, 21, 32)

FixtureTable ==
    LET zeros == [i \in 1..32 |-> 0]
    IN  <<FormatUuid([zeros EXCEPT ![32] = 1]), FormatUuid([zeros EXCEPT ![32] = 2]),
          FormatUuid([zeros EXCEPT ![32] = 14]) \o <<"f">>>>

(* A dash is allowed at the four places, and so is a digit.                *)
DomainShapeOk(d) ==
    /\ Len(d) \in {39, 40}
    /\ IsPrefix(Prefix, d)
    /\ \A i \in 4..Len(d) : d[i] \in ToSet(Hex) \/ (d[i] = "-" /\ i \in Dashes)
    /\ d[18] = "4" /\ d[23] \in {"8", "9", "a", "b"}

ChanceProbeMin == 8
Embeds(d, probe) ==
    \E i \in 0..(Len(d) - Len(probe)) : SubSeq(d, i + 1, i + Len(probe)) = probe

(* Names come in lower case here: the code folds both sides.               *)
LooksOpaque(d, probe) ==
    /\ DomainShapeOk(d)
    /\ \/ probe = <<>>
       \/ Len(probe) < ChanceProbeMin /\ ToSet(probe) \subseteq ToSet(Hex) \cup {"-"}
       \/ ~Embeds(d, probe)

-----------------------------------------------------------------------------
(* Templates.  A row is [ns, key, value]; the keys are shortened to their  *)
(* last part.                                                              *)
P(k, v) == [ns |-> "prefs", key |-> k, value |-> v]
Y(k, v) == [ns |-> "policy", key |-> k, value |-> v]
V(k, v) == [ns |-> "visual", key |-> k, value |-> v]
Template(color, glyph, disposable, route, own) ==
    [color |-> color, glyph |-> glyph, disposable |-> disposable,
     route |-> route, route_bound |-> FALSE,
     rows |-> <<P("homepage", "newtab"), Y("ledger_tagging", "on")>> \o own]
Look(color, glyph) == <<V("color_bar", color), V("glyph", glyph)>>
Templates ==
    [personal |-> Template("#4285f4", "P", FALSE, "",
        <<Y("trust_level", "standard")>> \o Look("#4285f4", "P")),
     work |-> Template("#1a73e8", "W", FALSE, "",
        <<Y("trust_level", "standard"), Y("route_hint", "default")>> \o Look("#1a73e8", "W")),
     research |-> Template("#0f9d58", "R", FALSE, "",
        <<Y("trust_level", "standard"), Y("prefetch", "off")>> \o Look("#0f9d58", "R")),
     banking |-> Template("#f4b400", "B", FALSE, "",
        <<Y("trust_level", "strict"), Y("persistent_cookies", "off"), Y("prefetch", "off"),
          Y("webrtc", "disable_non_proxied_udp")>> \o Look("#f4b400", "B")),
     shopping |-> Template("#db4437", "S", FALSE, "",
        <<Y("trust_level", "standard")>> \o Look("#db4437", "S")),
     disposable |-> Template("#f9ab00", "D", TRUE, "",
        <<Y("trust_level", "strict"), Y("vault_access", "none"),
          Y("in_memory_partition", "true")>> \o Look("#f9ab00", "D")
        \o <<V("border", "amber-dashed")>>),
     tor |-> Template("#78288c", "T", FALSE, "tor",
        <<Y("trust_level", "strict"), Y("route", "tor"), Y("dns", "through-tunnel-only"),
          Y("webrtc", "disabled"), Y("auto_update", "off")>> \o Look("#78288c", "T")
        \o <<V("border", "violet")>>)]

(* The ceremony's lines: a line that names the template, what is said of   *)
(* its partition and of its route, and a line for every row.               *)
Line(kind, about) == <<[kind |-> kind, about |-> about]>>
Ceremony(id) ==
    LET t == Templates[id]
    IN  Line("template", id)
        \o (IF t.disposable THEN Line("disposable", "in-memory partition") ELSE <<>>)
        \o (IF t.route = "tor"
            THEN Line("route", IF t.route_bound THEN "bound" ELSE "not bound yet") ELSE <<>>)
        \o [i \in DOMAIN t.rows |-> [kind |-> "row", about |-> t.rows[i]]]

(* Rows of the look are written nowhere: the color and the glyph come with *)
(* the template.                                                           *)
ApplyTemplate(id, prefs) ==
    LET Put(acc, r) == IF r.ns = "visual" THEN acc ELSE (r.key :> r.value) @@ acc
    IN  FoldLeft(Put, prefs, Templates[id].rows)

(* provision: the request's in_memory decides, whatever the template says. *)
(* `opaque': what the minted domain's probe says of the display name.      *)
Provision(req) ==
    IF \/ req.entropy = Unset /\ ~req.replay
       \/ ~req.opaque
       \/ req.template # Unset /\ req.template \notin DOMAIN Templates
    THEN [ok |-> FALSE]
    ELSE [ok |-> TRUE, in_memory |-> req.in_memory,
          color |-> IF req.template = Unset THEN "#5f6b7a" ELSE Templates[req.template].color,
          glyph |-> IF req.template = Unset THEN "dot" ELSE Templates[req.template].glyph,
          rows |-> IF req.template = Unset THEN req.prefs
                   ELSE ApplyTemplate(req.template, req.prefs)]

-----------------------------------------------------------------------------
(* The memory table.  A sample is [rss, serves]; a process of several      *)
(* identities is split evenly, the remainder going to the first of them.   *)
Unattributed == 0
FullShare(sample, d) == sample.rss     \* mutant: everyone is billed for the whole process
ShareOf(sample, d) ==
    LET owners == ToSet(sample.serves)
        n == Cardinality(owners)
        rank == Cardinality({e \in owners : e < d})
    IN  (sample.rss \div n) + (IF rank < sample.rss % n THEN 1 ELSE 0)

(* The rows as a function of the domain; the code lists them by size.      *)
Attribute(samples, total) ==
    LET sum == FoldLeft(LAMBDA acc, s : acc + s.rss, 0, samples)
        domains == UNION {ToSet(s.serves) : s \in ToSet(samples)}
        Serving(d) == SelectSeq(samples, LAMBDA s : d \in ToSet(s.serves))
        idle == SelectSeq(samples, LAMBDA s : s.serves = <<>>)
    IN  IF sum > total THEN [ok |-> FALSE]
        ELSE [ok |-> TRUE,
              rows |-> [d \in domains |->
                            [kb |-> FoldLeft(LAMBDA acc, s : acc + ShareOf(s, d), 0, Serving(d)),
                             processes |-> Len(Serving(d))]]
                       @@ (Unattributed :>
                            [kb |-> FoldLeft(LAMBDA acc, s : acc + s.rss, total - sum, idle),
                             processes |-> Len(idle)])]

-----------------------------------------------------------------------------
(* The ledger overlay.  A row or request has an identity_id: a domain,     *)
(* Unset, or a string of another shape.                                    *)
Malformed == -1
ValidId(id) ==
    CASE id = Unset -> "identity-id-required"
      [] id = Malformed -> "identity-id-malformed"
      [] OTHER -> "ok"

TagEvent(id, class) ==
    IF ValidId(id) # "ok" THEN [ok |-> FALSE, why |-> ValidId(id)]
    ELSE IF class \notin EventClasses THEN [ok |-> FALSE, why |-> "unknown-event-class"]
    ELSE [ok |-> TRUE, identity_id |-> id, event_class |-> class]

FilterOmnibox(id, rows) ==
    IF ValidId(id) # "ok" THEN [ok |-> FALSE, why |-> ValidId(id)]
    ELSE LET unowned == SelectSeq(rows, LAMBDA r : ValidId(r.identity_id) # "ok")
         IN  [ok |-> TRUE, identity_id |-> id,
              current |-> SelectSeq(rows, LAMBDA r : r.identity_id = id),
              unknown |-> [i \in DOMAIN unowned |->
                              [unowned[i] EXCEPT !.identity_id = Unset]]]

(* The oracle: what upstream stores with the overlay off and with it on.   *)
UpstreamFields == {"url_id", "visit_id", "url", "title", "ts"}
WriteHistory(rows, id) ==
    [upstream |-> [i \in DOMAIN rows |-> Restrict(rows[i], UpstreamFields \cap DOMAIN rows[i])],
     overlay |-> [i \in DOMAIN rows |-> [identity_id |-> id, row |-> i]]]
HistoryOracle(id, rows) ==
    IF ValidId(id) # "ok" \/ \E r \in ToSet(rows) : ~(DOMAIN r \subseteq UpstreamFields)
    THEN [ok |-> FALSE]
    ELSE LET written == WriteHistory(rows, id)
         IN  [ok |-> TRUE, overlay_rows |-> Len(written.overlay),
              verdict |-> IF written.upstream = rows THEN "diff-clean" ELSE "DELTA"]

-----------------------------------------------------------------------------
(* The frozen calls: a store seeded from the fixture table, as long as it  *)
(* lasts, then one method.  A vid is the number of the seed.               *)
FrozenInfo(vid, rec, state) ==
    [id |-> vid, grade |-> rec.grade, in_memory |-> rec.in_memory, state |-> state]
FrozenCall(seed, method, args) ==
    LET n == Min({Len(seed), Len(FixtureTable)})
        known == args.id \in 1..n
        Error(code) == [error |-> code]
    IN  CASE method = "Create" ->
                IF args.grade \notin {"kStandard", "kFortress"} THEN Error("kMalformedInput")
                ELSE IF n < Len(FixtureTable)
                THEN FrozenInfo(n + 1, args, "kActive") ELSE Error("kFailClosed")
          [] method \in {"Activate", "Hibernate"} /\ known ->
                FrozenInfo(args.id, seed[args.id],
                           IF method = "Activate" THEN "kActive" ELSE "kHibernated")
          [] method = "PromoteToFortressProfile" /\ known /\ ~seed[args.id].in_memory ->
                FrozenInfo(args.id, [seed[args.id] EXCEPT !.grade = "kFortress"], "kActive")
          [] method = "Destroy" /\ known -> [zero_residual_verified |-> TRUE]
          [] method = "MoveTab" /\ args.after_nav -> Error("kNotPermitted")
          [] method = "MoveTab" /\ ~args.after_nav /\ known ->
                FrozenInfo(args.id, seed[args.id], "kActive")
          [] OTHER -> Error("kUnknownIdentity")

-----------------------------------------------------------------------------
(* The manager page.                                                       *)
DevChannel(channel) == channel = "dev"

(* A name is [length, control, opaque]: what the domain's probe says of it.*)
NameRefusal(name) ==
    IF name.length = 0 THEN "name-empty"
    ELSE IF name.length > NameMax THEN "name-too-long"
    ELSE IF name.control THEN "name-control-char"
    ELSE IF ~name.opaque THEN "kNotPermitted"
    ELSE "none"

EditRefusal(store, e) ==
    IF e.identity \notin DOMAIN store THEN "kUnknownIdentity"
    ELSE IF e.op = "rename" THEN NameRefusal(e.value)
    ELSE IF e.op = "recolor" /\ ~e.value.hex THEN "color-not-hex"
    ELSE "none"

ApplyPageEdit(store, e) ==
    IF EditRefusal(store, e) # "none" THEN store
    ELSE CASE e.op = "rename" -> [store EXCEPT ![e.identity].name = e.value]
           [] e.op = "recolor" -> [store EXCEPT ![e.identity].color = e.value]
           [] e.op = "archive" -> [store EXCEPT ![e.identity].state = "kHibernated"]

(* Manager::Destroy of one after the other, and what the page says of it.  *)
Purge(store, planted, d) ==
    [domain |-> d, verified |-> d \in DOMAIN store /\ d \notin planted,
     residual |-> d \in planted]
PurgeEach(store, planted, order) ==
    LET Step(acc, d) ==
            [store |-> Restrict(acc.store, DOMAIN acc.store \ {d}),
             purges |-> Append(acc.purges, Purge(acc.store, planted, d))]
    IN  FoldLeft(Step, [store |-> store, purges |-> <<>>], order)

(* The domain each tab was opened in last.                                 *)
TabCounts(tabs, d) ==
    Cardinality({t \in {tab.id : tab \in ToSet(tabs)} :
        tabs[SelectLastInSeq(tabs, LAMBDA tab : tab.id = t)].identity = d})

PageState(purges, rows) ==
    IF \E p \in ToSet(purges) : ~p.verified THEN "purge-unverified"
    ELSE IF rows = <<>> THEN "empty" ELSE "normal"

NewRecord == [name |-> Unset, color |-> Unset, state |-> "kActive"]

(* manager-page: identities 1..n are provisioned, then tabs, edits, purges.*)
ManagerPage(channel, n, planted, tabs, edits, purge, counts) ==
    LET edited == FoldLeft(ApplyPageEdit, [d \in 1..n |-> NewRecord], edits)
        left == PurgeEach(edited, planted, purge)
        rows == [d \in DOMAIN left.store |->
                    [lifecycle |-> left.store[d].state, name |-> left.store[d].name,
                     tabs |-> TabCounts(tabs, d),
                     permissions |-> IF d \in DOMAIN counts THEN counts[d] ELSE Unset]]
    IN  IF ~DevChannel(channel) THEN [ok |-> FALSE]
        ELSE [ok |-> TRUE, rows |-> rows, purges |-> left.purges,
              state |-> PageState(left.purges, rows)]

ResetAll(channel, n, planted) ==
    LET done == PurgeEach([d \in 1..n |-> NewRecord], planted, [i \in 1..n |-> i])
    IN  IF ~DevChannel(channel) THEN [ok |-> FALSE]
        ELSE [ok |-> TRUE, results |-> done.purges, destroyed |-> n,
              all_verified |-> \A p \in ToSet(done.purges) : p.verified]
=============================================================================
