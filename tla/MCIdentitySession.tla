------------------------- MODULE MCIdentitySession -------------------------
(* Tabs, identities and the session document on a small instance, and the   *)
(* single-request views of the identity core over small requests.           *)
EXTENDS IdentitySession, TLC

CONSTANTS Unset

MCSymmetry == Permutations(Partitions)
MCClasses == {"kHistory"}
Views == INSTANCE IdentityViews WITH EventClasses <- MCClasses, NameMax <- 2

-----------------------------------------------------------------------------
(* The parts of ViewsAreHonest, which is evaluated before anything is born. *)

(* No name of eight characters or more, or with a character that is not a   *)
(* digit, may be part of its domain; two domains are one only if their      *)
(* digests differ in the six bits the mint fixes (mint.cc).                 *)
Digests == {[i \in 1..32 |-> IF i = p THEN v ELSE 7] : p \in {1, 13, 17, 32}, v \in 0..15}
MintIsOpaque ==
    /\ \A n \in Digests :
          LET d == Views!FormatUuid(n)
          IN  /\ Views!DomainShapeOk(d)
              /\ \A i \in 1..32 :
                    /\ ~Views!LooksOpaque(d, SubSeq(d, i, i + 7))
                    /\ i > 3 => Views!LooksOpaque(d, SubSeq(d, i, i + 6))
              /\ \A m \in Digests : Views!FormatUuid(m) = d =>
                    \A i \in 1..32 : CASE i = 13 -> TRUE
                                       [] i = 17 -> m[i] % 4 = n[i] % 4
                                       [] OTHER -> m[i] = n[i]
    /\ \A d \in Range(Views!FixtureTable) : Views!DomainShapeOk(d)

(* The rows that the ceremony lists are those in force in the identity it   *)
(* provisions, whatever the caller asked for, and no row is in force that   *)
(* neither lists: but for a border of the window, which is listed and       *)
(* stored nowhere.  A partition is announced as in-memory where a row says  *)
(* so (the record's own in_memory is the caller's), and a route to Tor,     *)
(* never as bound, where one asks for it (templates.cc: Ceremony,           *)
(* ApplyTemplate; identity_host.cc: provision).                             *)
Wishes == UNION {[S -> {"mine"}] : S \in SUBSET {"trust_level", "vault_access", "zoom"}}
Provisioned(id, prefs, in_memory) ==
    Views!Provision([entropy |-> "e", replay |-> FALSE, opaque |-> TRUE, template |-> id,
                     prefs |-> prefs, in_memory |-> in_memory])
Said(id, kind) == {Views!Ceremony(id)[i].about :
                      i \in {j \in DOMAIN Views!Ceremony(id) : Views!Ceremony(id)[j].kind = kind}}
InForce(made, row) ==
    CASE row.ns # "visual" -> row.key \in DOMAIN made.rows /\ made.rows[row.key] = row.value
      [] row.key = "color_bar" -> made.color = row.value
      [] row.key = "glyph" -> made.glyph = row.value
      [] OTHER -> FALSE
CeremonyIsKept ==
    \A id \in DOMAIN Views!Templates, prefs \in Wishes, in_memory \in BOOLEAN :
        LET made == Provisioned(id, prefs, in_memory)
            listed == Said(id, "row")
        IN  /\ \A row \in listed : InForce(made, row) <=> row.key # "border"
            /\ \A key \in DOMAIN made.rows :
                  \/ \E row \in listed : row.key = key /\ row.ns # "visual"
                  \/ key \in DOMAIN prefs /\ made.rows[key] = prefs[key]
            /\ DOMAIN prefs \subseteq DOMAIN made.rows
            /\ Said(id, "disposable") # {} <=> InForce(made, Views!Y("in_memory_partition", "true"))
            /\ Said(id, "route") = IF InForce(made, Views!Y("route", "tor")) THEN {"not bound yet"} ELSE {}

(* The memory table adds up to the measured total, or there is none; no     *)
(* identity is billed for more than its processes hold, and those of one    *)
(* process are billed alike to one unit (attribution.cc: Attribute).        *)
Samples == [rss : 0..4, serves : {<<>>, <<1>>, <<2, 1>>, <<1, 1>>, <<3, 1, 2>>}]
MemoryAddsUp ==
    \A a, b \in Samples, total \in 0..9 :
        LET t == Views!Attribute(<<a, b>>, total)
            Held(d) == (IF d \in Range(a.serves) THEN a.rss ELSE 0)
                       + (IF d \in Range(b.serves) THEN b.rss ELSE 0)
            Sum[S \in SUBSET (0..3)] ==
                IF S = {} THEN 0
                ELSE LET d == CHOOSE e \in S : TRUE IN t.rows[d].kb + Sum[S \ {d}]
        IN  /\ t.ok <=> a.rss + b.rss <= total
            /\ t.ok => Sum[DOMAIN t.rows] = total
            /\ t.ok => \A d \in DOMAIN t.rows \ {0} : t.rows[d].kb <= Held(d)
            /\ t.ok /\ a = b => \A d, e \in Range(a.serves) :
                    t.rows[d].kb - t.rows[e].kb \in -2..2

(* What the address bar shows one identity does not depend on the rows of   *)
(* another, and an entry nobody owns is shown without an owner              *)
(* (ledger_tag.cc: FilterOmnibox).  The history that upstream stores is the *)
(* same with the overlay on (HistoryOracle).                                *)
HistoryRows ==
    [1..3 -> [identity_id : {Unset, Views!Malformed, 1, 2}, url : {"u", "v"}]]
HistoryKeepsApart ==
    /\ \A rows \in HistoryRows, id \in {1, 2} :
          LET seen == Views!FilterOmnibox(id, rows)
          IN  /\ seen = Views!FilterOmnibox(id, SelectSeq(rows,
                                LAMBDA r : r.identity_id # 3 - id))
              /\ \A i \in DOMAIN seen.unknown : seen.unknown[i].identity_id = Unset
              /\ Len(seen.current) + Len(seen.unknown) =
                    Len(SelectSeq(rows, LAMBDA r : r.identity_id # 3 - id))
    /\ \A fields \in SUBSET (Views!UpstreamFields \cup {"note"}) :
          LET r == Views!HistoryOracle(1, <<[f \in fields |-> f]>>)
          IN  IF "note" \in fields THEN ~r.ok ELSE r.verdict = "diff-clean"

(* The manager page shows each identity as a row or as a purge, never both; *)
(* says of a purge that it is verified only if nothing is left; counts each *)
(* tab for the identity it was opened in last; and is shown to developers   *)
(* only.  A purge asked for twice is reported as unverified the second time *)
(* (manager_page.cc: BuildManagerPage; identity_host.cc: manager-page).     *)
Short(S) == {<<>>} \cup [1..1 -> S] \cup [1..2 -> S]
PageTabs == [id : {1, 2}, identity : {1, 2}]
PageEdits == {<<>>, <<[identity |-> 1, op |-> "archive", value |-> Unset]>>}
PageIsHonest ==
    \A channel \in {"dev", "release"}, planted \in SUBSET {1, 2}, tabs \in Short(PageTabs),
      edits \in PageEdits, purge \in Short({1, 2}) :
        LET page == Views!ManagerPage(channel, 2, planted, tabs, edits, purge, <<>>)
            gone == Range(purge)
            LastIn(t) == tabs[SelectLastInSeq(tabs, LAMBDA tab : tab.id = t)].identity
        IN  /\ page.ok <=> channel = "dev"
            /\ page.ok =>
                  /\ DOMAIN page.rows = {1, 2} \ gone
                  /\ \A d \in DOMAIN page.rows :
                        /\ page.rows[d].tabs = Cardinality(
                               {t \in {tab.id : tab \in Range(tabs)} : LastIn(t) = d})
                        /\ page.rows[d].lifecycle =
                               IF edits # <<>> /\ d = 1 THEN "kHibernated" ELSE "kActive"
                  /\ \A i \in DOMAIN page.purges : page.purges[i].verified <=>
                        page.purges[i].domain \notin planted \cup Range(SubSeq(purge, 1, i - 1))
                  /\ page.state = "purge-unverified" <=>
                        gone \cap planted # {} \/ Len(purge) > Cardinality(gone)
            /\ LET reset == Views!ResetAll("dev", 2, planted)
               IN  reset.all_verified <=> planted = {}

(* A frozen call answers for an identity of its seed only, and makes no     *)
(* in-memory one a fortress (identity_host.cc: FrozenCall).                 *)
Seeds == Short([grade : {"kStandard", "kFortress"}, in_memory : BOOLEAN])
Methods == {"Activate", "Hibernate", "PromoteToFortressProfile", "Destroy", "MoveTab"}
FrozenStaysInSeed ==
    \A seed \in Seeds, method \in Methods, vid \in 0..3, after_nav \in BOOLEAN :
        LET r == Views!FrozenCall(seed, method, [id |-> vid, after_nav |-> after_nav])
        IN  "error" \notin DOMAIN r =>
                /\ vid \in DOMAIN seed
                /\ "id" \in DOMAIN r => /\ r.in_memory = seed[vid].in_memory
                                        /\ r.in_memory => r.grade = seed[vid].grade

(* Single requests: the mint, the templates, the memory table, the history  *)
(* and the manager page tell each identity what is its own and no more.     *)
ViewsAreHonest ==
    born = <<>> => /\ MintIsOpaque
                   /\ CeremonyIsKept
                   /\ MemoryAddsUp
                   /\ HistoryKeepsApart
                   /\ PageIsHonest
                   /\ FrozenStaysInSeed
=============================================================================
