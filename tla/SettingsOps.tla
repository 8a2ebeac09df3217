---------------------------- MODULE SettingsOps ----------------------------
(***************************************************************************)
(* The settings core (src/settings/core): the schema and its strict load,  *)
(* values and sections, the deep-link router and the search, as operators. *)
(* Names and queries are sequences of characters; a schema document is a   *)
(* record [sections, settings, options, writable] of what is in it.        *)
(***************************************************************************)
EXTENDS Integers, SequencesExt, FiniteSetsExt

CONSTANTS Unset, IntMin, IntMax     \* the int32 window

Dot == "."
Space == " "

-----------------------------------------------------------------------------
(* Values are [type, value]; a definition is a record with the members of  *)
(* SettingDef.                                                             *)
ValidateSettingValue(def, options, v) ==
    CASE def.type = "bool" -> v.type = "bool"
      [] def.type = "string" -> v.type = "string"
      [] def.type = "int" -> v.type = "int" /\ v.value \in IntMin..IntMax
      [] def.type = "enum" -> v.type = "string" /\ v.value \in options
      [] OTHER -> FALSE

FindSetting(schema, key) == SelectSeq(schema.settings, LAMBDA d : d.key = key)
FindSection(schema, id) == SelectSeq(schema.sections, LAMBDA s : s.id = id)
KnownKey(schema, key) == FindSetting(schema, key) # <<>>
Options(schema, key) == IF key \in DOMAIN schema.options THEN schema.options[key] ELSE {}
Keys(schema) == {d.key : d \in ToSet(schema.settings)}

(* Load accepts the document as it is or not at all: unique ids and keys,  *)
(* valid defaults, no orphans.                                             *)
LoadSchema(schema) ==
    /\ IsInjective([i \in DOMAIN schema.sections |-> schema.sections[i].id])
    /\ IsInjective([i \in DOMAIN schema.settings |-> schema.settings[i].key])
    /\ \A d \in ToSet(schema.settings) :
          /\ ValidateSettingValue(d, Options(schema, d.key), d.default)
          /\ FindSection(schema, d.section) # <<>>
    /\ \A s \in ToSet(schema.sections) : \A k \in ToSet(s.settings) :
          KnownKey(schema, k) /\ FindSetting(schema, k)[1].section = s.id
    /\ schema.writable \subseteq Keys(schema)

ValidateDoc(schema, doc) ==
    \A k \in DOMAIN doc :
        KnownKey(schema, k)
        /\ ValidateSettingValue(FindSetting(schema, k)[1], Options(schema, k), doc[k])

-----------------------------------------------------------------------------
(* The policy state a request comes with: [identity, values]; a row has a  *)
(* value and a source.                                                     *)
LoadState(state) ==
    \A k \in DOMAIN state.values : state.values[k].source \in {"resolver", "enterprise"}

SectionAvailable(section, state) ==
    \/ section.availability = "always"
    \/ section.availability = "identity.active" /\ state.identity # Unset

BuildRegistry(schema, state) ==
    [i \in DOMAIN schema.sections |->
        LET s == schema.sections[i]
        IN  [id |-> s.id, available |-> SectionAvailable(s, state), settings |-> s.settings]]

(* get: what the state says if its type fits, or the schema's default.     *)
TypeFits(def, v) == v.type = IF def.type = "enum" THEN "string" ELSE def.type
HandleGet(schema, state, key) ==
    IF ~KnownKey(schema, key) THEN [ok |-> FALSE]
    ELSE LET def == FindSetting(schema, key)[1]
             Answer(v, source) == [ok |-> TRUE, value |-> v, source |-> source,
                                   preempted |-> source = "enterprise"]
         IN  IF key \notin DOMAIN state.values THEN Answer(def.default, "default")
             ELSE LET row == state.values[key]
                  IN  IF /\ TypeFits(def, row.value)
                         /\ def.type = "enum" => row.value.value \in Options(schema, key)
                      THEN Answer(row.value, row.source)
                      ELSE [ok |-> FALSE]

SetRefusal(schema, key, value) ==
    IF ~KnownKey(schema, key) \/ key \notin schema.writable THEN "kRejected"
    ELSE IF ~ValidateDoc(schema, [k \in {key} |-> value]) THEN "kMalformedInput"
    ELSE "ok"

-----------------------------------------------------------------------------
(* Anchors: paths of one or two segments below the root.                   *)
AnchorSuffix(section, key) ==
    LET prefix == Append(section, Dot)
    IN  IF Len(key) > Len(prefix) /\ IsPrefix(prefix, key)
        THEN SubSeq(key, Len(prefix) + 1, Len(key))
        ELSE key
SectionAnchor(schema, id) == <<id>>
SettingAnchor(schema, key) ==
    LET d == FindSetting(schema, key)[1] IN <<d.section, AnchorSuffix(d.section, key)>>

Unknown == [ok |-> FALSE, kind |-> "unknown"]

(* The setting of the last segment: by its key, or else, if that has no    *)
(* dot, the first of the section with this suffix.                         *)
ByAnyKey(schema, section, part) ==     \* mutant: the owning section is not compared
    FindSetting(schema, part)
ByPart(schema, section, part) ==
    LET own == SelectSeq(schema.settings, LAMBDA d : d.section = section)
        byKey == SelectSeq(own, LAMBDA d : d.key = part)
    IN  IF byKey # <<>> THEN byKey
        ELSE IF Dot \in ToSet(part) THEN <<>>
        ELSE SelectSeq(own, LAMBDA d : AnchorSuffix(section, d.key) = part)

Resolve(schema, parts) ==
    IF parts = <<>> THEN [ok |-> TRUE, kind |-> "home"]
    ELSE IF FindSection(schema, parts[1]) = <<>> \/ Len(parts) > 2 THEN Unknown
    ELSE IF Len(parts) = 1
    THEN [ok |-> TRUE, kind |-> "section", section |-> parts[1], canonical |-> parts]
    ELSE LET found == ByPart(schema, parts[1], parts[2])
         IN  IF found = <<>> THEN Unknown
             ELSE [ok |-> TRUE, kind |-> "setting", section |-> parts[1],
                   setting |-> found[1].key,
                   canonical |-> <<parts[1], AnchorSuffix(parts[1], found[1].key)>>]

-----------------------------------------------------------------------------
(* Search.                                                                 *)
Words(text) ==
    LET Step(acc, c) == IF c = Space THEN Append(acc, <<>>)
                        ELSE [acc EXCEPT ![Len(acc)] = Append(@, c)]
    IN  SelectSeq(FoldLeft(Step, <<<<>>>>, text), LAMBDA w : w # <<>>)
JoinNoSpaces(text) == SelectSeq(text, LAMBDA c : c # Space)

IsSubseq(needle, hay) ==
    LET Step(rest, c) == IF rest # <<>> /\ Head(rest) = c THEN Tail(rest) ELSE rest
    IN  FoldLeft(Step, needle, hay) = <<>>

WordTokenScore(word, token) ==
    IF word = <<>> \/ token = <<>> THEN 0
    ELSE IF token = word THEN 3
    ELSE IF Len(word) >= 3 /\ Len(token) > Len(word) /\ IsPrefix(word, token) THEN 2
    ELSE IF Len(word) >= 3 /\ IsSubseq(word, token) THEN 1
    ELSE 0

(* Index entries: [key, kind, fields]; sections, then settings.            *)
BuildIndex(schema) ==
    [i \in DOMAIN schema.sections |->
        LET s == schema.sections[i]
        IN  [key |-> s.id, kind |-> "section", fields |-> {s.id} \cup s.aliases]]
    \o [i \in DOMAIN schema.settings |->
        LET d == schema.settings[i]
        IN  [key |-> d.key, kind |-> "setting", fields |-> {d.key, d.section} \cup d.aliases]]

Best(word, fields) ==
    Max({0} \cup {WordTokenScore(word, t) :
                    t \in UNION {ToSet(Words(f)) \cup {JoinNoSpaces(f)} : f \in fields}})
Phrase(query, fields) ==
    IF \E f \in fields : JoinNoSpaces(f) = query THEN 300
    ELSE IF \E f \in fields : IsSubseq(query, JoinNoSpaces(f)) THEN 150 ELSE 0
Score(query, e) ==
    LET words == SelectSeq(Words(query), LAMBDA w : Len(w) >= 2)
        Add2(total, w) == total + Best(w, e.fields) * Best(w, e.fields)
    IN  FoldLeft(Add2, 0, words) + Phrase(JoinNoSpaces(query), e.fields)

(* By score, and in the order of the schema among equals.                  *)
MatchQuery(query, corpus) ==
    LET rows == [i \in DOMAIN corpus |->
                    [key |-> corpus[i].key, kind |-> corpus[i].kind, order |-> i,
                     score |-> Score(query, corpus[i])]]
        hits == SelectSeq(rows, LAMBDA r : r.score > 0)
        Before(a, b) == a.score > b.score \/ (a.score = b.score /\ a.order < b.order)
    IN  IF JoinNoSpaces(query) = <<>> THEN <<>> ELSE SortSeq(hits, Before)
=============================================================================
