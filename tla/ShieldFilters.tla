---------------------------- MODULE ShieldFilters ----------------------------
(***************************************************************************)
(* The reference matcher of the shield: filter text to parsed filter       *)
(* (bundle.cc), a list bundle and its manifest binding (bundle.cc), and    *)
(* the table engine (fake_engine.cc).  Text is a sequence of characters,   *)
(* a host a sequence of labels; both are already in lower case.            *)
(***************************************************************************)
EXTENDS Integers, Sequences, SequencesExt, FiniteSets

Sep == "sep"         \* '^' inside a segment: kSep

Tail2(s) == SubSeq(s, 3, Len(s))
But(s, n) == SubSeq(s, 1, Len(s) - n)
StartsWith(s, c) == s # <<>> /\ s[1] = c
EndsWith(s, c) == s # <<>> /\ s[Len(s)] = c
Has(s, c) == \E i \in DOMAIN s : s[i] = c

(* Split at '*'.  Consecutive stars are one; a star at an edge leaves an   *)
(* empty segment there.                                                    *)
Segments(body) ==
    LET Step(acc, c) ==
            IF c # "*"
            THEN [acc EXCEPT !.cur = Append(@, IF c = "^" THEN Sep ELSE c)]
            ELSE IF acc.cur # <<>> \/ acc.segs = <<>>
            THEN [segs |-> Append(acc.segs, acc.cur), cur |-> <<>>]
            ELSE acc
        all == FoldLeft(Step, [segs |-> <<>>, cur |-> <<>>], body)
    IN  Append(all.segs, all.cur)

Refusal(filter) ==
    IF filter = <<>> THEN "empty-filter"
    ELSE IF StartsWith(filter, "!") THEN "comment"
    ELSE IF Len(filter) >= 2 /\ StartsWith(filter, "/") /\ EndsWith(filter, "/") THEN "regex"
    ELSE IF \E c \in {"$", "#", "@"} : Has(filter, c) THEN "options"
    ELSE "none"

(* [ok |-> FALSE], or the anchors and segments.                            *)
ParseFilter(filter) ==
    LET domain == StartsWith(filter, "|") /\ StartsWith(Tail(filter), "|")
        left == StartsWith(filter, "|") /\ ~domain
        open == IF domain THEN Tail2(filter) ELSE IF left THEN Tail(filter) ELSE filter
        right == EndsWith(open, "|")
        body == IF right THEN But(open, 1) ELSE open
    IN  IF Refusal(filter) # "none" \/ Has(body, "|") \/ body = <<>>
        THEN [ok |-> FALSE]
        ELSE [ok |-> TRUE, domain_anchor |-> domain, left_anchor |-> left,
              right_anchor |-> right, segments |-> Segments(body)]

-----------------------------------------------------------------------------
(* Matching.  Positions are 0..Len(t).  A separator takes one '/' or ':',  *)
(* or, as the last character of its segment, the end of the text.          *)

MatchSegAt(t, seg, pos) ==
    \A i \in DOMAIN seg :
        LET p == pos + i - 1
        IN  IF seg[i] = Sep
            THEN IF p = Len(t) THEN i = Len(seg)
                 ELSE p < Len(t) /\ t[p + 1] \in {"/", ":"}
            ELSE p < Len(t) /\ t[p + 1] = seg[i]

EndOf(t, seg, pos) == IF pos + Len(seg) > Len(t) THEN Len(t) ELSE pos + Len(seg)

NoMatch == -1

FindSegLast(t, seg, from) ==        \* mutant: the latest place
    LET starts == {s \in from..Len(t) : MatchSegAt(t, seg, s)}
    IN  IF starts = {} THEN NoMatch
        ELSE EndOf(t, seg, CHOOSE s \in starts : \A r \in starts : r <= s)
(* The end of the earliest match at or after from.                         *)
FindSeg(t, seg, from) ==
    LET starts == {s \in from..Len(t) : MatchSegAt(t, seg, s)}
    IN  IF starts = {} THEN NoMatch
        ELSE EndOf(t, seg, CHOOSE s \in starts : \A r \in starts : s <= r)

(* Place the segments one after the other, each as early as it goes; the   *)
(* first one at 0 under a left anchor.  The end of the last, or NoMatch.   *)
Advance(segs, t, left) ==
    LET Step(pos, i) ==
            IF pos = NoMatch THEN NoMatch
            ELSE IF i = 1 /\ left
            THEN IF MatchSegAt(t, segs[1], 0) THEN EndOf(t, segs[1], 0) ELSE NoMatch
            ELSE FindSeg(t, segs[i], pos)
        reached[i \in 0..Len(segs)] == IF i = 0 THEN 0 ELSE Step(reached[i - 1], i)
    IN  reached[Len(segs)]

(* With a right anchor a trailing wildcard is dropped, the last segment    *)
(* goes to its earliest place that ends the text, and the others have to   *)
(* end before it.                                                          *)
MatchSegments(segments, t, left, right) ==
    LET segs == IF right /\ Len(segments) > 1 /\ Last(segments) = <<>>
                THEN Front(segments) ELSE segments
        last == Last(segs)
        finals == {s \in 0..Len(t) : MatchSegAt(t, last, s) /\ EndOf(t, last, s) = Len(t)}
        before == Advance(Front(segs), t, left)
    IN  IF right
        THEN /\ finals # {}
             /\ before # NoMatch
             /\ before <= (CHOOSE s \in finals : \A r \in finals : s <= r)
        ELSE Advance(segs, t, left) # NoMatch

(* A url is its host's labels and its path.                                *)
Text(url) ==
    LET Dotted(acc, label) == acc \o <<".", label>>
    IN  <<"h", ":", "/", "/">> \o Tail(FoldLeft(Dotted, <<>>, url.host)) \o url.path

(* A domain-anchored filter: the first segment up to its first separator   *)
(* is the domain, compared at a label boundary; the rest is matched from   *)
(* the start of the path.  "||d|" asks for the domain only.                *)
DomainCut(seg) ==
    LET cuts == {i \in DOMAIN seg : seg[i] \in {Sep, "/"}}
    IN  IF cuts = {} THEN Len(seg) ELSE (CHOOSE i \in cuts : \A j \in cuts : i <= j) - 1

HostOk(d, host) ==
    \/ d = <<>>
    \/ \E n \in 1..Len(host) :
          LET Dotted(acc, label) == acc \o <<".", label>>
          IN  d = Tail(FoldLeft(Dotted, <<>>, SubSeq(host, n, Len(host))))

FilterMatch(f, url) ==
    IF ~f.domain_anchor
    THEN MatchSegments(f.segments, Text(url), f.left_anchor, f.right_anchor)
    ELSE LET seg == f.segments[1]
             cut == DomainCut(seg)
             rest == SubSeq(seg, cut + 1, Len(seg))
         IN  /\ HostOk(SubSeq(seg, 1, cut), url.host)
             /\ \/ f.right_anchor /\ rest = <<>> /\ Len(f.segments) = 1
                \/ MatchSegments(<<rest>> \o Tail(f.segments), url.path, TRUE, f.right_anchor)

-----------------------------------------------------------------------------
(* The table engine: lists in order, rules in order; the earliest matching *)
(* allow rule, else the earliest matching rule.                            *)

NoHit == [action |-> "none"]

Applies(rule, ctx) ==
    LET names == {ctx.site, ctx.url.host}
    IN  /\ rule.kind # "cosmetic"
        /\ rule.domains = {} \/ rule.domains \cap names # {}
        /\ rule.exclude_domains \cap names = {}
        /\ FilterMatch(rule.parsed, ctx.url)

EngineMatch(lists, ctx) ==
    LET Matching(list) == [i \in DOMAIN list.rules |->
            [action |-> list.rules[i].action, rule_id |-> list.rules[i].id,
             list_id |-> list.name, applies |-> Applies(list.rules[i], ctx)]]
        all == FoldLeft(LAMBDA acc, list : acc \o Matching(list), <<>>, lists)
        hits == SelectSeq(all, LAMBDA h : h.applies)
        allows == SelectSeq(hits, LAMBDA h : h.action = "allow")
    IN  IF allows # <<>> THEN allows[1] ELSE IF hits # <<>> THEN hits[1] ELSE NoHit

-----------------------------------------------------------------------------
(* Bundles.  A raw rule has raw filter text; a bundle is refused as a      *)
(* whole by the first rule that is wrong, so one wrong rule is enough.     *)

Actions == {"block", "allow", "redirect", "replace"}
Kinds == {"network", "cosmetic", "redirect", "resource"}

RuleVerdict(r) ==
    IF r.kind \notin Kinds THEN "unknown-field"
    ELSE IF ~ParseFilter(r.filter).ok THEN "unsupported-directive"
    ELSE IF r.action \notin Actions THEN "unknown-field"
    ELSE IF (r.action \in {"redirect", "replace"}) # r.resource THEN "malformed"
    ELSE "ok"

ListVerdict(list) ==
    LET verdicts == [i \in DOMAIN list.rules |->
            IF RuleVerdict(list.rules[i]) # "ok" THEN RuleVerdict(list.rules[i])
            ELSE IF \E j \in 1..(i - 1) : list.rules[j].id = list.rules[i].id
            THEN "malformed" ELSE "ok"]
        bad == SelectSeq(verdicts, LAMBDA v : v # "ok")
    IN  IF bad = <<>> THEN "ok" ELSE bad[1]

ParseBundle(raw) ==
    LET verdicts == [i \in DOMAIN raw.lists |-> ListVerdict(raw.lists[i])]
        bad == SelectSeq(verdicts, LAMBDA v : v # "ok")
    IN  IF raw.version <= 0 THEN "malformed" ELSE IF bad = <<>> THEN "ok" ELSE bad[1]

(* The manifest pins each list by place, name, attribution (if it gives    *)
(* one), number of rules and digest.                                       *)
CheckAgainstManifest(lists, manifest) ==
    /\ Len(manifest) = Len(lists)
    /\ \A i \in DOMAIN manifest :
          /\ manifest[i].name = lists[i].name
          /\ manifest[i].attribution \in {"none", lists[i].attribution}
          /\ manifest[i].rules = Len(lists[i].rules)
          /\ manifest[i].sha256 = lists[i]      \* the digest of the list's bytes
=============================================================================
