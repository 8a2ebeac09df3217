---------------------------- MODULE MCShieldHost ----------------------------
(* Two identities, two sites, two bundle ids in two versions, an int of two *)
(* bits and a sign, so that time outgrows it.                               *)
EXTENDS ShieldHost, TLC

CONSTANTS i1, i2, s1, s2, A, B, d1, d2, r1, page

Bundle(name, version, digest, parse) ==
    [name |-> name, version |-> version, digest |-> digest, parse |-> parse]
MCBundles ==
    {Bundle(A, 1, d1, "ok"), Bundle(A, 2, d2, "ok"), Bundle(B, 1, d1, "ok"),
     Bundle(B, 2, d2, "malformed"), Bundle(B, 2, d2, "unsupported-directive")}
MCStrays ==
    LET a1 == Slot(A, d1, 1)
        a2 == Slot(A, d2, 2)
    IN  {[NoState EXCEPT !.active = a1],
         [NoState EXCEPT !.active = a1, !.lkg = a1, !.pins = <<a1>>],
         [NoState EXCEPT !.pins = <<a1, a2, a1>>],
         [NoState EXCEPT !.last_apply_mono = -2],
         [NoState EXCEPT !.active = a2, !.pins = <<a2>>, !.last_apply_mono = 1]}
MCOffers ==
    {Scope(<<"user", 1>>, [NoLimits EXCEPT !["identity"] = i1], 2),
     Scope(ToggleId(s1), [NoLimits EXCEPT !["rule_id"] = r1], -1)}
MCHits == {NoHit} \cup {[action |-> a, rule_id |-> r1, list_id |-> Unset] : a \in {"block", "redirect", "allow"}}
MCContexts ==
    {[identity |-> p[1], site |-> p[2], workspace |-> Unset,
      url |-> [path |-> page, query |-> TRUE, fragment |-> FALSE]] :
        p \in {<<i1, s1>>, <<i2, s2>>, <<i2, s1>>}}
MCPostures ==
    {NormalInputs, [NormalInputs EXCEPT !.engine_alive = FALSE, !.route_bound = FALSE],
     [NormalInputs EXCEPT !.engine_poisoned = TRUE],
     [NormalInputs EXCEPT !.kill_switch_on = TRUE]}

-----------------------------------------------------------------------------
Filters == INSTANCE ShieldFilters
MCFilters == UNION {[1..n -> {"a", "/", "*", "^", "|"}] : n \in 1..4}
MCTexts == UNION {[1..n -> {"a", "/"}] : n \in 0..3}

(* What a filter says, read from left to right with the set of all places   *)
(* of the text it may have got to.                                          *)
Says(body, t, left, right) ==
    LET After(places, i) ==
            CASE body[i] = "*" -> {q \in 0..Len(t) : \E p \in places : p <= q}
              [] body[i] = "^" ->
                    {p + 1 : p \in {q \in places : q < Len(t) /\ t[q + 1] = "/"}}
                    \cup (IF i = Len(body) \/ body[i + 1] = "*" THEN places \cap {Len(t)} ELSE {})
              [] OTHER -> {p + 1 : p \in {q \in places : q < Len(t) /\ t[q + 1] = body[i]}}
        ends == FoldLeft(After, IF left THEN {0} ELSE 0..Len(t), [i \in DOMAIN body |-> i])
    IN  IF right THEN Len(t) \in ends ELSE ends # {}

(* Placing each segment as early as it goes misses nothing: a filter that   *)
(* is not about a domain matches exactly the texts it says, the star before *)
(* a final bar aside.  Two kinds of filters are left out, which the code    *)
(* reads otherwise: "|segment|", whose left bar is not looked at, and a     *)
(* separator before the final bar, which may not take up the end of the     *)
(* text after the others.  Evaluated before the first call.                 *)
(* (fake_engine.cc: FindSeg, MatchSegmentsV1; bundle.cc: ParseFilter.)      *)
GreedyMissesNothing ==
    calls = 0 /\ now = 0 => \A filter \in MCFilters :
        LET f == Filters!ParseFilter(filter)
            open == IF f.left_anchor THEN Tail(filter) ELSE filter
            body == IF f.right_anchor THEN Front(open) ELSE open
            least == SelectLastInSubSeq(body, 1, Len(body), LAMBDA c : c # "*")
            kept == IF f.right_anchor THEN SubSeq(body, 1, least) ELSE body
        IN  f.ok /\ ~f.domain_anchor =>
                \/ f.right_anchor /\ f.left_anchor /\ ~ \E i \in DOMAIN kept : kept[i] = "*"
                \/ f.right_anchor /\ kept # <<>> /\ Last(kept) = "^"
                \/ \A t \in MCTexts :
                      Filters!MatchSegments(f.segments, t, f.left_anchor, f.right_anchor)
                        = Says(kept, t, f.left_anchor, f.right_anchor)
=============================================================================
