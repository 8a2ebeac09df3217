--------------------------- MODULE CommandMatcher ---------------------------
(***************************************************************************)
(* The palette's matcher (src/commands/core/matcher.cc).  Text is a        *)
(* sequence of characters, already in lower case, so the bonus for a       *)
(* change of case, which the code applies after lowering, never counts.    *)
(***************************************************************************)
EXTENDS Integers, SequencesExt, FiniteSetsExt

Separators == {" ", "-", "_", "/", ".", "\t"}
kConsecutive == 5
kBoundary == 10
kKindScale == 1000000

(* Greedily, from the left: the positions, or <<>>.                        *)
SubseqPositions(q, t) ==
    LET Step(acc, c) ==
            LET from == IF acc.pos = <<>> THEN 1 ELSE Last(acc.pos) + 1
                next == {i \in from..Len(t) : t[i] = c}
            IN  IF ~acc.ok \/ next = {} THEN [acc EXCEPT !.ok = FALSE]
                ELSE [acc EXCEPT !.pos = Append(@, Min(next))]
        all == FoldLeft(Step, [ok |-> TRUE, pos |-> <<>>], q)
    IN  IF all.ok THEN all.pos ELSE <<>>

FzfScore(q, t, pos) ==
    LET Gain(i) == 1 + (IF i > 1 /\ pos[i - 1] = pos[i] - 1 THEN kConsecutive ELSE 0)
                     + (IF pos[i] = 1 \/ t[pos[i] - 1] \in Separators THEN kBoundary ELSE 0)
        gains == FoldLeft(LAMBDA sum, i : sum + Gain(i), 0, [i \in DOMAIN pos |-> i])
    IN  Max({1, gains - ((Len(t) - Len(q)) \div 2)})

Contains2(q, t) == \E i \in 0..(Len(t) - Len(q)) : SubSeq(t, i + 1, i + Len(q)) = q

(* Commands: [id, title, keywords]; the keys of one are its id and its     *)
(* keywords, with blanks between.                                          *)
KeysOf(c) == FoldLeft(LAMBDA text, k : text \o <<" ">> \o k, c.id, c.keywords)

ScoreByGain(kind, gain) == gain          \* mutant: the kind does not weigh
ScoreOf(kind, gain) == kKindScale * kind + gain

Matched(q, c, order) ==
    LET pos == SubseqPositions(q, c.title)
        posk == SubseqPositions(q, KeysOf(c))
        Row(kind, gain) == <<[id |-> c.id, order |-> order, kind |-> kind, score |-> ScoreOf(kind, gain)]>>
    IN  IF q = <<>> THEN <<[id |-> c.id, order |-> order, kind |-> 1, score |-> kKindScale]>>
        ELSE IF pos # <<>>
        THEN Row(IF Contains2(q, c.title) THEN 2 ELSE 1, FzfScore(q, c.title, pos))
        ELSE IF posk # <<>> THEN Row(0, FzfScore(q, KeysOf(c), posk))
        ELSE <<>>

MatchQuery(q, corpus) ==
    LET rows == FoldLeft(LAMBDA acc, i : acc \o Matched(q, corpus[i], i), <<>>,
                         [i \in DOMAIN corpus |-> i])
    IN  SortSeq(rows, LAMBDA a, b : a.score > b.score \/ (a.score = b.score /\ a.order < b.order))

-----------------------------------------------------------------------------
(* What a user may rely on: a command is listed when its title, or else    *)
(* its keys, hold the query's characters in order, however far apart; a    *)
(* title that holds the query as it is comes before one that does not, and *)
(* both come before a match of the keys; equals keep the registry's order; *)
(* an empty query lists everything in that order.                          *)
Embeds(q, t) ==
    \E f \in [DOMAIN q -> DOMAIN t] : \A i \in DOMAIN q :
        t[f[i]] = q[i] /\ (i > 1 => f[i - 1] < f[i])
Rank(q, c) == IF Contains2(q, c.title) THEN 2 ELSE IF Embeds(q, c.title) THEN 1 ELSE 0
RanksWell(q, corpus) ==
    LET result == MatchQuery(q, corpus)
        At(i) == corpus[result[i].order]
    IN  /\ {r.order : r \in ToSet(result)} =
              {i \in DOMAIN corpus : Embeds(q, corpus[i].title) \/ Embeds(q, KeysOf(corpus[i]))}
        /\ IsInjective([i \in DOMAIN result |-> result[i].order])
        /\ \A i, j \in DOMAIN result : i < j =>
              /\ q # <<>> => Rank(q, At(i)) >= Rank(q, At(j))
              /\ result[i].score = result[j].score => result[i].order < result[j].order
=============================================================================
