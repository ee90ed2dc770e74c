---------------------------- MODULE QueuePatterns ----------------------------
(***************************************************************************)
(* The subscription patterns of packages/core/src/queue/pattern-matcher.ts, *)
(* over topics that are sequences of non-empty segments.  A pattern is a    *)
(* sequence whose members are literal segments, "*" or "{}" (a parameter)   *)
(* for one segment, and "#" for several.                                    *)
(***************************************************************************)
EXTENDS Integers, Sequences

OneSegment == {"*", "{}"}
IsQueuePattern(p) == \E i \in 1..Len(p) : p[i] \in OneSegment \cup {"#"}

\* The compiled regular expression: from which positions of the topic the rest of
\* the pattern matches, for each position of the pattern.  A final "#" is '.*' after
\* the separator that precedes it, so it asks for at least one segment unless it is
\* the whole pattern; a "#" followed by a separator is '(?:[^.]+\.)*'.
RegexMatches(p, t) ==
  LET Matched[i \in 1..Len(p) + 1] ==
        {j \in 1..Len(t) + 1 :
           IF i > Len(p) THEN j > Len(t)
           ELSE IF p[i] # "#"
           THEN /\ j <= Len(t) /\ j + 1 \in Matched[i + 1]
                /\ p[i] \in OneSegment \/ p[i] = t[j]
           ELSE IF i < Len(p) THEN \E k \in Matched[i + 1] : j <= k
           ELSE i = 1 \/ j <= Len(t)}
  IN 1 \in Matched[1]

\* createQueuePatternMatcher(): exact match first, the expression only for
\* patterns with a wildcard or a parameter.
CreateQueuePatternMatcher(p, t) == p = t \/ (IsQueuePattern(p) /\ RegexMatches(p, t))

-----------------------------------------------------------------------------
\* What a pattern means, without an algorithm: the topic can be cut into one
\* stretch per member of the pattern (Cut[i] is where stretch i begins), each
\* of which that member accepts.  A "#" stands for any number of segments; one
\* that ends a pattern, behind a separator, for `least` of them at least.
Accepts(p, i, stretch, least) ==
  CASE p[i] \in OneSegment                    -> Len(stretch) = 1
    [] p[i] = "#" /\ (i < Len(p) \/ i = 1)    -> TRUE
    [] p[i] = "#" /\ ~(i < Len(p) \/ i = 1)   -> Len(stretch) >= least
    [] OTHER                                  -> stretch = <<p[i]>>

Denotes(p, t, least) ==
  \E Cut \in [1..Len(p) + 1 -> 1..Len(t) + 1] :
    /\ Cut[1] = 1 /\ Cut[Len(p) + 1] = Len(t) + 1
    /\ \A i \in 1..Len(p) :
         Cut[i] <= Cut[i + 1] /\ Accepts(p, i, SubSeq(t, Cut[i], Cut[i + 1] - 1), least)

\* The matcher's tests ask a final "#" to stand for something ("events.# should
\* match events.anything, not just 'events'", pattern-matcher.test.ts:61); its
\* documentation has it stand for nothing too (pattern-matcher.ts:23 and :64).
Tested == 1
Documented == 0
=============================================================================
