--------------------------- MODULE RoutePatterns ----------------------------
(***************************************************************************)
(* The two matchers of route rules that the page's main thread depends on:  *)
(* the analysis that refuses a regular expression which could hang the page *)
(* (regexHangRisk: the automaton of a repeated group must take each text in *)
(* one way only), and the greedy scan of a glob.  Each works on a pattern   *)
(* chosen at the start and is compared with what the pattern means.         *)
(***************************************************************************)
EXTENDS Integers, Sequences, FiniteSets, SequencesExt

CONSTANTS Shapes,     \* regular expressions, as parseRegexShape hands them on
          Letters,    \* the characters of texts
          MaxText,    \* bound: length of the texts a pattern is tried on
          Globs, GlobUrls

Infinity == 9         \* more than any text is long

ASSUME RoutePatternsAssumption == MaxText \in Nat /\ MaxText < Infinity

VARIABLES shape,     \* the alternatives of the expression
          loops,     \* its repeated groups still to be judged
          machine,   \* of the group being judged: per position, where a step leads
          pairs,     \* pairs of positions reached on one text, in order
          head,      \* the pair to be followed next
          verdict,   \* "open", "refused" or "accepted"
          glob, url, part, globPos, hits
regexVars == <<shape, loops, machine, pairs, head, verdict>>
globVars == <<glob, url, part, globPos, hits>>
-----------------------------------------------------------------------------
(* An atom takes one character of `on', or is a group of alternatives, and  *)
(* is repeated min to max times.                                            *)
Chars(on, min, max) == [on |-> on, alts |-> <<>>, min |-> min, max |-> max]
Group(alts, min, max) == [on |-> {}, alts |-> alts, min |-> min, max |-> max]
IsGroup(a) == a.alts # <<>>

(* visit: the outermost repeated groups, in order.                          *)
RECURSIVE Outermost(_)
Outermost(alts) ==
  FlattenSeq([i \in DOMAIN alts |-> FlattenSeq([k \in DOMAIN alts[i] |->
    LET a == alts[i][k]
    IN IF ~IsGroup(a) THEN <<>> ELSE IF a.max >= 2 THEN <<a>> ELSE Outermost(a.alts)])])

(* Sets of positions with the number of ways to get there: 2 is "several".  *)
Capped(n) == IF n > 2 THEN 2 ELSE n
Ways(set, p) == IF p \in DOMAIN set THEN set[p] ELSE 0
Nowhere == [p \in {} |-> 0]
Only(p) == [q \in {p} |-> 1]
Merged(s, t, times) ==
  IF times = 0 THEN s
  ELSE [p \in DOMAIN s \cup DOMAIN t |-> Capped(Ways(s, p) + Ways(t, p) * times)]

(* link: from the last positions of one part to the first of the next.      *)
Link(follow, last, first) ==
  [p \in DOMAIN follow |->
     IF p \notin DOMAIN last THEN follow[p]
     ELSE Merged(follow[p], [q \in DOMAIN first |-> Capped(last[p] * first[q])], 1)]

(* buildAtom and build: `on' and `follow' of the positions so far, and the  *)
(* part built last.  A repeated group that can match nothing is refused.    *)
Empty == [on |-> <<>>, follow |-> <<>>, bad |-> FALSE, nulls |-> 1,
          first |-> Nowhere, last |-> Nowhere]

Chain(m, a) ==
  LET n == Len(m.on)
      steps == IF a.min = a.max THEN a.max ELSE 1
      loop == a.min # a.max /\ a.max >= 2
  IN [m EXCEPT !.on = @ \o [i \in 1..steps |-> a.on],
               !.follow = @ \o [i \in 1..steps |-> IF loop THEN Only(n + 1)
                                                   ELSE IF i < steps THEN Only(n + i + 1)
                                                   ELSE Nowhere],
               !.nulls = IF a.min = 0 THEN 1 ELSE 0,
               !.first = Only(n + 1), !.last = Only(n + steps)]

RECURSIVE Built(_, _)
Repeated(m, a) ==
  LET body == Built(m, a.alts)
  IN [body EXCEPT !.bad = @ \/ (a.max >= 2 /\ body.nulls > 0),
                  !.follow = IF a.max >= 2 THEN Link(@, body.last, body.first) ELSE @,
                  !.nulls = Capped(@ + (IF a.min = 0 THEN 1 ELSE 0))]
Part(m, a) == IF IsGroup(a) THEN Repeated(m, a) ELSE Chain(m, a)
Then(m, a) ==
  LET x == Part(m, a)
  IN [x EXCEPT !.follow = Link(@, m.last, x.first),
               !.first = Merged(m.first, x.first, m.nulls),
               !.last = IF x.nulls = 0 THEN x.last ELSE Merged(x.last, m.last, x.nulls),
               !.nulls = Capped(m.nulls * x.nulls)]
Or(m, seq) ==
  LET one == FoldLeft(Then, [m EXCEPT !.nulls = 1, !.first = Nowhere, !.last = Nowhere], seq)
  IN [one EXCEPT !.nulls = Capped(m.nulls + one.nulls),
                 !.first = Merged(m.first, one.first, 1),
                 !.last = Merged(m.last, one.last, 1)]
Built(m, alts) == FoldLeft(Or, [m EXCEPT !.nulls = 0, !.first = Nowhere, !.last = Nowhere], alts)
-----------------------------------------------------------------------------
(* ambiguousLoop: refused when one step can be made in two ways; otherwise  *)
(* two positions that one position steps to on the same character are       *)
(* followed on the same text until they meet or cannot both go on.          *)
RegexInit ==
  /\ shape \in Shapes /\ loops = Outermost(shape) /\ verdict = "open"
  /\ machine = Empty /\ pairs = <<>> /\ head = 0

overlap(m, p, q) == m.on[p] \cap m.on[q] # {}
Pair(p, q) == IF p < q THEN <<p, q>> ELSE <<q, p>>
Diverging(m) ==
  {Pair(d[1], d[2]) : d \in
     {pq \in (1..Len(m.on)) \X (1..Len(m.on)) :
        /\ pq[1] # pq[2] /\ overlap(m, pq[1], pq[2])
        /\ \E r \in 1..Len(m.on) : pq[1] \in DOMAIN m.follow[r] /\ pq[2] \in DOMAIN m.follow[r]}}

NextGroup ==
  /\ verdict = "open" /\ head = 0 /\ loops # <<>>
  /\ LET m == Repeated(Empty, Head(loops)) IN
     /\ machine' = m
     /\ pairs' = SetToSeq(Diverging(m))
     /\ verdict' = IF m.bad \/ \E p \in DOMAIN m.on : \E q \in DOMAIN m.follow[p] :
                                  m.follow[p][q] > 1
                   THEN "refused" ELSE "open"
  /\ head' = 1 /\ loops' = Tail(loops)
  /\ UNCHANGED shape
Steps(m, p, q) ==
  {ft \in (DOMAIN m.follow[p]) \X (DOMAIN m.follow[q]) : overlap(m, ft[1], ft[2])}
FollowPair ==
  /\ verdict = "open" /\ head > 0 /\ head <= Len(pairs)
  /\ LET steps == Steps(machine, pairs[head][1], pairs[head][2])
         new == {Pair(s[1], s[2]) : s \in steps} \ Range(pairs)
     IN IF \E s \in steps : s[1] = s[2]
        THEN verdict' = "refused" /\ UNCHANGED pairs
        ELSE pairs' = pairs \o SetToSeq(new) /\ UNCHANGED verdict
  /\ head' = head + 1
  /\ UNCHANGED <<shape, loops, machine>>

GroupDone ==
  /\ verdict = "open" /\ head > Len(pairs) /\ (head > 0 \/ loops = <<>>)
  /\ verdict' = IF loops = <<>> THEN "accepted" ELSE "open"
  /\ head' = 0 /\ pairs' = <<>>
  /\ UNCHANGED <<shape, loops, machine>>

RegexNext == NextGroup \/ FollowPair \/ GroupDone
-----------------------------------------------------------------------------
(* globHits: the first and the last part at the two ends, the others from   *)
(* left to right, each at its first place.                                  *)
Stars == {i \in DOMAIN glob : glob[i] = "*"}
Parts ==
  LET cut == SetToSortSeq(Stars \cup {0, Len(glob) + 1}, <)
  IN [i \in 1..(Len(cut) - 1) |-> SubSeq(glob, cut[i] + 1, cut[i + 1] - 1)]
LastPart == Parts[Len(Parts)]
UrlEnd == Len(url) - Len(LastPart)
At(s, i) == i + Len(s) <= Len(url) /\ SubSeq(url, i + 1, i + Len(s)) = s

GlobInit ==
  /\ glob \in Globs /\ url \in GlobUrls /\ part = 1 /\ globPos = 0 /\ hits = "open"
EndsFit == UrlEnd >= Len(Parts[1]) /\ At(Parts[1], 0) /\ At(LastPart, UrlEnd)
CheckEnds ==
  /\ hits = "open" /\ part = 1
  /\ hits' = IF Stars = {} THEN (IF url = glob THEN "yes" ELSE "no")
             ELSE IF EndsFit THEN "open" ELSE "no"
  /\ part' = 2 /\ globPos' = Len(Parts[1])
  /\ UNCHANGED <<glob, url>>

Places(s, from) == {i \in from..(UrlEnd - Len(s)) : At(s, i)}
FindPart ==
  /\ hits = "open" /\ part > 1
  /\ LET s == Parts[part] IN
     IF part = Len(Parts) THEN hits' = "yes" /\ UNCHANGED globPos
     ELSE IF Places(s, globPos) = {} THEN hits' = "no" /\ UNCHANGED globPos
     ELSE /\ globPos' = Len(s) + CHOOSE i \in Places(s, globPos) : \A j \in Places(s, globPos) : i <= j
          /\ UNCHANGED hits
  /\ part' = part + 1
  /\ UNCHANGED <<glob, url>>

GlobNext == CheckEnds \/ FindPart
-----------------------------------------------------------------------------
(* What a pattern means: the number of ways an expression takes a text.     *)
RECURSIVE Times(_, _, _), WaysOf(_, _), Total(_, _)
Total(F, n) == IF n < 0 THEN 0 ELSE F[n] + Total(F, n - 1)
Before(w, k) == SubSeq(w, 1, k)
Beyond(w, k) == SubSeq(w, k + 1, Len(w))
Once(a, w) ==
  IF IsGroup(a) THEN FoldLeft(LAMBDA n, seq : n + WaysOf(seq, w), 0, a.alts)
  ELSE IF Len(w) = 1 /\ w[1] \in a.on THEN 1 ELSE 0
Times(a, n, w) ==
  IF n = 0 THEN (IF w = <<>> THEN 1 ELSE 0)
  ELSE Total([k \in 0..Len(w) |-> LET one == Once(a, Before(w, k))
                                IN IF one = 0 THEN 0 ELSE one * Times(a, n - 1, Beyond(w, k))],
           Len(w))
Taken(a, w) ==
  Total([n \in 0..Len(w) |->
         IF n >= a.min /\ n <= a.max THEN Times(a, n, w) ELSE 0], Len(w))
  + (IF a.min > Len(w) /\ a.min <= Len(w) + 1 THEN Times(a, a.min, w) ELSE 0)
WaysOf(seq, w) ==
  IF seq = <<>> THEN (IF w = <<>> THEN 1 ELSE 0)
  ELSE Total([k \in 0..Len(w) |-> LET one == Taken(Head(seq), Before(w, k))
                                IN IF one = 0 THEN 0 ELSE one * WaysOf(Tail(seq), Beyond(w, k))],
           Len(w))

WordsUpTo == UNION {[1..n -> Letters] : n \in 0..MaxText}
Globbed(g, u) ==
  \E at \in [DOMAIN g -> 0..Len(u)] :
    /\ \A i \in DOMAIN g : g[i] # "*" => at[i] = 1
    /\ FoldFunction(LAMBDA x, y : x + y, 0, at) = Len(u)
    /\ \A i \in DOMAIN g : g[i] # "*" =>
         u[FoldFunctionOnSet(LAMBDA x, y : x + y, 0, at, 1..i)] = g[i]

(* An accepted expression has no repeated group that takes a text in two    *)
(* ways, so no request URL makes the matcher of the page try exponentially  *)
(* many: the analysis of regexHangRisk against the meaning of the pattern.  *)
RegexesTakeOneWay ==
  verdict = "accepted" =>
    \A w \in WordsUpTo : \A i \in DOMAIN Outermost(shape) :
      Taken([Outermost(shape)[i] EXCEPT !.max = Infinity], w) <= 1

(* The scan of a glob finds a match exactly when there is one, although it  *)
(* never goes back: the star takes any run of characters, all others only   *)
(* themselves.                                                              *)
GlobsAreExact == (hits = "yes" => Globbed(glob, url)) /\ (hits = "no" => ~Globbed(glob, url))

(* Patterns of a route mean what they say and end soon: the expressions let *)
(* through have one way to match a text, and globs match what they should.  *)
PatternsAreExact == RegexesTakeOneWay /\ GlobsAreExact
=============================================================================
