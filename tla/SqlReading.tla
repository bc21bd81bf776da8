----------------------------- MODULE SqlReading -----------------------------
(***************************************************************************)
(* How the database tools read SQL before SQLite does.  scan_sql finds the  *)
(* code in the text of a query, character by character.  table_mentions     *)
(* reads the names a view may select from, token by token, and              *)
(* deepest_view_chain finds the most expensive chain of views that select   *)
(* from each other, with Tarjan's algorithm on an explicit stack.           *)
(***************************************************************************)
EXTENDS Integers, Sequences, FiniteSets, SequencesExt

CONSTANTS Views,      \* number of views
          Costs,      \* what one view may cost
          Texts       \* queries: sequences of characters

ASSUME SqlReadingAssumption ==
  Views \in Nat \ {0} /\ Costs \subseteq Nat \ {0} /\ Costs # {}

VARIABLES graph,      \* per view: what it costs and the views it mentions
          order, low, open, group, chain, stack, visited, deepest, root,
          body,       \* the tokens of a view, with the names it really selects from
          tokensRead, \* tokens read
          clauses,    \* one clause per open parenthesis, innermost last
          mentions,   \* names found
          text,       \* a query
          scanPos,    \* the next character of it
          inWord,     \* the character before belongs to a bare name or number
          code,       \* characters that are neither blank nor of a comment
          cuts        \* semicolons that separate statements

chainVars == <<graph, order, low, open, group, chain, stack, visited, deepest, root>>
mentionVars == <<body, tokensRead, clauses, mentions>>
scanVars == <<text, scanPos, inWord, code, cuts>>

View == 1..Views
-----------------------------------------------------------------------------
(* deepest_view_chain.  0 is UNSEEN, and `root' the next root to try.       *)
ChainInit ==
  /\ graph \in [View -> [own: Costs, deps: SUBSET View]]
  /\ order = [v \in View |-> 0] /\ low = order /\ chain = order
  /\ open = {} /\ group = <<>> /\ stack = <<>>
  /\ visited = 0 /\ deepest = 0 /\ root = 1

Deps(v) == SetToSortSeq(graph[v].deps, <)

(* A view is met: it is numbered, and opened.                               *)
Meet(v, below) ==
  /\ visited' = visited + 1
  /\ order' = [order EXCEPT ![v] = visited']
  /\ low' = [low EXCEPT ![v] = visited']
  /\ open' = open \cup {v} /\ group' = Append(group, v)
  /\ stack' = Append(below, [node |-> v, next |-> 1])

StartRoot ==
  /\ stack = <<>> /\ root <= Views
  /\ root' = root + 1
  /\ IF order[root] # 0 THEN UNCHANGED <<visited, order, low, open, group, stack>>
                        ELSE Meet(root, <<>>)
  /\ UNCHANGED <<graph, chain, deepest>>

Top == stack[Len(stack)]

(* The next mention of the view on top: a new view, one still open, or one  *)
(* whose group has closed.                                                  *)
Follow ==
  /\ stack # <<>> /\ Top.next <= Len(Deps(Top.node))
  /\ LET dep == Deps(Top.node)[Top.next]
         moved == [stack EXCEPT ![Len(stack)].next = @ + 1]
     IN IF order[dep] = 0
        THEN Meet(dep, moved)
        ELSE /\ stack' = moved
             /\ low' = IF dep \in open /\ order[dep] < low[Top.node]
                       THEN [low EXCEPT ![Top.node] = order[dep]] ELSE low
             /\ UNCHANGED <<visited, order, open, group>>
  /\ UNCHANGED <<graph, chain, deepest, root>>

Least(a, b) == IF a < b THEN a ELSE b
Most(S) == CHOOSE n \in S \cup {0} : \A k \in S : k <= n
Cost(S) == FoldLeft(LAMBDA sum, v : sum + (IF v \in S THEN graph[v].own ELSE 0), 0,
                    [v \in View |-> v])

PassesUp(under) ==
  IF under = <<>> THEN low
  ELSE LET parent == under[Len(under)].node
       IN [low EXCEPT ![parent] = Least(@, low[Top.node])]

(* All mentions followed.  A view that saw nothing before itself closes its *)
(* group: the members are charged together, on top of the worst below them. *)
Close ==
  /\ stack # <<>> /\ Top.next > Len(Deps(Top.node))
  /\ LET node == Top.node
         under == SubSeq(stack, 1, Len(stack) - 1)
         start == CHOOSE i \in DOMAIN group : group[i] = node
         members == {group[i] : i \in start..Len(group)}
         total == Cost(members) + Most({chain[d] : d \in UNION {graph[m].deps : m \in members}})
     IN /\ stack' = under /\ low' = PassesUp(under)
        /\ IF low[node] # order[node]
           THEN UNCHANGED <<group, open, chain, deepest>>
           ELSE /\ group' = SubSeq(group, 1, start - 1)
                /\ open' = open \ members
                /\ chain' = [v \in View |-> IF v \in members THEN total ELSE chain[v]]
                /\ deepest' = Most({deepest, total})
  /\ UNCHANGED <<graph, order, visited, root>>

ChainNext == StartRoot \/ Follow \/ Close
-----------------------------------------------------------------------------
(* table_mentions, over tokens: names, keywords and punctuation.            *)
NameWords == {"v", "w", "col"}

(* A grammar of bodies, each a pair of its tokens and of the views SQLite   *)
(* expands for it: expressions, FROM clauses, and queries within queries.   *)
Tokens(b) == b[1]
Real(b) == b[2]
Expr(subs) ==
  {<<<<"col">>, {}>>, <<<<"col", "in", "v">>, {"v"}>>, <<<<"col", "in", "col", ".", "v">>, {"v"}>>}
  \cup {<<<<"(">> \o Tokens(q) \o <<")">>, Real(q)>> : q \in subs}
From(subs) ==
  {<<<<"w">>, {"w"}>>, <<<<"col", ".", "w">>, {"w"}>>, <<<<"(", "v", ",", "w", ")">>, {"v", "w"}>>}
  \cup {<<<<"col", "join", "v", "on">> \o Tokens(e), {"v"} \cup Real(e)>> : e \in Expr(subs)}
  \cup {<<<<"col", "join", "col", "on">> \o Tokens(e) \o <<",", "w">>, {"w"} \cup Real(e)>> :
          e \in Expr(subs)}
  \cup {<<<<"(">> \o Tokens(q) \o <<")">>, Real(q)>> : q \in subs}
Query(subs) ==
  {<<<<"select">> \o Tokens(e) \o <<"from">> \o Tokens(f), Real(e) \cup Real(f)>> :
     e \in Expr(subs), f \in From(subs)}
  \cup {<<<<"select", "col", "from">> \o Tokens(f) \o <<"where">> \o Tokens(e), Real(e) \cup Real(f)>> :
     e \in Expr(subs), f \in From(subs)}

Bodies == Query({<<<<"select", "col", "from", "v">>, {"v"}>>,
                 <<<<"select", "col", "from", "w", "where", "col", "in", "v">>, {"v", "w"}>>,
                 <<<<"select", "col", "from", "w", "order", "col">>, {"w"}>>})

MentionInit == body \in Bodies /\ tokensRead = 0 /\ clauses = <<"Expressions">> /\ mentions = {}

Clause == clauses[Len(clauses)]
Turn(clause) == clauses' = [clauses EXCEPT ![Len(clauses)] = clause]

(* The clause a token leaves its own level in.                              *)
ClauseAfter(word, clause) ==
  CASE word \in {"select", "where", "group", "having", "order", "limit"} -> "Expressions"
    [] word \in {"from", "join"} -> "Tables"
    [] word \in {"on", "using"} /\ clause = "Tables" -> "JoinCondition"
    [] word = "," /\ clause = "JoinCondition" -> "Tables"
    [] OTHER -> clause

ReadToken ==
  /\ tokensRead < Len(Tokens(body))
  /\ tokensRead' = tokensRead + 1
  /\ LET toks == Tokens(body)
         word == toks[tokensRead + 1]
         named(k) == IF tokensRead + 1 + k <= Len(toks) THEN {toks[tokensRead + 1 + k]} \cap NameWords ELSE {}
         dotted == tokensRead + 3 <= Len(toks) /\ toks[tokensRead + 3] = "."
     IN \/ /\ word = "("
           /\ clauses' = Append(clauses, IF Clause = "Tables" THEN "Tables" ELSE "Expressions")
           /\ UNCHANGED mentions
        \/ /\ word = ")"
           /\ clauses' = IF Len(clauses) > 1 THEN SubSeq(clauses, 1, Len(clauses) - 1) ELSE clauses
           /\ UNCHANGED mentions
        \/ /\ word = "in" /\ mentions' = mentions \cup named(1) \cup (IF dotted THEN named(3) ELSE {})
           /\ UNCHANGED clauses
        \/ /\ word \in NameWords
           /\ mentions' = IF Clause = "Tables" THEN mentions \cup {word} ELSE mentions
           /\ UNCHANGED clauses
        \/ /\ word \notin NameWords \cup {"(", ")", "in"}
           /\ Turn(ClauseAfter(word, Clause))
           /\ UNCHANGED mentions
  /\ UNCHANGED body
-----------------------------------------------------------------------------
(* scan_sql, one turn of its loop per step.  "eol" is a line break, "bom"   *)
(* is U+FEFF.                                                               *)
ScanInit == text \in Texts /\ scanPos = 1 /\ inWord = FALSE /\ code = {} /\ cuts = {}

End == Len(text) + 1
Is(i, S) == i \in DOMAIN text /\ text[i] \in S
TwoAt(i, c, d) == Is(i, {c}) /\ Is(i + 1, {d})
is_sqlite_space(i) == Is(i, {" ", "eol"})
is_sqlite_id_char(i) == Is(i, {"a", "$", "bom"})
(* The first place from i on that satisfies P, or the end of the text.      *)
First(i, P(_)) == CHOOSE k \in i..End : (k = End \/ P(k)) /\ \A j \in i..(k - 1) : ~P(j)
After(k) == IF k = End THEN End ELSE k + 1

parameter_name_follows(i) ==
  LET f[k \in 1..(End + 2)] == IF TwoAt(k, ":", ":") THEN f[k + 2] ELSE is_sqlite_id_char(k) IN f[i]

(* The end of a parameter: its name, which double colons may divide, and a  *)
(* suffix in parentheses that no blank interrupts.                          *)
NameEnd(i) ==
  LET f[k \in 1..(End + 2)] == IF is_sqlite_id_char(k) THEN f[k + 1]
                               ELSE IF TwoAt(k, ":", ":") THEN f[k + 2] ELSE k IN f[i]
(* A mistaken ParameterEnd: a parameter ends with its name.                 *)
NameOnly(i) == NameEnd(i)
ParameterEnd(i) ==
  LET n == NameEnd(i)
      stop == First(n, LAMBDA k : is_sqlite_space(k) \/ Is(k, {")"}))
  IN IF ~Is(n, {"("}) THEN n ELSE IF Is(stop, {")"}) THEN stop + 1 ELSE stop

LineEnd(i) == After(First(i, LAMBDA j : Is(j, {"eol"})))
CommentEnd(i) == After(First(i, LAMBDA j : j > i /\ TwoAt(j - 1, "*", "/")))

(* The end of what a quote opens: a doubled quote does not close it, and a  *)
(* bracket has no such escape.                                              *)
QuoteEnd(i) ==
  LET close == IF text[i] = "[" THEN "]" ELSE text[i]
      f[k \in 1..(End + 2)] ==
        IF k >= End THEN End
        ELSE IF text[k] # close THEN f[k + 1]
        ELSE IF close # "]" /\ Is(k + 1, {close}) THEN f[k + 2] ELSE k + 1
  IN f[i + 1]

Parameter(i, after) ==
  Is(i, {"$", ":"}) /\ ~(text[i] = "$" /\ after) /\ parameter_name_follows(i + 1)

ScanStep ==
  /\ scanPos < End
  /\ LET c == text[scanPos]
         keep(to) == scanPos' = to /\ inWord' = FALSE /\ code' = code \cup {scanPos} /\ cuts' = cuts
         drop(to) == scanPos' = to /\ inWord' = FALSE /\ UNCHANGED <<code, cuts>>
     IN CASE c = "bom" /\ ~inWord -> drop(scanPos + 1)
          [] Parameter(scanPos, inWord) -> keep(ParameterEnd(scanPos + 1))
          [] c = "-" /\ Is(scanPos + 1, {"-"}) -> drop(LineEnd(scanPos + 1))
          [] c = "/" /\ Is(scanPos + 1, {"*"}) -> drop(CommentEnd(scanPos + 2))
          [] c \in {"'", "["} -> keep(QuoteEnd(scanPos))
          [] c = ";" -> /\ scanPos' = scanPos + 1 /\ inWord' = FALSE
                        /\ cuts' = cuts \cup {scanPos} /\ UNCHANGED code
          [] OTHER -> IF is_sqlite_space(scanPos) THEN drop(scanPos + 1)
                      ELSE /\ scanPos' = scanPos + 1 /\ inWord' = is_sqlite_id_char(scanPos)
                           /\ code' = code \cup {scanPos} /\ UNCHANGED cuts
  /\ UNCHANGED text

(* statement_count: the pieces between the cuts that hold some code.        *)
Pieces(cut, what) == {Cardinality({c \in cut : c < i}) : i \in what}
statement_count == Cardinality(Pieces(cuts, code))
-----------------------------------------------------------------------------
(* The tokens of SQLite itself: where the token that starts at i ends, and  *)
(* whether it is blank, code, a cut or illegal.                             *)
Tok(end, kind) == [end |-> end, kind |-> kind]
Variable(i) ==
  LET f[k \in 1..(End + 2), named \in BOOLEAN] ==
        IF is_sqlite_id_char(k) THEN f[k + 1, TRUE]
        ELSE IF Is(k, {"("}) /\ named
             THEN LET e == CHOOSE e \in (k + 1)..End :
                             /\ e = End \/ text[e] \in {" ", "eol", ")"}
                             /\ \A j \in (k + 1)..(e - 1) : text[j] \notin {" ", "eol", ")"}
                  IN IF Is(e, {")"}) THEN Tok(e + 1, "code") ELSE Tok(e, "illegal")
        ELSE IF TwoAt(k, ":", ":") THEN f[k + 2, named]
        ELSE Tok(k, IF named THEN "code" ELSE "illegal")
  IN f[i + 1, FALSE]
StringToken(i) ==
  LET close == IF text[i] = "[" THEN "]" ELSE text[i]
      closes == {k \in (i + 1)..Len(text) : text[k] = close
                   /\ (close # "]" => ~Is(k + 1, {close})
                        /\ Cardinality({j \in (i + 1)..k : \A x \in j..k : text[x] = close}) % 2 = 1)}
      first == CHOOSE k \in closes : \A j \in closes : k <= j
  IN IF closes = {} THEN Tok(End, "illegal") ELSE Tok(first + 1, "code")
Token(i) ==
  CASE is_sqlite_space(i) \/ Is(i, {"bom"}) -> Tok(i + 1, "blank")
    [] TwoAt(i, "-", "-") -> Tok(First(i, LAMBDA k : Is(k, {"eol"})), "blank")
    [] TwoAt(i, "/", "*") ->
         LET ends == {k \in (i + 3)..Len(text) : TwoAt(k - 1, "*", "/")}
         IN Tok(IF ends = {} THEN End ELSE (CHOOSE k \in ends : \A j \in ends : k <= j) + 1, "blank")
    [] Is(i, {"'", "["}) -> StringToken(i)
    [] Is(i, {"$", ":"}) -> Variable(i)
    [] Is(i, {"a"}) -> Tok(First(i, LAMBDA k : ~is_sqlite_id_char(k)), "code")
    [] Is(i, {";"}) -> Tok(i + 1, "cut")
    [] Is(i, {"]"}) -> Tok(i + 1, "illegal")
    [] OTHER -> Tok(i + 1, "code")

(* The tokens read up to the first illegal one.                             *)
TokenStarts ==
  LET f[i \in 1..End] ==
        IF i = End THEN {} ELSE IF Token(i).kind = "illegal" THEN {i} ELSE {i} \cup f[Token(i).end]
  IN f[1]
OfKind(kinds) == {i \in TokenStarts : Token(i).kind \in kinds}
SqliteStatements == Pieces(OfKind({"cut"}), OfKind({"code", "illegal"}))

-----------------------------------------------------------------------------
(* The chains a query can really make SQLite expand: views that select from *)
(* one another, none twice.                                                 *)
RealChains ==
  {p \in UNION {[1..n -> View] : n \in 1..Views} :
     /\ \A i, j \in DOMAIN p : p[i] = p[j] => i = j
     /\ \A i \in 1..(Len(p) - 1) : p[i + 1] \in graph[p[i]].deps}

ChainsAreDone == stack = <<>> /\ root > Views

(* The depth the check of the schema works with bounds every chain of views *)
(* a query can expand, cycles of mentions among them included, and is the   *)
(* cost of the deepest one when the mentions have no cycle.                 *)
NoChainIsDeeper ==
  ChainsAreDone =>
    /\ \A p \in RealChains : Cost({p[i] : i \in DOMAIN p}) <= deepest
    /\ (\A p \in RealChains : \A i \in DOMAIN p : p[i] \notin graph[p[Len(p)]].deps) =>
         \E p \in RealChains : Cost({p[i] : i \in DOMAIN p}) = deepest

(* Every view a body really selects from is mentioned, whichever clause and *)
(* however deep a query within the query it stands in.                      *)
MentionsAreComplete == tokensRead = Len(Tokens(body)) => Real(body) \subseteq mentions

(* Queries are counted as SQLite counts them: a text is refused as stacked  *)
(* exactly when SQLite would leave code behind the first statement, which   *)
(* prepare would silently ignore.  A text whose first statement SQLite      *)
(* refuses to read at all is excepted.                                      *)
StacksAreSeen ==
  scanPos = End =>
    \/ OfKind({"illegal"}) # {} /\ Cardinality(SqliteStatements) = 1
    \/ (statement_count > 1) = (Cardinality(SqliteStatements) > 1)

(* SQL is read as SQLite reads it: chains of views are measured to their     *)
(* end, no table a view selects from is missed, and no second statement.    *)
SqlIsReadRight == NoChainIsDeeper /\ MentionsAreComplete /\ StacksAreSeen
=============================================================================
