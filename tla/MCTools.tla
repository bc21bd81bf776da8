------------------------------- MODULE MCTools -------------------------------
(***************************************************************************)
(* What stands behind the tools: queries of a database and how they are    *)
(* read, the patterns of routes, pages that stopped, the files of the      *)
(* application and pictures of its windows, each in a scenario of its own. *)
(* They share no variables; the scenario is chosen in the initial state    *)
(* and the others stand still.                                             *)
(***************************************************************************)
EXTENDS DatabaseCalls, SqlReading, RoutePatterns, StoppedPages, AppFiles, WindowCapture

CONSTANT Scenarios

VARIABLE scenario

sqlVars == <<chainVars, mentionVars, scanVars>>
patternVars == <<regexVars, globVars>>
toolsVars == <<scenario, dbVars, sqlVars, patternVars, pagesVars, policyVars, fileSpecVars,
               captureVars>>
-----------------------------------------------------------------------------
(* The inputs.                                                             *)
DbSymmetry == Permutations(DbCalls)
MCTables == <<"ordinary", "virtual">>

Over(S, n) == [1..n -> S]
UpTo(S, n) == UNION {Over(S, k) : k \in 0..n}
MCTexts ==
  UpTo({"'", "[", "]", "-", "/", "*", "eol", ";", "a", "$", ":", "(", ")", " ", "bom"}, 3)
    \cup Over({"'", ";", "a"}, 6) \cup Over({"$", "(", ";", ":"}, 6)
    \cup Over({"/", "*", ";", "-"}, 6) \cup Over({"$", ":", ";", "(", ")", "'"}, 5)

(* Regular expressions of up to two atoms in a repeated group, and with a  *)
(* group within it.                                                        *)
MCAtoms ==
  {Chars({c}, q[1], q[2]) : c \in {"a", "b"}, q \in {<<1, 1>>, <<0, 1>>, <<1, 9>>, <<2, 2>>}}
    \cup {Chars({"a", "b"}, 1, 1)}
MCPlain == {Chars({"a"}, 1, 1), Chars({"b"}, 1, 1), Chars({"a"}, 1, 9)}
OneOrTwo(A) == {<<x>> : x \in A} \cup {<<x, y>> : x, y \in A}
MCInner ==
  {Group(<<s>>, q[1], q[2]) : s \in OneOrTwo(MCPlain), q \in {<<0, 1>>, <<1, 9>>, <<0, 9>>}}
    \cup {Group(<<<<x>>, t>>, 1, 1) : x \in MCPlain, t \in OneOrTwo(MCPlain)}
Loop(alts) == <<<<Group(alts, 1, 9)>>>>
MCShapes ==
  {Loop(<<s>>) : s \in OneOrTwo(MCAtoms)}
    \cup {Loop(<<s, t>>) : s \in OneOrTwo(MCAtoms), t \in OneOrTwo(MCPlain)}
    \cup UNION {{Loop(<<<<g, x>>>>), Loop(<<<<x, g>>>>), Loop(<<<<g>>, <<x>>>>)} :
                  g \in MCInner, x \in MCAtoms}
    \cup {<<<<Group(<<<<g, x>>>>, 1, 1)>>, <<Group(<<<<g>>, <<x>>>>, 2, 2)>>>> :
            g \in MCInner, x \in MCPlain}
MCGlobs == UpTo({"a", "b", "*"}, 4)
MCUrls == UpTo({"a", "b"}, 4)

MCNames == <<"webkit", "d", "l", "logs", "databases", "m", "x", "a.db", "b.db", "hsts">>
MCDirs == [data |-> <<"webkit", "d">>, config |-> <<"webkit", "d">>, local |-> <<"l">>,
           log |-> <<"l", "logs">>]
MCLinks == {[p \in {<<"l", "x">>} |-> <<"m">>],
            [p \in {<<"l", "x">>, <<"webkit", "d">>} |-> <<"m">>]}
MCSlots == {<<"webkit", "d", "a.db">>, <<"m", "a.db">>, <<"l", "b.db">>,
            <<"l", "logs", "a.db">>, <<"l", "databases", "a.db">>, <<"l", "hsts">>}
MCEngine == {<<"l", "databases", "a.db">>, <<"l", "hsts">>}
MCSearches == {<<>>, <<[absolute |-> TRUE, path |-> <<"l", "databases">>]>>,
               <<[absolute |-> FALSE, path |-> <<"logs">>]>>}
MCAnchors == {<<"m">>, <<"l">>}
MCRequests ==
  {[absolute |-> FALSE, path |-> <<"a.db">>], [absolute |-> FALSE, path |-> <<"x", "a.db">>],
   [absolute |-> TRUE, path |-> <<"m", "a.db">>],
   [absolute |-> TRUE, path |-> <<"l", "..", "m", "a.db">>]}
MCSubdirs == {<<>>, <<"x">>}
MCContents == {[head |-> "sqlite", size |-> 1], [head |-> "empty", size |-> 2],
               [head |-> "other", size |-> 3]}

MCShown == [c \in {"a", "b"} |-> IF c = "a" THEN 1 ELSE 2]
MCGeometries == {[w |-> 2, h |-> 2, left |-> 1, top |-> 0, pad |-> 1],
                 [w |-> 1, h |-> 2, left |-> 0, top |-> 1, pad |-> 0],
                 [w |-> 0, h |-> 0, left |-> 0, top |-> 0, pad |-> 0]}
-----------------------------------------------------------------------------
(* The choices of a scenario that is not being run do not matter.          *)
On(name) == scenario = name

ChainRest == graph = [v \in View |-> [own |-> 1, deps |-> {}]] /\ root = 1 /\ visited = 0
  /\ order = [v \in View |-> 0] /\ low = order /\ chain = order
  /\ open = {} /\ group = <<>> /\ stack = <<>> /\ deepest = 0
ScanRest == text = <<>> /\ scanPos = 1 /\ inWord = FALSE /\ code = {} /\ cuts = {}
RegexRest == shape = <<>> /\ loops = <<>> /\ verdict = "none" /\ machine = Empty
  /\ pairs = <<>> /\ head = 0
GlobRest == glob = <<>> /\ url = <<>> /\ part = 1 /\ globPos = 0 /\ hits = "open"
PagesRest == engine = "wkwebview" /\ proc = [w \in Windows |-> 1] /\ answered = {}
PolicyRest == introspects = TRUE /\ registered = OwnRows /\ statement = PlainSelect
  /\ columns = <<>> /\ stage = "new" /\ policy = [functions |-> {}, shadows |-> {}]
  /\ asked = 0 /\ keys = <<>> /\ effects = {}
FilesRest == links = <<>> /\ forward = TRUE /\ files = <<>> /\ configured = <<>>
  /\ told = {} /\ selected = Nothing /\ opened = NoCallYet /\ changes = 0
PicturesRest == platform = "linux" /\ paint = [v \in Seen |-> 0]
  /\ geo = [v \in Seen |-> CHOOSE g \in Geometries : g.w = 0]

(* One of the windows is large enough to lose a row or a column.           *)
OneIsLarge == \E v \in Seen : geo[v].w = 2

ToolsInit ==
  /\ scenario \in Scenarios
  /\ DbInit /\ (On("calls") \/ (tool = [d \in DbCalls |-> "query"] /\ ~foreign))
  /\ MentionInit /\ (On("mentions") \/ body = CHOOSE b \in Bodies : TRUE)
  /\ PagesInit /\ (On("pages") \/ PagesRest)
  /\ CaptureInit /\ (IF On("pictures") THEN OneIsLarge ELSE PicturesRest)
  /\ IF On("chain") THEN ChainInit ELSE ChainRest
  /\ IF On("scan") THEN ScanInit ELSE ScanRest
  /\ IF On("regex") THEN RegexInit ELSE RegexRest
  /\ IF On("glob") THEN GlobInit ELSE GlobRest
  /\ IF On("policy") THEN PolicyInit ELSE PolicyRest
  /\ IF On("files") THEN FilesInit ELSE FilesRest

ToolsNext ==
  \/ On("calls") /\ DbNext /\ UNCHANGED
       <<scenario, sqlVars, patternVars, pagesVars, policyVars, fileSpecVars, captureVars>>
  \/ On("chain") /\ ChainNext /\ UNCHANGED
       <<scenario, dbVars, mentionVars, scanVars, patternVars, pagesVars, policyVars,
         fileSpecVars, captureVars>>
  \/ On("mentions") /\ ReadToken /\ UNCHANGED
       <<scenario, dbVars, chainVars, scanVars, patternVars, pagesVars, policyVars,
         fileSpecVars, captureVars>>
  \/ On("scan") /\ ScanStep /\ UNCHANGED
       <<scenario, dbVars, chainVars, mentionVars, patternVars, pagesVars, policyVars,
         fileSpecVars, captureVars>>
  \/ On("regex") /\ RegexNext /\ UNCHANGED
       <<scenario, dbVars, sqlVars, globVars, pagesVars, policyVars, fileSpecVars, captureVars>>
  \/ On("glob") /\ GlobNext /\ UNCHANGED
       <<scenario, dbVars, sqlVars, regexVars, pagesVars, policyVars, fileSpecVars, captureVars>>
  \/ On("pages") /\ PagesNext /\ UNCHANGED
       <<scenario, dbVars, sqlVars, patternVars, policyVars, fileSpecVars, captureVars>>
  \/ On("policy") /\ PolicyNext /\ UNCHANGED
       <<scenario, dbVars, sqlVars, patternVars, pagesVars, fileSpecVars, captureVars>>
  \/ On("files") /\ FilesNext /\ UNCHANGED
       <<scenario, dbVars, sqlVars, patternVars, pagesVars, policyVars, captureVars>>
  \/ On("pictures") /\ CaptureNext /\ UNCHANGED
       <<scenario, dbVars, sqlVars, patternVars, pagesVars, policyVars, fileSpecVars>>

ToolsSpec == ToolsInit /\ [][ToolsNext]_toolsVars
-----------------------------------------------------------------------------
(* A statement and a pattern are read as the engines behind them read      *)
(* them: SQLite a text, the browser a route pattern.                       *)
TextsAreReadRight == SqlIsReadRight /\ PatternsAreExact
=============================================================================
