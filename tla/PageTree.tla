------------------------------ MODULE PageTree ------------------------------
(***************************************************************************)
(* What an agent is shown of a page: the two forms of dom_snapshot, the    *)
(* search of find_elements, the text wait_for reads, and the labels a      *)
(* control is found by (js_bridge.rs, "DOM Walking" and "findElements").   *)
(*                                                                         *)
(* A document is a set of elements numbered in document order, element 1   *)
(* being the top document's body.  An element hangs from its parent as an  *)
(* ordinary child, from the parent's open shadow root, or as the body of   *)
(* the frame the parent is.  Each walk reads the document in one task, so  *)
(* no element changes during it; between walks the page may be anything.   *)
(***************************************************************************)
EXTENDS Naturals, FiniteSets, Sequences, SequencesExt

CONSTANTS Size,      \* elements of a document
          Edges,     \* how an element may hang: "child", "shadow", "frame"
          Visibles,  \* what its own style may say: "inherit", "visible", "hidden", "collapse"
          Words,     \* what its own text may say ("" for nothing)
          Caps       \* the max_results a caller may give

ASSUME PageTreeAssumption == /\ Size \in Nat \ {0}
                             /\ Edges \subseteq {"child", "shadow", "frame"}
                             /\ Caps \subseteq Nat

VARIABLES page, query, shownTree, shownLines, foundAll, foundText
treeVars == <<page, query, shownTree, shownLines, foundAll, foundText>>

Elems == 1 .. Size

(* A document, numbered in document order (children before the shadow root's), *)
(* a frame holding nothing but its body.  Bound: one element at most is display:none, one at most opacity:0.  *)
Hanging == {h \in [Elems -> (0 .. Size - 1) \X Edges] :
              /\ h[1] = <<0, "child">>
              /\ \A n \in Elems \ {1} : h[n][1] \in 1 .. n - 1
              /\ \A n, k \in Elems \ {1} :
                   /\ (n # k /\ h[n][1] = h[k][1]) => "frame" \notin {h[n][2], h[k][2]}
                   /\ (k < n /\ h[n][1] = h[k][1]) => <<h[k][2], h[n][2]>> # <<"shadow", "child">>
                   /\ h[n][1] < k /\ k < n => h[k][1] >= h[n][1]}
Documents == {[n \in Elems |-> [up |-> h[n][1], by |-> h[n][2], none |-> n = gone,
                                vis |-> v[n], clear |-> n = faint, word |-> w[n]]] :
                h \in Hanging, gone \in 0 .. Size, faint \in 0 .. Size,
                v \in [Elems -> Visibles], w \in [Elems -> Words]}

-----------------------------------------------------------------------------
(* The browser (external): what an element's computed style says.           *)

RECURSIVE Visibility(_, _)
Visibility(d, n) ==
  IF d[n].vis # "inherit" THEN d[n].vis
  ELSE IF n = 1 \/ d[n].by = "frame" THEN "visible" ELSE Visibility(d, d[n].up)

(* Kids in the order the walks take them: children, the shadow root's, the frame's body. *)
KidsBy(d, n, by) == SetToSortSeq({k \in Elems : d[k].up = n /\ d[k].by = by}, <)
elKids(d, n) == KidsBy(d, n, "child") \o KidsBy(d, n, "shadow")
frameBody(d, n) == KidsBy(d, n, "frame")

-----------------------------------------------------------------------------
(* walkDomInto, walkStyledInto, walkChildrenInto: the tree of format "json", *)
(* each element as <<element, depth in the tree, transparent>>.  A hidden    *)
(* element is skipped for its children, unless it is a body.                 *)

RECURSIVE walkDomInto(_, _, _, _, _)
walkChildrenInto(d, n, depth, faded) ==
  FoldLeft(LAMBDA out, k : out \o walkDomInto(d, k, FALSE, depth, faded), <<>>, elKids(d, n))
walkDomInto(d, n, isRoot, depth, above) ==
  LET faded == above \/ d[n].clear IN
  IF d[n].none THEN <<>>
  ELSE IF Visibility(d, n) = "hidden" /\ ~isRoot THEN walkChildrenInto(d, n, depth, faded)
  ELSE <<[el |-> n, depth |-> depth, transparent |-> faded]>>
       \o walkChildrenInto(d, n, depth + 1, faded)
       \o FoldLeft(LAMBDA out, b : out \o walkDomInto(d, b, TRUE, depth + 1, faded),
                   <<>>, frameBody(d, n))

(* walkDomCompact, walkStyledCompact, compactChildren: the indented lines.   *)
(* A frame's content is announced by a line and indented under it.           *)
RECURSIVE walkDomCompact(_, _, _, _, _)
compactChildren(d, n, depth, faded) ==
  FoldLeft(LAMBDA out, k : out \o walkDomCompact(d, k, depth, FALSE, faded), <<>>, elKids(d, n))
walkDomCompact(d, n, depth, isRoot, above) ==
  LET faded == above \/ d[n].clear IN
  IF d[n].none THEN <<>>
  ELSE IF Visibility(d, n) = "hidden" /\ isRoot # TRUE THEN compactChildren(d, n, depth, faded)
  ELSE <<[el |-> n, depth |-> depth, transparent |-> faded]>>
       \o compactChildren(d, n, depth + 1, faded)
       \o FoldLeft(LAMBDA out, b : out \o walkDomCompact(d, b, depth + 2, TRUE, faded),
                   <<>>, frameBody(d, n))

-----------------------------------------------------------------------------
(* Text. nodeFullText is textContent: an element's own words and those of    *)
(* its ordinary descendants, rendered or not, without shadow roots/frames.   *)

RECURSIVE nodeFullText(_, _)
nodeFullText(d, n) ==
  ({d[n].word} \ {""}) \cup UNION {nodeFullText(d, k) : k \in Range(KidsBy(d, n, "child"))}

(* innerText (external): the rendered words only. *)
RECURSIVE innerText(_, _)
innerText(d, n) ==
  IF d[n].none THEN {}
  ELSE (IF Visibility(d, n) = "visible" THEN {d[n].word} \ {""} ELSE {})
       \cup UNION {innerText(d, k) : k \in Range(KidsBy(d, n, "child"))}

RECURSIVE Light(_, _)
Light(d, n) == {n} \cup UNION {Light(d, k) : k \in Range(KidsBy(d, n, "child"))}

(* pageText: a body's rendered text, the whole text of every open shadow root *)
(* below it, and the text of every same-origin frame below it.                *)
RECURSIVE pageText(_, _), RootText(_, _)
pageText(d, body) ==
  innerText(d, body)
  \cup UNION {UNION {RootText(d, k) : k \in {j \in Elems : d[j].up = n /\ d[j].by = "shadow"}}
              \cup UNION {pageText(d, b) : b \in Range(frameBody(d, n))} : n \in Light(d, body)}

(* A ShadowRoot has no innerText: nodeFullText of what hangs from it, and so on down. *)
RootText(d, k) ==
  nodeFullText(d, k)
  \cup UNION {UNION {RootText(d, j) : j \in {i \in Elems : d[i].up = n /\ d[i].by = "shadow"}}
              \cup UNION {pageText(d, b) : b \in Range(frameBody(d, n))} : n \in Light(d, k)}

-----------------------------------------------------------------------------
(* findElements: search, with its shared results.  A search returns whether   *)
(* the subtree holds a match and the results so far; a query by text decides  *)
(* an element after its subtree.                                              *)

Query == [byText : BOOLEAN, word : Words \ {""}, hidden : BOOLEAN, cap : Caps]

matches(d, q, n) == q.byText => q.word \in nodeFullText(d, n)

RECURSIVE search(_, _, _, _, _)

search(d, q, n, hiddenAbove, results) ==
  IF Len(results) >= q.cap THEN [found |-> TRUE, results |-> results]
  ELSE LET noneHere == hiddenAbove \/ d[n].none
           shown == ~noneHere /\ Visibility(d, n) \notin {"hidden", "collapse"}
           eligible == shown \/ q.hidden
           hit == [el |-> n, visible |-> shown]
           before == IF ~q.byText /\ eligible /\ matches(d, q, n)
                       THEN Append(results, hit) ELSE results
           below == FoldLeft(LAMBDA s, k :
                               LET r == search(d, q, k, noneHere, s.results)
                               IN [found |-> s.found \/ r.found, results |-> r.results],
                             [found |-> FALSE, results |-> before],
                             elKids(d, n) \o frameBody(d, n))
       IN IF noneHere /\ ~q.hidden THEN [found |-> FALSE, results |-> results]
          ELSE IF /\ q.byText /\ ~below.found /\ eligible
                  /\ Len(below.results) < q.cap /\ matches(d, q, n)
               THEN [found |-> TRUE, results |-> Append(below.results, hit)]
               ELSE below

(* maxResults === 0 answers at once; otherwise the search starts at the body. *)
findElements(d, q) == IF q.cap = 0 THEN <<>> ELSE search(d, q, 1, FALSE, <<>>).results

-----------------------------------------------------------------------------
(* One question at a time, of a page in any state.                           *)

NoQuery == [byText |-> FALSE, word |-> "none", hidden |-> FALSE, cap |-> 0]

TreeInit == /\ page \in Documents
            /\ query = NoQuery
            /\ shownTree = <<>> /\ shownLines = <<>>
            /\ foundAll = <<>> /\ foundText = <<>>

(* dom_snapshot in both formats: format === 'json', and the default. *)
Snapshot == /\ shownTree = <<>> /\ shownLines = <<>> /\ query = NoQuery
            /\ shownTree' = walkDomInto(page, 1, TRUE, 0, FALSE)
            /\ shownLines' = walkDomCompact(page, 1, 0, TRUE, FALSE)
            /\ foundAll' = findElements(page, [byText |-> FALSE, word |-> "none",
                                               hidden |-> FALSE, cap |-> Size])
            /\ query' = [NoQuery EXCEPT !.cap = Size]
            /\ UNCHANGED <<page, foundText>>

FindByText == /\ query = NoQuery
              /\ \E q \in Query :
                   /\ q.byText
                   /\ query' = q
                   /\ foundText' = findElements(page, q)
              /\ UNCHANGED <<page, shownTree, shownLines, foundAll>>

TreeNext == Snapshot \/ FindByText

-----------------------------------------------------------------------------
RECURSIVE Above(_, _)
Above(d, n) == IF n = 1 THEN {} ELSE {d[n].up} \cup Above(d, d[n].up)

RECURSIVE OfTop(_, _)
OfTop(d, n) == n = 1 \/ (d[n].by # "frame" /\ OfTop(d, d[n].up))

IsBody(d, n) == n = 1 \/ d[n].by = "frame"

(* Rendered: no display:none in the element or anything around it, and        *)
(* computed visible.                                                          *)
Rendered(d, n) == /\ \A m \in {n} \cup Above(d, n) : ~d[m].none
                  /\ Visibility(d, n) = "visible"
(* Inside a frame that is itself hidden: the frame's document computes its    *)
(* own visibility, and the two walks are known to differ there.               *)
InHiddenFrame(d, n) == \E m \in {n} \cup Above(d, n) :
                         IsBody(d, m) /\ m # 1 /\ Visibility(d, d[m].up) # "visible"

(* The three views of a page agree on what is there: the tree and the lines   *)
(* list the same elements in the same order with the same marks, every        *)
(* element find_elements shows is listed, every listed element a user could   *)
(* see is found, and an element is marked transparent exactly when it or      *)
(* something around it is.  The code is three separate recursions.            *)
ViewsAgree ==
  query = [NoQuery EXCEPT !.cap = Size] =>
    /\ [i \in DOMAIN shownTree |-> <<shownTree[i].el, shownTree[i].transparent>>]
         = [i \in DOMAIN shownLines |-> <<shownLines[i].el, shownLines[i].transparent>>]
    /\ LET listed == {shownTree[i].el : i \in DOMAIN shownTree}
           found == {foundAll[i].el : i \in DOMAIN foundAll}
       IN /\ \A n \in Elems : ~InHiddenFrame(page, n) =>
               /\ n \in found <=> Rendered(page, n)
               /\ Rendered(page, n) => n \in listed
               /\ n \in listed => n \in found \/ IsBody(page, n) \/ Visibility(page, n) = "collapse"
          /\ \A i \in DOMAIN shownTree : shownTree[i].transparent
               = \E m \in {shownTree[i].el} \cup Above(page, shownTree[i].el) : page[m].clear
          /\ Len(shownTree) = Cardinality(listed)

(* A search by text returns the deepest elements holding the text, in         *)
(* document order and cut at max_results after filtering: an ancestor neither *)
(* shadows a match nor uses up a place, whatever mix of hidden elements,      *)
(* shadow roots and frames lies between.  And what it shows is text wait_for  *)
(* text would have seen.                                                      *)
HoldsWord(q, n) == /\ q.word \in nodeFullText(page, n)
                   /\ q.hidden \/ ( /\ \A m \in {n} \cup Above(page, n) : ~page[m].none
                                    /\ Visibility(page, n) \notin {"hidden", "collapse"})
TextIsFoundDeepest ==
  query.byText =>
    LET deepest == {n \in Elems : HoldsWord(query, n)
                      /\ \A k \in Elems : n \in Above(page, k) => ~HoldsWord(query, k)}
        order == SetToSortSeq(deepest, <)
        expected == SubSeq(order, 1, IF query.cap < Len(order) THEN query.cap ELSE Len(order))
    IN /\ [i \in DOMAIN foundText |-> foundText[i].el] = expected
       /\ (\E i \in DOMAIN foundText : \E m \in Light(page, foundText[i].el) :
              Rendered(page, m) /\ page[m].word = query.word)
            => query.word \in pageText(page, 1)

(* Together: an element of the page is read alike by every way of reading.  *)
TreeIsReadRight == ViewsAgree /\ TextIsFoundDeepest
=============================================================================
