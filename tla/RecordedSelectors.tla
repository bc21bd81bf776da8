-------------------------- MODULE RecordedSelectors --------------------------
(***************************************************************************)
(* From a click in the page to a line of a Rust test: the selector the     *)
(* page records for an element (bestSelector, cssString, cssIdent in       *)
(* js_bridge.rs), the event the server makes of it                         *)
(* (parse_bridge_event_from), and the code generated from it (codegen.rs). *)
(* Two encoders and two decoders, in two languages, that must be inverses. *)
(*                                                                         *)
(* A text is a sequence of characters, one for every class the four treat  *)
(* differently.  Fixed pieces of a selector (a tag, "[role=") are single   *)
(* symbols.                                                                *)
(***************************************************************************)
EXTENDS Naturals, Sequences, SequencesExt

CONSTANTS Letters,    \* the characters texts are made of
          MaxChars,   \* longest text
          MaxPair     \* longest text where an element carries two

(* Characters: hex digits, other letters and digits, CSS and Rust punctuation, *)
(* control characters, one that is not ASCII.                                  *)
HexValue == [x \in {"0", "1", "a", "f"} |->
               CASE x = "0" -> 0 [] x = "1" -> 1 [] x = "a" -> 10 [] x = "f" -> 15]
Controls == [newline |-> <<"a">>, nul |-> <<"0">>, us |-> <<"1", "f">>]
AllChars == DOMAIN HexValue \cup DOMAIN Controls
            \cup {"g", "9", "-", "quote", "backslash", "space", "bracket", "paren", "e-acute", "rtl"}
ASSUME LettersAssumption == Letters \subseteq AllChars

Digits == {"0", "1", "9"}
Whitespace == {"space", "newline"}
Replacement == "U+FFFD"
Texts(n) == UNION {[1 .. k -> Letters] : k \in 0 .. n}

VARIABLES session, style, test
selectorVars == <<session, style, test>>

-----------------------------------------------------------------------------
(* The page's encoders.                                                       *)

hexEscape(c) == <<"backslash">> \o Controls[c] \o <<"space">>

cssString(s) ==
  FlattenSeq([i \in DOMAIN s |->
    CASE s[i] \in DOMAIN Controls -> hexEscape(s[i])
      [] s[i] \in {"backslash", "quote"} -> <<"backslash", s[i]>>
      [] OTHER -> <<s[i]>>])

cssIdent(s) ==
  FlattenSeq([i \in DOMAIN s |->
    CASE s[i] = "nul" -> <<Replacement>>
      [] s[i] \in DOMAIN Controls \ {"nul"} -> hexEscape(s[i])
      [] s[i] \in Digits /\ (i = 1 \/ (i = 2 /\ s[1] = "-")) -> <<"backslash", "3", s[i], "space">>
      [] s[i] = "-" /\ Len(s) = 1 -> <<"backslash", "-">>
      [] s[i] \in {"quote", "backslash", "space", "bracket", "paren"} -> <<"backslash", s[i]>>
      [] OTHER -> <<s[i]>>])

RECURSIVE Trimmed(_)
Trimmed(t) == IF t # <<>> /\ Head(t) \in Whitespace THEN Trimmed(Tail(t))
              ELSE IF t # <<>> /\ t[Len(t)] \in Whitespace THEN Trimmed(Front(t))
              ELSE t

Quoted(s) == <<"quote">> \o cssString(s) \o <<"quote">>

(* bestSelector: the first of test id, id, role, text of a named tag, name, class. *)
NamedTags == {"button"}
bestSelector(el) ==
  LET text == Trimmed(el.text) IN
  CASE el.testid # <<>> -> <<"[data-testid=">> \o Quoted(el.testid) \o <<"bracket">>
    [] el.testid = <<>> /\ el.id # <<>> -> <<"#">> \o cssIdent(el.id)
    [] el.testid = <<>> /\ el.id = <<>> /\ el.role # <<>> ->
         <<"[role=">> \o Quoted(el.role) \o <<"bracket">>
         \o (IF text = <<>> THEN <<>> ELSE <<":has-text(">> \o Quoted(text) \o <<"paren">>)
    [] OTHER -> <<el.tag>>
         \o (IF text # <<>> /\ el.tag \in NamedTags THEN <<":has-text(">> \o Quoted(text) \o <<"paren">>
             ELSE IF el.name # <<>> THEN <<"[name=">> \o Quoted(el.name) \o <<"bracket">>
             ELSE <<>>)

-----------------------------------------------------------------------------
(* The generator's decoders.                                                  *)

Drop(s, n) == SubSeq(s, n + 1, Len(s))

(* Which of the characters a code point is; any other is itself. *)
FromCode(n) == CASE n = 10 -> "newline" [] n = 31 -> "us" [] n = 0 -> Replacement
                 [] n = 48 -> "0" [] n = 49 -> "1" [] n = 57 -> "9" [] OTHER -> "other"
Hex(c) == IF c \in DOMAIN HexValue THEN HexValue[c] ELSE IF c = "3" THEN 3 ELSE 9
IsHex(c) == c \in DOMAIN HexValue \cup {"3", "9"}

(* css_escape: up to six hex digits and one whitespace, or the character itself. *)
HexRun(s) == LET runs == {k \in 0 .. Len(s) : k <= 6 /\ \A i \in 1 .. k : IsHex(s[i])}
             IN CHOOSE k \in runs : \A j \in runs : j <= k
css_escape(s) ==
  LET k == HexRun(s)
      code == FoldLeft(LAMBDA n, c : 16 * n + Hex(c), 0, SubSeq(s, 1, k))
      rest == Drop(s, k)
  IN IF s = <<>> THEN [ok |-> FALSE]
     ELSE IF Head(s) = "newline" THEN [ok |-> TRUE, out |-> <<>>, rest |-> Tail(s)]
     ELSE IF k = 0 THEN [ok |-> TRUE, out |-> <<Head(s)>>, rest |-> Tail(s)]
     ELSE [ok |-> TRUE, out |-> <<FromCode(code)>>,
           rest |-> IF rest # <<>> /\ Head(rest) \in Whitespace THEN Tail(rest) ELSE rest]

RECURSIVE StringFrom(_, _)
StringFrom(s, out) ==
  IF s = <<>> THEN [ok |-> FALSE]
  ELSE IF Head(s) = "quote" THEN [ok |-> TRUE, out |-> out, rest |-> Tail(s)]
  ELSE IF Head(s) # "backslash" THEN StringFrom(Tail(s), Append(out, Head(s)))
  ELSE LET e == css_escape(Tail(s)) IN
       IF e.ok THEN StringFrom(e.rest, out \o e.out) ELSE [ok |-> FALSE]
css_string(s) == IF s # <<>> /\ Head(s) = "quote" THEN StringFrom(Tail(s), <<>>) ELSE [ok |-> FALSE]

RECURSIVE IdentFrom(_, _)
IdentFrom(s, out) ==
  IF s = <<>> THEN [ok |-> out # <<>>, out |-> out]
  ELSE IF Head(s) = "backslash"
       THEN LET e == css_escape(Tail(s)) IN
            IF e.ok /\ e.out # <<>> THEN IdentFrom(e.rest, out \o e.out) ELSE [ok |-> FALSE]
  ELSE IF Head(s) \in {"quote", "space", "bracket", "paren"} \cup DOMAIN Controls
       THEN [ok |-> FALSE]
  ELSE IdentFrom(Tail(s), Append(out, Head(s)))
css_ident(s) == IdentFrom(s, <<>>)

(* has_text_suffix: `:has-text("...")` spanning the rest. *)
has_text_suffix(s) ==
  IF s = <<>> \/ Head(s) # ":has-text(" THEN [ok |-> FALSE]
  ELSE LET t == css_string(Tail(s)) IN
       IF t.ok /\ t.rest = <<"paren">> THEN [ok |-> TRUE, out |-> t.out] ELSE [ok |-> FALSE]

Css == [kind |-> "css", arg |-> <<>>, scope |-> <<>>]
(* By what the selector starts with: a string and its rest, an identifier, a     *)
(* text condition after the role or the tag.                                     *)
Parsed(sel, str, id, after) ==
  CASE Head(sel) = "[data-testid=" ->
         IF str.ok /\ str.rest = <<"bracket">>
           THEN [kind |-> "test_id", arg |-> str.out, scope |-> <<>>] ELSE Css
    [] Head(sel) = "#" ->
         IF id.ok THEN [kind |-> "id", arg |-> id.out, scope |-> <<>>] ELSE Css
    [] Head(sel) = "[role=" ->
         IF ~str.ok \/ str.rest = <<>> \/ Head(str.rest) # "bracket" THEN Css
         ELSE IF Tail(str.rest) = <<>> THEN [kind |-> "role", arg |-> str.out, scope |-> <<>>]
         ELSE IF after.ok THEN [kind |-> "text", arg |-> after.out, scope |-> <<"role">> \o str.out]
         ELSE Css
    [] OTHER -> IF after.ok THEN [kind |-> "text", arg |-> after.out, scope |-> <<"tag", Head(sel)>>]
                ELSE Css
ParsedAfter(sel, str) ==
  Parsed(sel, str, css_ident(Tail(sel)),
         has_text_suffix(IF Head(sel) = "[role=" THEN Tail(str.rest) ELSE Tail(sel)))
parse_recorded_selector(sel) == ParsedAfter(sel, css_string(Tail(sel)))

-----------------------------------------------------------------------------
(* The emitted Rust.                                                          *)

(* escape_rust_str, by char::escape_debug. *)
escape_rust_str(s) ==
  FlattenSeq([i \in DOMAIN s |->
    CASE s[i] = "newline" -> <<"backslash", "n">>
      [] s[i] = "nul" -> <<"backslash", "0">>
      [] s[i] \in {"us", "rtl"} -> <<"backslash", "u{", s[i], "}">>
      [] s[i] \in {"quote", "backslash"} -> <<"backslash", s[i]>>
      [] OTHER -> <<s[i]>>])

(* sanitize_comment: a line break becomes a space, quotes stay. *)
sanitize_comment(s) ==
  FlattenSeq([i \in DOMAIN s |->
    CASE s[i] = "newline" -> <<"space">>
      [] s[i] \in {"quote", "backslash"} -> <<s[i]>>
      [] OTHER -> escape_rust_str(<<s[i]>>)])

(* resolve_selector and emit_interaction, selector_to_locator and               *)
(* emit_locator_interaction: the call, what it looks for, and its arguments.    *)
DirectCall(ev, p) ==
  [line |-> "call", action |-> ev.action,
   by |-> IF p.kind \in {"id", "text"} THEN p.kind ELSE "selector",
   scope |-> <<>>,
   arg |-> escape_rust_str(IF p.kind \in {"id", "text"} THEN p.arg ELSE ev.selector),
   value |-> escape_rust_str(ev.value)]
emit_interaction(ev) == DirectCall(ev, parse_recorded_selector(ev.selector))
(* A mistaken form: the text alone, whatever it was recorded on. *)
BareText(ev, p) ==
  [line |-> "call", action |-> ev.action,
   by |-> IF p.kind \in {"test_id", "role", "text"} THEN p.kind ELSE "selector",
   scope |-> <<>>,
   arg |-> escape_rust_str(IF p.kind \in {"test_id", "role", "text"} THEN p.arg ELSE ev.selector),
   value |-> escape_rust_str(ev.value)]
LocatorCall(ev, p) ==
  [line |-> "call", action |-> ev.action,
   by |-> IF p.kind \in {"test_id", "role", "text"} THEN p.kind ELSE "selector",
   scope |-> escape_rust_str(p.scope),
   arg |-> escape_rust_str(IF p.kind \in {"test_id", "role", "text"} THEN p.arg ELSE ev.selector),
   value |-> escape_rust_str(ev.value)]
emit_locator_interaction(ev) == LocatorCall(ev, parse_recorded_selector(ev.selector))

(* pushInteraction: what the page records of an event the user made. *)
pushInteraction(action, el, value) ==
  [type |-> "dom_interaction", action |-> action, selector |-> bestSelector(el), value |-> value, of |-> el]

(* parse_bridge_event_from: what the recorder keeps of a page's event.  An        *)
(* action it does not know is a click, an unknown type nothing at all.            *)
InteractionKinds == {"click", "double_click", "fill", "key_press", "select", "navigate", "scroll"}
parse_bridge_event_from(ev) ==
  CASE ev.type = "dom_interaction" ->
         <<[kind |-> "interaction", selector |-> ev.selector, value |-> ev.value,
            action |-> IF ev.action \in InteractionKinds THEN ev.action ELSE "click"]>>
    [] ev.type = "ipc" ->
         <<[kind |-> "ipc", ok |-> ev.status = "ok", internal |-> ev.internal, text |-> ev.command]>>
    [] ev.type = "network" -> <<[kind |-> "state", caused |-> ev.located, text |-> ev.method]>>
    [] ev.type \in {"console", "dom_mutation", "navigation"} -> <<[kind |-> ev.type]>>
    [] OTHER -> <<>>

(* generate_test: one line per event that has one, the IPC assertions at the end. *)
LinesOf(ev, st) ==
  CASE ev.kind = "interaction" /\ st = "direct" -> <<emit_interaction(ev)>>
    [] ev.kind = "interaction" /\ st = "locator" -> <<emit_locator_interaction(ev)>>
    [] ev.kind = "ipc" /\ ev.ok /\ ~ev.internal ->
         <<[line |-> "comment", text |-> sanitize_comment(ev.text)]>>
    [] ev.kind = "state" /\ ev.caused -> <<[line |-> "comment", text |-> sanitize_comment(ev.text)]>>
    [] OTHER -> <<>>
Asserted(events) ==
  LET seen == SelectSeq(events, LAMBDA ev : ev.kind = "ipc" /\ ev.ok /\ ~ev.internal)
  IN [i \in DOMAIN seen |-> [line |-> "assert", arg |-> escape_rust_str(seen[i].text)]]
generate_test(events, st) ==
  FlattenSeq([i \in DOMAIN events |-> LinesOf(events[i], st)]) \o Asserted(events)

-----------------------------------------------------------------------------
Plain == [testid |-> <<>>, id |-> <<>>, role |-> <<>>, text |-> <<>>, name |-> <<>>, tag |-> "input"]

(* One recorded element, or what else a page records around a plain click.        *)
Recordable == {[Plain EXCEPT !.testid = t] : t \in Texts(MaxChars) \ {<<>>}}
              \cup {[Plain EXCEPT !.id = t] : t \in Texts(MaxChars) \ {<<>>}}
              \cup {[Plain EXCEPT !.name = t] : t \in Texts(MaxChars) \ {<<>>}}
              \cup {[Plain EXCEPT !.tag = "button", !.text = t] : t \in Texts(MaxChars)}
              \cup {[Plain EXCEPT !.role = r, !.text = t] :
                      r \in Texts(MaxPair) \ {<<>>}, t \in Texts(MaxPair)}
IpcOutcomes == {<<"ok", TRUE>>, <<"ok", FALSE>>, <<"error", FALSE>>, <<"pending", FALSE>>}
Backend == {[type |-> "ipc", status |-> o[1], internal |-> o[2], command |-> t] :
              o \in IpcOutcomes, t \in Texts(1)}
           \cup {[type |-> "network", located |-> l, method |-> t] : l \in BOOLEAN, t \in Texts(1)}
           \cup {[type |-> t] : t \in {"console", "unheard of"}}
Sessions == {<<pushInteraction("click", el, <<>>)>> : el \in Recordable}
            \cup {<<pushInteraction("fill", [Plain EXCEPT !.id = <<"g">>], v)>> : v \in Texts(MaxChars)}
            \cup {<<x, pushInteraction("click", [Plain EXCEPT !.id = <<"g">>], <<>>), y>> :
                    x \in Backend, y \in Backend}

SelectorInit == session \in Sessions /\ style = "none" /\ test = <<>>
Generate == /\ style = "none"
            /\ style' \in {"direct", "locator"}
            /\ test' = generate_test(FlattenSeq([i \in DOMAIN session |->
                                                parse_bridge_event_from(session[i])]), style')
            /\ UNCHANGED session
SelectorNext == Generate

-----------------------------------------------------------------------------
(* The Rust compiler (external) reads a string literal.                        *)
RECURSIVE Unescaped(_)
Unescaped(s) ==
  IF s = <<>> THEN <<>>
  ELSE IF Head(s) # "backslash" THEN <<Head(s)>> \o Unescaped(Tail(s))
  ELSE CASE s[2] = "n" -> <<"newline">> \o Unescaped(Drop(s, 2))
         [] s[2] = "0" -> <<"nul">> \o Unescaped(Drop(s, 2))
         [] s[2] = "u{" -> <<s[3]>> \o Unescaped(Drop(s, 4))
         [] OTHER -> <<s[2]>> \o Unescaped(Drop(s, 2))

-----------------------------------------------------------------------------
(* The replay: the page around the element that was used, in document order,   *)
(* up the element a node is inside of.  A span inside may hold the words, and  *)
(* an element may come before that differs in one thing.                       *)

Node(el, own, up) == [el |-> el, own |-> own, up |-> up]
OneChanged(el) == {[el EXCEPT ![field] = <<>>] : field \in {"testid", "id", "role", "text", "name"}}
                  \cup {[el EXCEPT !.tag = "span"]}
PagesAround(el) ==
  {<<Node(el, el.text, 0)>>, <<Node(el, <<>>, 0), Node([Plain EXCEPT !.tag = "span", !.text = el.text], el.text, 1)>>}
  \cup {<<Node(e, e.text, 0), Node(el, <<>>, 0),
          Node([Plain EXCEPT !.tag = "span", !.text = el.text], el.text, 2)>> : e \in OneChanged(el)}

SingleSpaced(t) ==
  FlattenSeq([i \in DOMAIN t |-> IF t[i] \notin Whitespace THEN <<t[i]>>
                                 ELSE IF t[i - 1] \in Whitespace THEN <<>> ELSE <<"space">>])
normText(s) == SingleSpaced(Trimmed(s))
HoldsText(text, part) == \E i \in 0 .. Len(text) : Len(part) <= Len(text) - i
                                                  /\ SubSeq(text, i + 1, i + Len(part)) = part

(* matches of findElements: each key of the query. *)
HasText(e, text) == HoldsText(normText(e.text), normText(text))
HasRole(e, role) == (IF e.role # <<>> THEN e.role ELSE <<"inferred", e.tag>>) = role
(* The browser (external) matches a selector by the rules it is written with. *)
Satisfies(e, sel, p) ==
  CASE p.kind = "test_id" -> e.testid = p.arg
    [] p.kind = "id" -> e.id = p.arg
    [] p.kind = "role" -> e.role = p.arg
    [] p.kind = "css" /\ Len(sel) > 1 -> /\ e.tag = Head(sel) /\ sel[2] = "[name="
                                         /\ e.name = css_string(Drop(sel, 2)).out
    [] p.kind = "css" /\ Len(sel) = 1 -> e.tag = Head(sel)
    [] OTHER -> FALSE
cssMatches(e, sel) == Satisfies(e, sel, parse_recorded_selector(sel))

(* accessibleName of the elements here: a button is named by its text. *)
accessibleName(e) == IF e.tag \in NamedTags THEN normText(e.text) ELSE <<>>

(* The nodes a call takes for its element: a Locator's query, of a text only    *)
(* the deepest (build_query, findElements); find_ref_by_text, by the words of a *)
(* node itself or its name; find_ref_by_id; find_ref_by_selector.               *)
Deepest(page, nodes) == {n \in nodes : \A m \in nodes : page[m].up # n}
InScope(e, scope) == IF Head(scope) = "tag" THEN e.tag = scope[2] ELSE HasRole(e, Tail(scope))
HitsOf(page, by, arg, scope) ==
  IF by = "text" /\ scope # <<>>
    THEN Deepest(page, {n \in DOMAIN page : HasText(page[n].el, arg) /\ InScope(page[n].el, scope)})
  ELSE {n \in DOMAIN page :
          CASE by = "text" -> \/ HoldsText(Trimmed(page[n].own), arg)
                              \/ HoldsText(accessibleName(page[n].el), arg)
            [] by = "test_id" -> page[n].el.testid = arg
            [] by = "id" -> page[n].el.id = arg
            [] by = "role" -> HasRole(page[n].el, arg)
            [] OTHER -> cssMatches(page[n].el, arg)}
Hits(page, call) == HitsOf(page, call.by, Unescaped(call.arg), Unescaped(call.scope))
First(page, nodes) == {page[n].el : n \in {n \in nodes : \A m \in nodes : n <= m}}
Finds(page, call) == First(page, Hits(page, call))

(* What tells an element from others, as the user saw it: a test id, an id, its *)
(* words and what it is, what it is alone, its name.                            *)
AlikeWith(el, other, text) ==
  CASE el.testid # <<>> -> other.testid = el.testid
    [] el.testid = <<>> /\ el.id # <<>> -> other.id = el.id
    [] el.testid = <<>> /\ el.id = <<>> /\ el.role # <<>> -> other.role = el.role /\ HasText(other, text)
    [] OTHER -> /\ other.tag = el.tag
                /\ IF text # <<>> /\ el.tag \in NamedTags THEN HasText(other, text)
                   ELSE other.name = el.name \/ el.name = <<>>
Alike(el, other) == AlikeWith(el, other, normText(el.text))
SameWords(el, other) == HasText(other, el.text)

(* CSS cannot write NUL: what held one is looked for with U+FFFD in its place,   *)
(* and not found.  The parser of the browser lets none into a document.          *)
Writable(el) == \A f \in {"testid", "id", "role", "text", "name"} : "nul" \notin Range(el[f])

(* A generated test acts on the element that was used: in a page where others    *)
(* come before it or hold its words, it finds an element that is alike in what   *)
(* was recorded, so the very one wherever that tells it from the others.  In the *)
(* direct style an element recorded by its words is found by the words alone     *)
(* (the role or tag is not written), so only the words are the same.  Quotes,    *)
(* backslashes, line breaks and hex digits after an escape come back through the *)
(* page's escaping, the generator's parse, the Rust literal and the browser.     *)
(* Typed values come back verbatim, and nothing recorded leaves its literal or   *)
(* its comment line.                                                             *)
IsMeant(call, el, found) ==
  /\ Writable(el) => found # {}
  /\ \A e \in found : IF style = "direct" /\ call.by = "text" THEN SameWords(el, e) ELSE Alike(el, e)
ActsOnIt(call, el) == \A page \in PagesAround(el) : IsMeant(call, el, Finds(page, call))
RecordedIsReplayed ==
  style # "none" =>
    LET calls == SelectSeq(test, LAMBDA l : l.line = "call")
        used == SelectSeq(session, LAMBDA e : e.type = "dom_interaction")
    IN /\ Len(calls) = Len(used)
       /\ \A i \in DOMAIN calls :
            /\ ActsOnIt(calls[i], used[i].of)
            /\ Unescaped(calls[i].value) = used[i].value
            /\ {"newline", "nul", "us", "rtl"} \cap
                 {calls[i].arg[k] : k \in {j \in DOMAIN calls[i].arg : j = 1 \/ calls[i].arg[j - 1] # "u{"}} = {}
       /\ \A i \in DOMAIN test : test[i].line = "comment" =>
            {"newline", "nul"} \cap Range(test[i].text) = {}
       /\ {Unescaped(test[i].arg) : i \in {j \in DOMAIN test : test[j].line = "assert"}}
            = {session[i].command : i \in {j \in DOMAIN session :
                 session[j].type = "ipc" /\ session[j].status = "ok" /\ ~session[j].internal}}
=============================================================================
