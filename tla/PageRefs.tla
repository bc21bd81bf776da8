------------------------------ MODULE PageRefs ------------------------------
(***************************************************************************)
(* Element refs and the actions taken through them (js_bridge.rs): the     *)
(* strong and weak maps a snapshot fills, the refs it calls stale, and     *)
(* withAutoWait, which resolves a ref and checks the element again every   *)
(* 50 ms until it can be acted on.  The page detaches, re-attaches, hides, *)
(* covers and disables elements and reloads between any two tasks.         *)
(***************************************************************************)
EXTENDS Integers, Sequences, FiniteSets, SequencesExt

CONSTANTS Nodes,        \* elements of one page load
          RefMapLimit,  \* REF_MAP_LIMIT: strong references kept
          MaxLoads,     \* bound: page loads
          MaxAttempts   \* bound: checks before the deadline of a wait

ASSUME PageRefsAssumption ==
  /\ IsFiniteSet(Nodes) /\ RefMapLimit \in Nat \ {0}
  /\ MaxLoads \in Nat \ {0} /\ MaxAttempts \in Nat \ {0}

VARIABLES load,       \* PAGE_TAG: the page load
          dom,        \* per element: attached, in memory, and what is wrong with it
          nodeIds,    \* nodeIds: counter given to an element, 0 for none
          refCounter,
          refMap,     \* counters in the strong map, oldest first
          weakRefMap, \* counters in the weak map
          told,       \* refs of this load given up: called stale, or by an action on them
          held,       \* refs an agent was given: load, counter and element
          act         \* the action under way

refVars == <<load, dom, nodeIds, refCounter, refMap, weakRefMap, told, held, act>>

(* What hitPoint finds: hidden, disabled or covered elements may become     *)
(* ready later, one that cannot be scrolled into view will not.             *)
Flaws == {"none", "hidden", "covered", "offscreen"}
NoAct == [state |-> "none", load |-> 0, id |-> 0, left |-> 0]

RefsInit ==
  /\ load = 1
  /\ dom = [n \in Nodes |-> [attached |-> TRUE, alive |-> TRUE, flaw |-> "none"]]
  /\ nodeIds = [n \in Nodes |-> 0] /\ refCounter = 1
  /\ refMap = <<>> /\ weakRefMap = {} /\ told = {} /\ held = {}
  /\ act = NoAct

-----------------------------------------------------------------------------
(* The maps.                                                                *)
NodeOf(id) == CHOOSE n \in Nodes : nodeIds[n] = id
Connected(id) == dom[NodeOf(id)].alive /\ dom[NodeOf(id)].attached
Strong(id) == \E k \in DOMAIN refMap : refMap[k] = id

(* resolveRef also forgets what it finds detached.                          *)
Resolves(id) == (Strong(id) \/ id \in weakRefMap) /\ Connected(id)

resolveRef(id) ==
  /\ refMap' = IF Strong(id) /\ ~Connected(id) THEN Remove(refMap, id) ELSE refMap
  /\ weakRefMap' = IF ~Strong(id) /\ id \in weakRefMap /\ ~Connected(id)
                     THEN weakRefMap \ {id} ELSE weakRefMap

(* registerRef for each element in document order; the oldest strong        *)
(* references make room, the weak ones stay.                                *)
registerRef(strong, id) ==
  LET kept == Remove(strong, id)
  IN Append(IF Len(kept) >= RefMapLimit THEN Tail(kept) ELSE kept, id)

(* The page's elements in some order, with the ids a walk over them gives.  *)
Walked == {n \in Nodes : dom[n].alive /\ dom[n].attached /\ dom[n].flaw # "hidden"}
Fresh(order) == SelectSeq(order, LAMBDA n : nodeIds[n] = 0)
Numbered(order) ==
  [n \in Nodes |-> IF nodeIds[n] = 0 /\ n \in Walked
                     THEN refCounter + (CHOOSE k \in DOMAIN Fresh(order) : Fresh(order)[k] = n) - 1
                     ELSE nodeIds[n]]
Given(order) == {Numbered(order)[n] : n \in Walked}

Gone(id, ids) == \E n \in Nodes : ids[n] = id /\ ~(dom[n].alive /\ dom[n].attached)

Stale(order) ==
  {id \in Range(refMap) \ Given(order) : id \in weakRefMap => Gone(id, nodeIds)}
    \cup {id \in weakRefMap \ Given(order) : Gone(id, nodeIds)}

snapshot(order) ==
  /\ ToSet(order) = Walked /\ Len(order) = Cardinality(Walked)
  /\ nodeIds' = Numbered(order)
  /\ refCounter' = refCounter + Len(Fresh(order))
  /\ refMap' = FoldLeft(registerRef, <<>>, [k \in DOMAIN order |-> Numbered(order)[order[k]]])
  /\ weakRefMap' = (weakRefMap \cup Given(order)) \ Stale(order)
  /\ told' = (told \cup Stale(order)) \ Given(order)
  /\ held' = held \cup {[load |-> load, id |-> Numbered(order)[n], node |-> n] : n \in Walked}
  /\ UNCHANGED <<load, dom, act>>

-----------------------------------------------------------------------------
(* The page.                                                                *)
Detach(n) ==
  /\ dom[n].attached /\ dom[n].alive
  /\ dom' = [dom EXCEPT ![n].attached = FALSE]
  /\ UNCHANGED <<load, nodeIds, refCounter, refMap, weakRefMap, told, held, act>>

Attach(n) ==
  /\ ~dom[n].attached /\ dom[n].alive
  /\ dom' = [dom EXCEPT ![n].attached = TRUE]
  /\ UNCHANGED <<load, nodeIds, refCounter, refMap, weakRefMap, told, held, act>>

(* Nothing but a weak reference is left: the element is collected.          *)
Collect(n) ==
  /\ ~dom[n].attached /\ dom[n].alive /\ ~Strong(nodeIds[n])
  /\ dom' = [dom EXCEPT ![n].alive = FALSE]
  /\ UNCHANGED <<load, nodeIds, refCounter, refMap, weakRefMap, told, held, act>>

Change(n, flaw) ==
  /\ dom[n].alive /\ flaw # dom[n].flaw
  /\ dom' = [dom EXCEPT ![n].flaw = flaw]
  /\ UNCHANGED <<load, nodeIds, refCounter, refMap, weakRefMap, told, held, act>>

(* A new document: nothing of the bridge's state survives, nor a wait.      *)
Reload ==
  /\ load < MaxLoads
  /\ load' = load + 1
  /\ dom' = [n \in Nodes |-> [attached |-> TRUE, alive |-> TRUE, flaw |-> "none"]]
  /\ nodeIds' = [n \in Nodes |-> 0] /\ refCounter' = 1
  /\ refMap' = <<>> /\ weakRefMap' = {} /\ told' = {}
  /\ act' = NoAct
  /\ UNCHANGED held

-----------------------------------------------------------------------------
(* An action through a ref.                                                 *)
(* A mistaken isForeignRef: bare counters, the same in every load.          *)
BareCounters(r) == FALSE

isForeignRef(r) == r.load # load

hitPoint(n) ==
  CASE dom[n].flaw = "none" -> "ready"
    [] dom[n].flaw = "offscreen" -> "CHECK_INPUT"
    [] OTHER -> "RETRY_LATER"

Begin(r) ==
  /\ act.state = "none"
  /\ act' = [state |-> "waiting", load |-> r.load, id |-> r.id, left |-> MaxAttempts]
  /\ UNCHANGED <<load, dom, nodeIds, refCounter, refMap, weakRefMap, told, held>>

Known(id) == \E n \in Nodes : nodeIds[n] = id

(* One attempt: the action itself runs in the same task as the check.       *)
Attempt ==
  LET found == ~isForeignRef(act) /\ Known(act.id) /\ Resolves(act.id)
      verdict == IF found THEN hitPoint(NodeOf(act.id)) ELSE "none"
  IN /\ act.state = "waiting"
     /\ IF Known(act.id) /\ ~isForeignRef(act) THEN resolveRef(act.id)
        ELSE UNCHANGED <<refMap, weakRefMap>>
     /\ act' = IF found /\ verdict = "ready" THEN [act EXCEPT !.state = "acted"]
               ELSE IF act.left = 0 \/ isForeignRef(act) \/ verdict = "CHECK_INPUT"
                 THEN [act EXCEPT !.state = "refused"]
               ELSE [act EXCEPT !.left = @ - 1]
     /\ told' = IF ~isForeignRef(act) /\ act.id \notin ToSet(refMap') \cup weakRefMap'
                  THEN told \cup {act.id} ELSE told
     /\ UNCHANGED <<load, dom, nodeIds, refCounter, held>>

Finish ==
  /\ act.state \in {"acted", "refused"}
  /\ act' = NoAct
  /\ UNCHANGED <<load, dom, nodeIds, refCounter, refMap, weakRefMap, told, held>>

RefsNext ==
  \/ \E order \in SetToSeqs(Walked) : snapshot(order)
  \/ \E n \in Nodes : Detach(n) \/ Attach(n) \/ Collect(n) \/ \E flaw \in Flaws : Change(n, flaw)
  \/ Reload
  \/ \E r \in held : Begin(r)
  \/ Attempt \/ Finish

-----------------------------------------------------------------------------
(* An action acts on the element the agent was shown under that ref, in the *)
(* page load it was shown in, attached and ready at that very moment; or it *)
(* does not act at all.                                                     *)
ActsOnWhatWasNamed ==
  act.state = "waiting" /\ act'.state = "acted" =>
    /\ act.load = load
    /\ \E r \in held : /\ r.load = act.load /\ r.id = act.id
                       /\ dom[r.node] = [attached |-> TRUE, alive |-> TRUE, flaw |-> "none"]

(* When a snapshot returns, every ref of this load it did not call stale,   *)
(* now or before, and no action has given up still leads to its element,    *)
(* and no ref it did call stale leads anywhere.                             *)
SnapshotTellsAll ==
  refCounter' # refCounter \/ held' # held \/ told' # told =>
    \A r \in held : r.load = load /\ load' = load /\ act' = act =>
      (Resolves(r.id)' <=> r.id \notin told')
=============================================================================
