--------------------------- MODULE ServingProofs ----------------------------
(***************************************************************************)
(* What is proved of serving a call: the token bucket, the gate in front   *)
(* of every tool, the recovery of a stopped page by the tool that          *)
(* navigates, and the two tools that read a database.                      *)
(***************************************************************************)
EXTENDS RateLimiter, ToolGate, StoppedPages, DatabaseCalls, FiniteSetTheorems, SequenceTheorems,
        WellFoundedInduction, TLAPS

(***************************************************************************)
(* TimeIsPaidOnce for any number of callers, any rate and any clock.  The  *)
(* property is nearly inductive: besides the types it needs that a caller  *)
(* with tokens still to add is inside the credit loop, and so cannot win a *)
(* second interval over them; that a caller about to claim has earned at   *)
(* least one token, which is what bounds the remainder the refill drops;   *)
(* and that a caller about to spend has seen a token.                      *)
(***************************************************************************)

Places == {"out", "mark", "claim", "load", "credit", "take", "spend"}

(* The bucket never holds more than its capacity, nor less than nothing. *)
RateTypeOK ==
  /\ tokens \in 0 .. PerSecond
  /\ lastRefill \in Nat /\ rateClock \in Nat /\ granted \in Nat /\ claimed \in Nat
  /\ at \in [Requests -> Places]
  /\ seen \in [Requests -> [now : Nat, last : Nat, current : Nat]]
  /\ due \in [Requests -> Nat]

(* Where a caller is tells what it has read and what it may still add. *)
CallersInv ==
  \A r \in Requests :
    /\ at[r] \notin {"load", "credit"} => due[r] = 0
    /\ at[r] = "claim" => Earned(seen[r].now, seen[r].last) # 0
    /\ at[r] = "spend" => seen[r].current # 0

RateInv == RateTypeOK /\ CallersInv /\ IsFiniteSet(Owed) /\ TimeIsPaidOnce
-----------------------------------------------------------------------------
(* Arithmetic. *)
LEMMA WholePart ==
  ASSUME NEW x \in Nat, NEW s \in Nat \ {0}
  PROVE  /\ x \div s \in Nat
         /\ s * (x \div s) =< x
         /\ x < s * (x \div s) + s
BY Z3

LEMMA Distributes ==
  ASSUME NEW a \in Int, NEW b \in Int, NEW c \in Int
  PROVE  a * (b + c) = a * b + a * c
BY Z3

LEMMA AtLeastOnce ==
  ASSUME NEW a \in Nat, NEW b \in Nat \ {0}
  PROVE  a =< a * b
BY Z3

(* An interval that earns anything is paid for its worth at most, and at   *)
(* least half of it: the code rounds down and drops the rest.              *)
LEMMA IntervalIsPaid ==
  ASSUME NEW now \in Nat, NEW last \in Nat, Earned(now, last) # 0
  PROVE  /\ Earned(now, last) \in Nat \ {0}
         /\ PerSecond * last + Second * Earned(now, last) =< PerSecond * now
         /\ PerSecond * now =< PerSecond * last + 2 * (Second * Earned(now, last))
<1> USE RateAssumption
<1>1. now > last
  <2>1. SUFFICES ASSUME ~(now > last) PROVE FALSE
    OBVIOUS
  <2>2. Earned(now, last) = (0 * PerSecond) \div Second
    BY <2>1 DEF Earned
  <2>3. 0 * PerSecond = 0
    OBVIOUS
  <2>4. 0 \div Second = 0
    BY Z3
  <2> QED
    BY <2>2, <2>3, <2>4
<1> DEFINE x == (now - last) * PerSecond
<1> DEFINE e == x \div Second
<1>2. Earned(now, last) = e
  BY <1>1 DEF Earned
<1>3. x \in Nat
  BY <1>1, Z3
<1>4. e \in Nat /\ Second * e =< x /\ x < Second * e + Second
  BY <1>3, WholePart
<1>5. e # 0
  BY <1>2
<1>6. Second =< Second * e
  BY <1>4, <1>5, AtLeastOnce
<1>7. PerSecond * now = PerSecond * last + x
  BY Z3
<1>8. Second * e \in Nat /\ PerSecond * last \in Nat /\ PerSecond * now \in Nat
  BY <1>4, Z3
<1> HIDE DEF x, e
<1> QED
  BY <1>2, <1>3, <1>4, <1>5, <1>6, <1>7, <1>8
-----------------------------------------------------------------------------
(* What is owed to one caller, and how Owed changes with its share. *)
LEMMA OwedToSize ==
  ASSUME NEW r, NEW n \in Nat
  PROVE  IsFiniteSet({r} \X (1 .. n)) /\ Cardinality({r} \X (1 .. n)) = n
<1>1. IsFiniteSet({r}) /\ Cardinality({r}) = 1
  BY FS_Singleton
<1>2. IsFiniteSet(1 .. n) /\ Cardinality(1 .. n) = n
  BY FS_Interval
<1>3. /\ IsFiniteSet({r} \X (1 .. n))
      /\ Cardinality({r} \X (1 .. n)) = Cardinality({r}) * Cardinality(1 .. n)
  BY <1>1, <1>2, FS_Product
<1> QED
  BY <1>1, <1>2, <1>3

(* A caller with nothing due wins n tokens. *)
LEMMA OwedGrows ==
  ASSUME RateTypeOK, IsFiniteSet(Owed), NEW r \in Requests, NEW n \in Nat,
         due[r] = 0, due' = [due EXCEPT ![r] = n]
  PROVE  IsFiniteSet(Owed') /\ Outstanding' = Outstanding + n
<1>1. Owed' = Owed \cup ({r} \X (1 .. n))
  BY DEF Owed, OwedTo, RateTypeOK
<1>2. Owed \cap ({r} \X (1 .. n)) = {}
  BY DEF Owed, OwedTo, RateTypeOK
<1>3. Cardinality({}) = 0 /\ Cardinality(Owed) \in Nat
  BY FS_EmptySet, FS_CardinalityType
<1>4. IsFiniteSet({r} \X (1 .. n)) /\ Cardinality({r} \X (1 .. n)) = n
  BY OwedToSize
<1>5. /\ IsFiniteSet(Owed \cup ({r} \X (1 .. n)))
      /\ Cardinality(Owed \cup ({r} \X (1 .. n))) =
           Cardinality(Owed) + Cardinality({r} \X (1 .. n))
             - Cardinality(Owed \cap ({r} \X (1 .. n)))
  BY <1>4, FS_Union
<1>6. Cardinality(Owed \cup ({r} \X (1 .. n))) = Cardinality(Owed) + n
  <2>1. Cardinality(Owed \cap ({r} \X (1 .. n))) = 0
    BY <1>2, <1>3
  <2> QED
    BY <1>3, <1>4, <1>5, <2>1
<1> QED
  BY <1>1, <1>5, <1>6 DEF Outstanding

(* A caller adds all that was due to it. *)
LEMMA OwedShrinks ==
  ASSUME RateTypeOK, IsFiniteSet(Owed), NEW r \in Requests,
         due' = [due EXCEPT ![r] = 0]
  PROVE  IsFiniteSet(Owed') /\ Outstanding' = Outstanding - due[r]
<1>1. Owed' = Owed \ ({r} \X (1 .. due[r]))
  BY DEF Owed, OwedTo, RateTypeOK
<1>2. Owed \cap ({r} \X (1 .. due[r])) = {r} \X (1 .. due[r])
  BY DEF Owed, OwedTo, RateTypeOK
<1>3. IsFiniteSet({r} \X (1 .. due[r])) /\ Cardinality({r} \X (1 .. due[r])) = due[r]
  BY OwedToSize DEF RateTypeOK
<1>4. /\ IsFiniteSet(Owed \ ({r} \X (1 .. due[r])))
      /\ Cardinality(Owed \ ({r} \X (1 .. due[r]))) =
           Cardinality(Owed) - Cardinality(Owed \cap ({r} \X (1 .. due[r])))
  BY FS_Difference
<1> QED
  BY <1>1, <1>2, <1>3, <1>4 DEF Outstanding

LEMMA OwedStays ==
  ASSUME UNCHANGED due, IsFiniteSet(Owed)
  PROVE  IsFiniteSet(Owed') /\ Outstanding' = Outstanding
BY DEF Owed, OwedTo, Outstanding
-----------------------------------------------------------------------------
LEMMA RateInitInv == RateInit => RateInv
<1> SUFFICES ASSUME RateInit PROVE RateInv
  OBVIOUS
<1> USE RateAssumption
<1>1. RateTypeOK
  BY DEF RateInit, RateTypeOK, Unread, Places
<1>2. CallersInv
  BY DEF RateInit, CallersInv
<1>3. Owed = {}
  BY DEF RateInit, Owed, OwedTo
<1>4. IsFiniteSet(Owed) /\ Outstanding = 0
  BY <1>3, FS_EmptySet DEF Outstanding
<1>5. TimeIsPaidOnce
  BY <1>4 DEF RateInit, TimeIsPaidOnce
<1> QED
  BY <1>1, <1>2, <1>4, <1>5 DEF RateInv

(* The steps that move no token and no mark. *)
LEMMA QuietStep ==
  ASSUME RateInv, UNCHANGED <<tokens, lastRefill, due, granted, claimed>>
  PROVE  IsFiniteSet(Owed') /\ TimeIsPaidOnce'
BY OwedStays DEF RateInv, TimeIsPaidOnce

LEMMA ClaimStep ==
  ASSUME RateInv, NEW r \in Requests, ClaimInterval(r)
  PROVE  RateInv'
<1> USE RateAssumption
<1>1. CASE lastRefill # seen[r].last
  <2>1. RateTypeOK'
    BY <1>1 DEF RateInv, RateTypeOK, ClaimInterval, Places
  <2>2. CallersInv'
    BY <1>1 DEF RateInv, RateTypeOK, CallersInv, ClaimInterval
  <2> QED
    BY <1>1, <2>1, <2>2, QuietStep DEF RateInv, ClaimInterval
<1>2. CASE lastRefill = seen[r].last
  <2> DEFINE e == Earned(seen[r].now, seen[r].last)
  <2>1. /\ lastRefill' = seen[r].now
        /\ due' = [due EXCEPT ![r] = e]
        /\ claimed' = claimed + e
        /\ at' = [at EXCEPT ![r] = "load"]
        /\ UNCHANGED <<tokens, rateClock, seen, granted>>
        /\ at[r] = "claim"
    BY <1>2 DEF ClaimInterval
  <2>2. seen[r].now \in Nat /\ seen[r].last \in Nat /\ e # 0 /\ due[r] = 0
    BY <2>1 DEF RateInv, RateTypeOK, CallersInv
  <2>3. /\ e \in Nat \ {0}
        /\ PerSecond * lastRefill + Second * e =< PerSecond * lastRefill'
        /\ PerSecond * lastRefill' =< PerSecond * lastRefill + 2 * (Second * e)
    BY <1>2, <2>1, <2>2, IntervalIsPaid
  <2> HIDE DEF e
  <2>4. RateTypeOK'
    BY <2>1, <2>2, <2>3 DEF RateInv, RateTypeOK, Places
  <2>5. CallersInv'
    BY <2>1 DEF RateInv, RateTypeOK, CallersInv
  <2>6. IsFiniteSet(Owed') /\ Outstanding' = Outstanding + e
    BY <2>1, <2>2, <2>3, OwedGrows DEF RateInv
  <2>7. /\ Outstanding \in Nat /\ claimed \in Nat /\ granted \in Nat /\ tokens \in Nat
        /\ PerSecond * lastRefill \in Nat /\ PerSecond * lastRefill' \in Nat
        /\ Second * claimed \in Nat /\ Second * e \in Nat
    <3>1. Outstanding \in Nat
      BY FS_CardinalityType DEF RateInv, Outstanding
    <3>2. claimed \in Nat /\ granted \in Nat /\ tokens \in Nat /\ lastRefill \in Nat
          /\ lastRefill' \in Nat
      BY <2>4 DEF RateInv, RateTypeOK
    <3>3. \A a, b \in Nat : a * b \in Nat
      BY Z3
    <3> QED
      BY <2>3, <3>1, <3>2, <3>3
  <2>8. Second * claimed' = Second * claimed + Second * e
    BY <2>1, <2>3, <2>7, Distributes
  <2>9. TimeIsPaidOnce'
    <3>1. granted' + tokens' + Outstanding' =< PerSecond + claimed'
      BY <2>1, <2>3, <2>6, <2>7 DEF RateInv, TimeIsPaidOnce
    <3>2. Second * claimed' =< PerSecond * lastRefill'
      BY <2>3, <2>7, <2>8 DEF RateInv, TimeIsPaidOnce
    <3>3. 2 * Second * claimed = 2 * (Second * claimed)
      BY <2>7, Z3
    <3>4. claimed' \in Nat
      BY <2>1, <2>3, <2>7
    <3>5. 2 * Second * claimed' = 2 * (Second * claimed')
      BY <3>4, Z3
    <3>6. PerSecond * lastRefill' =< 2 * Second * claimed'
      BY <2>3, <2>7, <2>8, <3>3, <3>5 DEF RateInv, TimeIsPaidOnce
    <3> QED
      BY <3>1, <3>2, <3>6 DEF TimeIsPaidOnce
  <2> QED
    BY <2>4, <2>5, <2>6, <2>9 DEF RateInv
<1> QED
  BY <1>1, <1>2

LEMMA CreditStep ==
  ASSUME RateInv, NEW r \in Requests, Credit(r)
  PROVE  RateInv'
<1> USE RateAssumption
<1>1. RateTypeOK'
  BY DEF RateInv, RateTypeOK, Credit, Places, Min2
<1>2. CallersInv'
  BY DEF RateInv, RateTypeOK, CallersInv, Credit
<1>3. CASE tokens # seen[r].current
  BY <1>1, <1>2, <1>3, QuietStep DEF RateInv, Credit
<1>4. CASE tokens = seen[r].current
  <2>1. IsFiniteSet(Owed') /\ Outstanding' = Outstanding - due[r]
    BY <1>4, OwedShrinks DEF RateInv, Credit
  <2>2. tokens' =< tokens + due[r]
    BY <1>4 DEF RateInv, RateTypeOK, Credit, Min2
  <2>3. Outstanding \in Nat
    BY FS_CardinalityType DEF RateInv, Outstanding
  <2>4. granted' + tokens' + Outstanding' =< PerSecond + claimed'
    BY <1>1, <2>1, <2>2, <2>3 DEF RateInv, RateTypeOK, TimeIsPaidOnce, Credit
  <2> QED
    BY <1>1, <1>2, <2>1, <2>4 DEF RateInv, TimeIsPaidOnce, Credit
<1> QED
  BY <1>3, <1>4

LEMMA SpendStep ==
  ASSUME RateInv, NEW r \in Requests, Spend(r)
  PROVE  RateInv'
<1> USE RateAssumption
<1>1. RateTypeOK'
  BY DEF RateInv, RateTypeOK, CallersInv, Spend, Places
<1>2. CallersInv'
  BY DEF RateInv, RateTypeOK, CallersInv, Spend
<1>3. IsFiniteSet(Owed') /\ Outstanding' = Outstanding
  BY OwedStays DEF RateInv, Spend
<1>4. Outstanding \in Nat
  BY FS_CardinalityType DEF RateInv, Outstanding
<1>5. granted' + tokens' = granted + tokens
  BY DEF RateInv, RateTypeOK, Spend
<1> QED
  BY <1>1, <1>2, <1>3, <1>4, <1>5 DEF RateInv, RateTypeOK, TimeIsPaidOnce, Spend

LEMMA ReadStep ==
  ASSUME RateInv, NEW r \in Requests,
         \/ ReadClock(r) \/ ReadMark(r) \/ LoadForCredit(r)
         \/ LoadForTake(r) \/ SpuriousFailure(r)
  PROVE  RateInv'
<1>1. CASE ReadClock(r)
  <2>1. RateTypeOK'
    BY <1>1 DEF RateInv, RateTypeOK, ReadClock, Unread, Places
  <2>2. CallersInv'
    BY <1>1 DEF RateInv, RateTypeOK, CallersInv, ReadClock
  <2> QED
    BY <1>1, <2>1, <2>2, QuietStep DEF RateInv, ReadClock
<1>2. CASE ReadMark(r)
  <2>1. RateTypeOK'
    BY <1>2 DEF RateInv, RateTypeOK, ReadMark, Places
  <2>2. CallersInv'
    BY <1>2 DEF RateInv, RateTypeOK, CallersInv, ReadMark
  <2> QED
    BY <1>2, <2>1, <2>2, QuietStep DEF RateInv, ReadMark
<1>3. CASE LoadForCredit(r)
  <2>1. RateTypeOK'
    BY <1>3 DEF RateInv, RateTypeOK, LoadForCredit, Places
  <2>2. CallersInv'
    BY <1>3 DEF RateInv, RateTypeOK, CallersInv, LoadForCredit
  <2> QED
    BY <1>3, <2>1, <2>2, QuietStep DEF RateInv, LoadForCredit
<1>4. CASE LoadForTake(r)
  <2>1. RateTypeOK'
    BY <1>4 DEF RateInv, RateTypeOK, LoadForTake, Places
  <2>2. CallersInv'
    BY <1>4 DEF RateInv, RateTypeOK, CallersInv, LoadForTake
  <2> QED
    BY <1>4, <2>1, <2>2, QuietStep DEF RateInv, LoadForTake
<1>5. CASE SpuriousFailure(r)
  <2>1. RateTypeOK'
    BY <1>5 DEF RateInv, RateTypeOK, SpuriousFailure, Places
  <2>2. CallersInv'
    BY <1>5 DEF RateInv, RateTypeOK, CallersInv, SpuriousFailure
  <2> QED
    BY <1>5, <2>1, <2>2, QuietStep DEF RateInv, SpuriousFailure
<1> QED
  BY <1>1, <1>2, <1>3, <1>4, <1>5

LEMMA RateStep == RateInv /\ [RateNext]_rateVars => RateInv'
<1> SUFFICES ASSUME RateInv, [RateNext]_rateVars PROVE RateInv'
  OBVIOUS
<1>1. CASE RateTick
  <2>1. RateTypeOK' /\ CallersInv'
    BY <1>1 DEF RateInv, RateTypeOK, CallersInv, RateTick
  <2> QED
    BY <1>1, <2>1, QuietStep DEF RateInv, RateTick
<1>2. ASSUME NEW r \in Requests,
             \/ ReadClock(r) \/ ReadMark(r) \/ ClaimInterval(r)
             \/ LoadForCredit(r) \/ Credit(r) \/ LoadForTake(r) \/ Spend(r)
             \/ SpuriousFailure(r)
      PROVE RateInv'
  BY <1>2, ReadStep, ClaimStep, CreditStep, SpendStep
<1>3. CASE UNCHANGED rateVars
  <2>1. RateTypeOK' /\ CallersInv'
    BY <1>3 DEF RateInv, RateTypeOK, CallersInv, rateVars
  <2> QED
    BY <1>3, <2>1, QuietStep DEF RateInv, rateVars
<1> QED
  BY <1>1, <1>2, <1>3 DEF RateNext

(* However many request tasks refill and spend at once, at any rate and for *)
(* as long as the clock runs: the calls allowed, the tokens in the bucket   *)
(* and those still to be added never exceed a full bucket and what the time *)
(* has earned; and the rounding never costs more than half of that.         *)
THEOREM TimeIsPaidOnceAlways == RateSpec => [](RateTypeOK /\ TimeIsPaidOnce)
<1>1. RateInv => RateTypeOK /\ TimeIsPaidOnce
  BY DEF RateInv
<1> QED
  BY <1>1, RateInitInv, RateStep, PTL DEF RateSpec

-----------------------------------------------------------------------------

(***************************************************************************)
(* NoSideDoors and RefusalsComeFirst for any agents, commands, faults and  *)
(* lists of the operator, and any caps. The configuration never changes;   *)
(* the effects of a tool that is done in one step are decided when it is   *)
(* admitted. What has to be shown of those is the table (EffectsAreClean): *)
(* each handler requires, by the name the gate resolved the call to and by *)
(* the names it asks for itself, at least what its effects need            *)
(* (WhatIsClean), although one effect is behind many names and profiles    *)
(* list names and not effects. Of the handlers that run a command it is    *)
(* the order (PathFacts): each asks for what a statement needs before it   *)
(* comes to the statement, and changes nothing before it has asked for     *)
(* all. The invariant says of a call under way which of its questions have *)
(* been answered, and that the two maps are in order (OneEach, Put).       *)
(***************************************************************************)

Profiles == {"Observe", "Test", "FullControl"}

(* An effect the profile grants and that is ruled out under no other name. *)
Clean(e) == e \in Granted /\ Doors(e) \cap config.disabled = {}

Paths == {<<>>, invoke_command(FALSE), invoke_command(TRUE), verify_state(FALSE),
          verify_state(TRUE), contract_record}

(* What changes nothing outside of the call. *)
Preliminary == Checks \cup {"code"}

(* A call has been told yes by every check behind it, and has changed      *)
(* nothing if there is a check ahead; a command that runs was allowed to.  *)
CallInv(b) ==
  /\ b = [path |-> b.path, at |-> b.at, command |-> b.command, todo |-> b.todo,
            running |-> b.running, did |-> b.did]
  /\ b.path \in Paths /\ b.at \in Nat \ {0}
  /\ b.path # <<>> => b.command \in Commands
  /\ \A j \in DOMAIN b.path :
       j < b.at /\ b.path[j] \in Checks => Allowed(b.path[j], b.command)
  /\ b.at \in DOMAIN b.path /\ b.path[b.at] \in Preliminary => b.did \subseteq {"code"}
  /\ b.running # NoCommand => MayRun(b.running)
  /\ b.path # <<>> /\ b.running # NoCommand =>
       b.at \in DOMAIN b.path /\ b.path[b.at] = "run"
  /\ b.path # <<>> => b.todo = {}

(* A map in the order of its insertions holds a command once. *)
OneEach(map) == \A i, j \in DOMAIN map : map[i].command = map[j].command => i = j

Rules == [command : Commands, kind : FaultKinds, count : Nat, max : {0, 1}]
Contracts == [command : Commands]

MapsInv ==
  /\ faults \in Seq(Rules) /\ Len(faults) <= MaxFaultRules /\ OneEach(faults)
  /\ \A i \in DOMAIN faults : faults[i].count > 0 => MayRun(faults[i].command)
  /\ baselines \in Seq(Contracts) /\ Len(baselines) <= MaxBaselines /\ OneEach(baselines)
  /\ \A i \in DOMAIN baselines : MayRun(baselines[i].command)

GateInv ==
  /\ config.profile \in Profiles
  /\ \A e \in doing.does : Clean(e)
  /\ doing.refused => doing.did \subseteq {"code"}
  /\ DOMAIN busy = Agents
  /\ \A g \in Agents : CallInv(busy[g])
  /\ MapsInv

(* What only FullControl allows. *)
FullOnly ==
  Bare({"eval_js", "screenshot", "app_info", "list_app_dir", "read_app_file", "query_db",
        "set_dialog_response", "inject_css", "trace", "animation", "introspect", "fault"})
  \cup {<<"window", "manage">>, <<"window", "resize">>, <<"window", "move_to">>,
        <<"window", "set_title">>}
  \cup {<<"css", "remove">>, <<"route", "add">>, <<"route", "clear">>, <<"route", "clear_all">>,
        <<"navigate", "go_to">>, <<"introspect", "event_bus">>}
(* What Observe does not allow either. *)
TestOnly ==
  {<<"interact">>, <<"input", "press_key">>, <<"fill">>, <<"type_text">>, <<"set_storage">>,
   <<"delete_storage">>, <<"navigate", "go_back">>, <<"recording">>, <<"logs", "clear">>,
   <<"inspect", "highlight">>, <<"inspect", "clear_highlights">>}

(* The three profiles nest, and these names stand between them. *)
LEMMA FullOnlyIsNotTest == \A name \in FullOnly : name \notin TestAllows
  <1> USE DEF FullOnly, Bare, Named, TestAllows, ObserveAllows, COMPOUND_ACTIONS
  <1>1. QED OBVIOUS

LEMMA TestOnlyIsNotObserved == \A name \in FullOnly \cup TestOnly : name \notin ObserveAllows
  <1>1. \A name \in TestOnly : name \notin ObserveAllows
    BY DEF TestOnly, Bare, Named, ObserveAllows, COMPOUND_ACTIONS
  <1>2. QED BY <1>1, FullOnlyIsNotTest DEF TestAllows

(* An enabled tool is one whose name is not disabled and that the profile allows. *)
LEMMA EnabledIsAllowed ==
    ASSUME config.profile \in Profiles, NEW name, is_tool_enabled(name)
    PROVE  /\ name \notin config.disabled
           /\ name \in FullOnly => config.profile = "FullControl"
           /\ name \in TestOnly => config.profile # "Observe"
<1>1. name \notin config.disabled BY DEF is_tool_enabled, is_disabled
<1>2. CASE is_allowed_by_profile(name)
  BY <1>1, <1>2, FullOnlyIsNotTest, TestOnlyIsNotObserved DEF is_allowed_by_profile,
     Profiles
<1>3. CASE name = <<"invoke_command">>
  BY <1>1, <1>3 DEF FullOnly, TestOnly, Bare
<1>4. QED BY <1>2, <1>3 DEF is_tool_enabled

(* What makes each effect a clean one. *)
LEMMA WhatIsClean ==
    ASSUME config.profile \in Profiles
    PROVE  /\ Clean("read")
           /\ is_tool_enabled(<<"eval_js">>) => Clean("code")
           /\ is_tool_enabled(<<"screenshot">>) => Clean("pixels")
           /\ {<<"logs">>, <<"logs", "backend">>} \cap config.disabled = {} => Clean("logs")
           /\ /\ is_tool_enabled(<<"introspect", "event_bus">>)
              /\ <<"introspect">> \notin config.disabled
              => Clean("events")
           /\ /\ is_tool_enabled(<<"navigate", "go_to">>)
              /\ <<"navigate">> \notin config.disabled
              => Clean("navigate")
           /\ config.profile # "Observe" =>
                /\ \A e \in {"page", "recorder", "erase", "back"} : Clean(e)
                /\ <<"storage">> \notin config.disabled => Clean("storage")
           /\ config.profile = "FullControl" =>
                /\ \A e \in {"dialogs", "window", "routes", "faults", "contracts", "files"} : Clean(e)
                /\ <<"css">> \notin config.disabled => Clean("css")
<1> USE DEF Clean, Granted, Doors, Profiles
<1>1. Clean("read") OBVIOUS
<1>2. is_tool_enabled(<<"eval_js">>) => Clean("code")
  BY EnabledIsAllowed DEF FullOnly, Bare
<1>3. is_tool_enabled(<<"screenshot">>) => Clean("pixels")
  BY EnabledIsAllowed DEF FullOnly, Bare
<1>4. {<<"logs">>, <<"logs", "backend">>} \cap config.disabled = {} => Clean("logs")
  OBVIOUS
<1>5. /\ is_tool_enabled(<<"introspect", "event_bus">>)
      /\ <<"introspect">> \notin config.disabled
      => Clean("events")
  BY EnabledIsAllowed DEF FullOnly
<1>6. /\ is_tool_enabled(<<"navigate", "go_to">>)
      /\ <<"navigate">> \notin config.disabled
      => Clean("navigate")
  BY EnabledIsAllowed DEF FullOnly
<1>7. config.profile # "Observe" =>
        /\ \A e \in {"page", "recorder", "erase", "back"} : Clean(e)
        /\ <<"storage">> \notin config.disabled => Clean("storage")
  OBVIOUS
<1>8. config.profile = "FullControl" =>
        /\ \A e \in {"dialogs", "window", "routes", "faults", "contracts", "files"} : Clean(e)
        /\ <<"css">> \notin config.disabled => Clean("css")
  OBVIOUS
<1>9. QED BY <1>1, <1>2, <1>3, <1>4, <1>5, <1>6, <1>7, <1>8

(* A tool is disabled by its own name too, and a compound tool's action is gated by its name. *)
LEMMA GateOpens ==
    ASSUME config.profile \in Profiles, NEW req \in Calls, ~Refused(req), ~Stepwise(req)
    PROVE  /\ req.tool \in STANDALONE_TOOLS \cup COMPOUND_TOOLS
           /\ <<req.tool>> \notin config.disabled
           /\ req.tool \in STANDALONE_TOOLS => is_tool_enabled(<<req.tool>>)
           /\ req.tool \in COMPOUND_TOOLS =>
                /\ req.action \in COMPOUND_ACTIONS[req.tool]
                /\ req.tool # "inspect" => is_tool_enabled(<<req.tool, req.action>>)
           /\ \A name \in dispatch_tool(req).needs : is_tool_enabled(name)
<1>1. PassesGate(req) /\ PassesHandler(req) BY DEF Refused
<1>2. req.tool \in STANDALONE_TOOLS => req.tool \notin COMPOUND_TOOLS
  BY DEF STANDALONE_TOOLS, COMPOUND_TOOLS, COMPOUND_ACTIONS
<1>3. CASE \E t \in COMPOUND_TOOLS : \E a \in COMPOUND_ACTIONS[t] : req \in CompoundCalls(t, a)
  <2>1. PICK t \in COMPOUND_TOOLS : \E b \in COMPOUND_ACTIONS[t] : req \in CompoundCalls(t, b)
    BY <1>3
  <2>2. PICK a \in COMPOUND_ACTIONS[t] : req \in CompoundCalls(t, a)
    BY <2>1
  <2>3. /\ req.tool = t /\ req.action = a
        /\ req.shape \in {"object", "unknown", "tagged", "positional"}
    BY <2>2 DEF CompoundCalls
  <2>4. req.shape = "object" /\ resolve_capability(req) = {action_capability(t, a)}
    BY <1>1, <2>1, <2>3 DEF PassesGate, resolve_capability, parse_args, Compound
  <2>5. t # "inspect" => action_capability(t, a) = <<t, a>>
    BY DEF action_capability
  <2>6. QED BY <1>1, <1>2, <2>2, <2>3, <2>4, <2>5 DEF PassesGate, PassesHandler,
               is_call_allowed
<1>4. CASE req.tool \in STANDALONE_TOOLS /\ req.shape = "object"
  <2>1. resolve_capability(req) = {<<req.tool>>}
    BY <1>2, <1>4 DEF resolve_capability, Compound
  <2>2. QED BY <1>1, <1>2, <1>4, <2>1 DEF PassesGate, PassesHandler, is_call_allowed
<1>5. \/ req.tool \in STANDALONE_TOOLS /\ req.shape = "object"
      \/ \E t \in COMPOUND_TOOLS : \E a \in COMPOUND_ACTIONS[t] : req \in CompoundCalls(t, a)
  <2>1. {"wait_for", "invoke_command", "verify_state"} \subseteq STANDALONE_TOOLS
    BY DEF STANDALONE_TOOLS
  <2>2. CASE req \in UNION {UNION {CompoundCalls(t, a) : a \in COMPOUND_ACTIONS[t]} : t \in COMPOUND_TOOLS}
    BY <2>2
  <2>3. QED BY <2>1, <2>2 DEF Calls, Standalone
<1>6. QED BY <1>3, <1>4, <1>5

(* The table of tools, row by row: what a handler requires is enough for   *)
(* everything it does.  The commands it runs are looked at when they run.  *)
LEMMA EffectsAreClean ==
    ASSUME config.profile \in Profiles, NEW req \in Calls, ~Refused(req), ~Stepwise(req),
           NEW e \in dispatch_tool(req).does, e # "invoke"
    PROVE  Clean(e)
<1> DEFINE h == dispatch_tool(req)
<1>1. /\ req.tool \in STANDALONE_TOOLS \cup COMPOUND_TOOLS
      /\ <<req.tool>> \notin config.disabled
      /\ req.tool \in STANDALONE_TOOLS => is_tool_enabled(<<req.tool>>)
      /\ req.tool \in COMPOUND_TOOLS =>
           /\ req.action \in COMPOUND_ACTIONS[req.tool]
           /\ req.tool # "inspect" => is_tool_enabled(<<req.tool, req.action>>)
      /\ \A name \in h.needs : is_tool_enabled(name)
      /\ e \in h.does
  BY GateOpens
<1> USE DEF Does, Reads
<1>2. CASE req.tool = "eval_js"
  <2>1. h = eval_js BY <1>2 DEF dispatch_tool
  <2> HIDE DEF h
  <2>2. QED BY <2>1, <1>2, <1>1, WhatIsClean, EnabledIsAllowed DEF eval_js, FullOnly,
               TestOnly, Bare, STANDALONE_TOOLS
<1>3. CASE req.tool = "screenshot"
  <2>1. h = screenshot BY <1>3 DEF dispatch_tool
  <2> HIDE DEF h
  <2>2. QED BY <2>1, <1>3, <1>1, WhatIsClean, EnabledIsAllowed DEF screenshot,
               FullOnly, TestOnly, Bare, STANDALONE_TOOLS
<1>4. CASE req.tool = "assert_semantic"
  <2>1. h = assert_semantic BY <1>4 DEF dispatch_tool
  <2> HIDE DEF h
  <2>2. QED BY <2>1, <1>4, <1>1, WhatIsClean, EnabledIsAllowed DEF assert_semantic,
               FullOnly, TestOnly, Bare, STANDALONE_TOOLS
<1>5. CASE req.tool = "verify_state"
  BY <1>5 DEF Stepwise
<1>6. CASE req.tool = "wait_for"
  <2>1. h = wait_for(req.action) BY <1>6 DEF dispatch_tool
  <2> HIDE DEF h
  <2>2. QED BY <2>1, <1>6, <1>1, WhatIsClean, EnabledIsAllowed DEF wait_for,
               wait_for_expression, wait_for_log, wait_for_event, is_call_allowed,
               FullOnly, TestOnly, Bare, STANDALONE_TOOLS
<1>7. CASE req.tool = "invoke_command"
  BY <1>7 DEF Stepwise
<1>8. CASE req.tool = "app_info"
  <2>1. h = app_info BY <1>8 DEF dispatch_tool
  <2> HIDE DEF h
  <2>2. QED BY <2>1, <1>8, <1>1, WhatIsClean, EnabledIsAllowed DEF app_info,
               FullOnly, TestOnly, Bare, STANDALONE_TOOLS
<1>9. CASE req.tool = "list_app_dir"
  <2>1. h = list_app_dir BY <1>9 DEF dispatch_tool
  <2> HIDE DEF h
  <2>2. QED BY <2>1, <1>9, <1>1, WhatIsClean, EnabledIsAllowed DEF list_app_dir,
               FullOnly, TestOnly, Bare, STANDALONE_TOOLS
<1>10. CASE req.tool = "read_app_file"
  <2>1. h = read_app_file BY <1>10 DEF dispatch_tool
  <2> HIDE DEF h
  <2>2. QED BY <2>1, <1>10, <1>1, WhatIsClean, EnabledIsAllowed DEF read_app_file,
               FullOnly, TestOnly, Bare, STANDALONE_TOOLS
<1>11. CASE req.tool = "query_db"
  <2>1. h = query_db BY <1>11 DEF dispatch_tool
  <2> HIDE DEF h
  <2>2. QED BY <2>1, <1>11, <1>1, WhatIsClean, EnabledIsAllowed DEF query_db,
               FullOnly, TestOnly, Bare, STANDALONE_TOOLS
<1>12. CASE req.tool = "dom_snapshot"
  <2>1. h = dom_snapshot BY <1>12 DEF dispatch_tool
  <2> HIDE DEF h
  <2>2. QED BY <2>1, <1>12, <1>1, WhatIsClean, EnabledIsAllowed DEF dom_snapshot,
               FullOnly, TestOnly, Bare, STANDALONE_TOOLS
<1>13. CASE req.tool = "find_elements"
  <2>1. h = find_elements BY <1>13 DEF dispatch_tool
  <2> HIDE DEF h
  <2>2. QED BY <2>1, <1>13, <1>1, WhatIsClean, EnabledIsAllowed DEF find_elements,
               FullOnly, TestOnly, Bare, STANDALONE_TOOLS
<1>14. CASE req.tool = "detect_ghost_commands"
  <2>1. h = detect_ghost_commands BY <1>14 DEF dispatch_tool
  <2> HIDE DEF h
  <2>2. QED BY <2>1, <1>14, <1>1, WhatIsClean, EnabledIsAllowed
               DEF detect_ghost_commands, FullOnly, TestOnly, Bare, STANDALONE_TOOLS
<1>15. CASE req.tool = "check_ipc_integrity"
  <2>1. h = check_ipc_integrity BY <1>15 DEF dispatch_tool
  <2> HIDE DEF h
  <2>2. QED BY <2>1, <1>15, <1>1, WhatIsClean, EnabledIsAllowed
               DEF check_ipc_integrity, FullOnly, TestOnly, Bare, STANDALONE_TOOLS
<1>16. CASE req.tool = "resolve_command"
  <2>1. h = resolve_command BY <1>16 DEF dispatch_tool
  <2> HIDE DEF h
  <2>2. QED BY <2>1, <1>16, <1>1, WhatIsClean, EnabledIsAllowed DEF resolve_command,
               FullOnly, TestOnly, Bare, STANDALONE_TOOLS
<1>17. CASE req.tool = "get_registry"
  <2>1. h = get_registry BY <1>17 DEF dispatch_tool
  <2> HIDE DEF h
  <2>2. QED BY <2>1, <1>17, <1>1, WhatIsClean, EnabledIsAllowed DEF get_registry,
               FullOnly, TestOnly, Bare, STANDALONE_TOOLS
<1>18. CASE req.tool = "app_state"
  <2>1. h = app_state BY <1>18 DEF dispatch_tool
  <2> HIDE DEF h
  <2>2. QED BY <2>1, <1>18, <1>1, WhatIsClean, EnabledIsAllowed DEF app_state,
               FullOnly, TestOnly, Bare, STANDALONE_TOOLS
<1>19. CASE req.tool = "get_memory_stats"
  <2>1. h = get_memory_stats BY <1>19 DEF dispatch_tool
  <2> HIDE DEF h
  <2>2. QED BY <2>1, <1>19, <1>1, WhatIsClean, EnabledIsAllowed DEF get_memory_stats,
               FullOnly, TestOnly, Bare, STANDALONE_TOOLS
<1>20. CASE req.tool = "get_plugin_info"
  <2>1. h = get_plugin_info BY <1>20 DEF dispatch_tool
  <2> HIDE DEF h
  <2>2. QED BY <2>1, <1>20, <1>1, WhatIsClean, EnabledIsAllowed DEF get_plugin_info,
               FullOnly, TestOnly, Bare, STANDALONE_TOOLS
<1>21. CASE req.tool = "get_diagnostics"
  <2>1. h = get_diagnostics BY <1>21 DEF dispatch_tool
  <2> HIDE DEF h
  <2>2. QED BY <2>1, <1>21, <1>1, WhatIsClean, EnabledIsAllowed DEF get_diagnostics,
               FullOnly, TestOnly, Bare, STANDALONE_TOOLS
<1>22. CASE req.tool = "interact"
  <2>1. h = interact(req.action) BY <1>22 DEF dispatch_tool
  <2> HIDE DEF h
  <2>2. QED BY <2>1, <1>22, <1>1, WhatIsClean, EnabledIsAllowed DEF interact,
               FullOnly, TestOnly, Bare, COMPOUND_TOOLS, COMPOUND_ACTIONS
<1>23. CASE req.tool = "input"
  <2>1. h = input(req.action) /\ req.action \in {"fill", "type_text", "press_key"}
    BY <1>23, <1>1 DEF dispatch_tool, COMPOUND_TOOLS, COMPOUND_ACTIONS
  <2> HIDE DEF h
  <2>2. e = "page" /\ \E name \in h.needs : name \in TestOnly
    BY <2>1, <1>1 DEF input, TestOnly
  <2>3. QED BY <2>2, <1>1, WhatIsClean, EnabledIsAllowed
<1>24. CASE req.tool = "window"
  <2>1. h = window(req.action) BY <1>24 DEF dispatch_tool
  <2> HIDE DEF h
  <2>2. QED BY <2>1, <1>24, <1>1, WhatIsClean, EnabledIsAllowed DEF window, FullOnly,
               TestOnly, Bare, COMPOUND_TOOLS, COMPOUND_ACTIONS
<1>25. CASE req.tool = "storage"
  <2>1. h = storage(req.action) BY <1>25 DEF dispatch_tool
  <2> HIDE DEF h
  <2>2. QED BY <2>1, <1>25, <1>1, WhatIsClean, EnabledIsAllowed, ZenonT(60)
               DEF storage, FullOnly, TestOnly, Bare, COMPOUND_TOOLS, COMPOUND_ACTIONS
<1>26. CASE req.tool = "navigate"
  <2>1. h = navigate(req.action) BY <1>26 DEF dispatch_tool
  <2>2. /\ <<"navigate">> \notin config.disabled
        /\ is_tool_enabled(<<"navigate", req.action>>)
        /\ req.action \in COMPOUND_ACTIONS.navigate
    BY <1>26, <1>1 DEF COMPOUND_TOOLS, COMPOUND_ACTIONS
  <2> HIDE DEF h
  <2>3. CASE req.action = "go_to"
    BY <2>1, <2>2, <2>3, <1>1, WhatIsClean DEF navigate
  <2>4. CASE req.action = "go_back"
    BY <2>1, <2>2, <2>4, <1>1, WhatIsClean, EnabledIsAllowed DEF navigate, TestOnly
  <2>5. CASE req.action = "set_dialog_response"
    BY <2>1, <2>5, <1>1, WhatIsClean, EnabledIsAllowed, ZenonT(60) DEF navigate,
       FullOnly, Bare
  <2>6. CASE req.action \notin {"go_to", "go_back", "set_dialog_response"}
    BY <2>1, <2>6, <1>1, WhatIsClean DEF navigate
  <2>7. QED BY <2>3, <2>4, <2>5, <2>6
<1>27. CASE req.tool = "recording"
  <2>1. h = recordingTool(req.action) BY <1>27 DEF dispatch_tool
  <2> HIDE DEF h
  <2>2. QED BY <2>1, <1>27, <1>1, WhatIsClean, EnabledIsAllowed DEF recordingTool,
               recording_session, recording_transfer, recording_reads,
               recording_replay, FullOnly, TestOnly, Bare, COMPOUND_TOOLS,
               COMPOUND_ACTIONS
<1>28. CASE req.tool = "inspect"
  <2>1. h = inspect(req.action) BY <1>28 DEF dispatch_tool
  <2> HIDE DEF h
  <2>2. QED BY <2>1, <1>28, <1>1, WhatIsClean, EnabledIsAllowed, ZenonT(60)
               DEF inspect, FullOnly, TestOnly, Bare, COMPOUND_TOOLS, COMPOUND_ACTIONS
<1>29. CASE req.tool = "css"
  <2>1. h = css(req.action) /\ <<"css">> \notin config.disabled
        /\ req.action \in {"inject", "remove"}
    BY <1>29, <1>1 DEF dispatch_tool, COMPOUND_TOOLS, COMPOUND_ACTIONS
  <2> HIDE DEF h
  <2>2. e = "css" /\ \E name \in h.needs : name \in FullOnly
    BY <2>1, <1>1 DEF css, FullOnly, Bare
  <2>3. QED BY <2>1, <2>2, <1>1, WhatIsClean, EnabledIsAllowed
<1>30. CASE req.tool = "route"
  <2>1. h = route(req.action) BY <1>30 DEF dispatch_tool
  <2> HIDE DEF h
  <2>2. QED BY <2>1, <1>30, <1>1, WhatIsClean, EnabledIsAllowed DEF route, FullOnly,
               TestOnly, Bare, COMPOUND_TOOLS, COMPOUND_ACTIONS
<1>31. CASE req.tool = "trace"
  <2>1. h = trace(req.action) BY <1>31 DEF dispatch_tool
  <2> HIDE DEF h
  <2>2. QED BY <2>1, <1>31, <1>1, WhatIsClean, EnabledIsAllowed DEF trace, FullOnly,
               TestOnly, Bare, COMPOUND_TOOLS, COMPOUND_ACTIONS
<1>32. CASE req.tool = "animation"
  <2>1. h = animation(req.action, req.more) BY <1>32 DEF dispatch_tool
  <2> HIDE DEF h
  <2>2. QED BY <2>1, <1>32, <1>1, WhatIsClean, EnabledIsAllowed DEF animation,
               FullOnly, TestOnly, Bare, COMPOUND_TOOLS, COMPOUND_ACTIONS
<1>33. CASE req.tool = "logs"
  <2>1. h = logs(req.action) BY <1>33 DEF dispatch_tool
  <2> HIDE DEF h
  <2>2. QED BY <2>1, <1>33, <1>1, WhatIsClean, EnabledIsAllowed DEF logs, FullOnly,
               TestOnly, Bare, COMPOUND_TOOLS, COMPOUND_ACTIONS
<1>34. CASE req.tool = "introspect"
  <2>1. h = introspect(req.action) BY <1>34 DEF dispatch_tool
  <2> HIDE DEF h
  <2>2. QED BY <2>1, <1>34, <1>1, WhatIsClean, EnabledIsAllowed DEF introspect,
               introspect_commands, contract_check, introspect_app,
               introspect_bus, FullOnly, TestOnly, Bare, COMPOUND_TOOLS,
               COMPOUND_ACTIONS
<1>35. CASE req.tool = "fault"
  <2>1. h = fault(req.action) BY <1>35 DEF dispatch_tool
  <2> HIDE DEF h
  <2>2. QED BY <2>1, <1>35, <1>1, WhatIsClean, EnabledIsAllowed DEF fault, FullOnly,
               TestOnly, Bare, COMPOUND_TOOLS, COMPOUND_ACTIONS
<1>36. CASE req.tool = "explain"
  <2>1. h = explain(req.action) BY <1>36 DEF dispatch_tool
  <2> HIDE DEF h
  <2>2. QED BY <2>1, <1>36, <1>1, WhatIsClean, EnabledIsAllowed DEF explain,
               explain_summary, explain_last_action, explain_diff, FullOnly,
               TestOnly, Bare, COMPOUND_TOOLS, COMPOUND_ACTIONS
<1>37. QED BY <1>1, <1>2, <1>3, <1>4, <1>5, <1>6, <1>7, <1>8, <1>9, <1>10, <1>11,
              <1>12, <1>13, <1>14, <1>15, <1>16, <1>17, <1>18, <1>19, <1>20, <1>21,
              <1>22, <1>23, <1>24, <1>25, <1>26, <1>27, <1>28, <1>29, <1>30, <1>31,
              <1>32, <1>33, <1>34, <1>35, <1>36 DEF STANDALONE_TOOLS, COMPOUND_TOOLS,
              COMPOUND_ACTIONS

(* Whoever may run a command may have it run. *)
LEMMA InvokeIsClean ==
    ASSUME config.profile \in Profiles, NEW c, MayRun(c) PROVE Clean("invoke")
BY DEF MayRun, is_invoke_allowed, Profiles, Clean, Granted, Doors

(* While the configuration stands, so does what it allows. *)
LEMMA ConfigStands ==
    ASSUME config' = config
    PROVE  /\ \A e : Clean(e) => Clean(e)'
           /\ \A c : MayRun(c) <=> MayRun(c)'
           /\ \A check, c : Allowed(check, c) <=> Allowed(check, c)'
           /\ \A b : CallInv(b) => CallInv(b)'
<1>1. \A e : Clean(e) => Clean(e)' BY DEF Clean, Granted, Doors
<1>2. \A c : MayRun(c) <=> MayRun(c)'
  BY DEF MayRun, is_invoke_allowed, is_command_allowed
<1>3. \A name : is_tool_enabled(name) <=> is_tool_enabled(name)'
  BY DEF is_tool_enabled, is_disabled, is_allowed_by_profile,
     test_profile_allowlists_commands
<1>4. \A check, c : Allowed(check, c) <=> Allowed(check, c)'
  BY <1>2, <1>3 DEF Allowed, is_call_allowed
<1>5. \A b : CallInv(b) => CallInv(b)' BY <1>2, <1>4 DEF CallInv
<1>6. QED BY <1>1, <1>2, <1>4, <1>5

-----------------------------------------------------------------------------

(* The maps of rules and of baselines. *)
LEMMA OthersFacts ==
    ASSUME NEW S, NEW map \in Seq(S), OneEach(map), NEW c
    PROVE  LET r == Others(map, c)
           IN /\ r \in Seq(S) /\ Len(r) <= Len(map) /\ OneEach(r)
              /\ \A i \in DOMAIN r : /\ r[i].command # c
                                     /\ \E j \in DOMAIN map : r[i] = map[j]
<1>1. CASE ~\E i \in DOMAIN map : map[i].command = c
  BY <1>1 DEF Others
<1>2. CASE \E i \in DOMAIN map : map[i].command = c
  <2> DEFINE i == CHOOSE i \in DOMAIN map : map[i].command = c
             r == Others(map, c)
  <2>1. i \in DOMAIN map /\ map[i].command = c BY <1>2
  <2> DEFINE before == SubSeq(map, 1, i - 1)
             after == SubSeq(map, i + 1, Len(map))
  <2>2. r = before \o after
    BY <1>2 DEF Others, RemoveAt
  <2> HIDE DEF i, r
  <2>3. i \in 1..Len(map) /\ Len(map) \in Nat BY <2>1
  <2>4. /\ before \in Seq(S) /\ Len(before) = i - 1
        /\ \A k \in 1..(i - 1) : before[k] = map[k]
    BY <2>3
  <2>5. /\ after \in Seq(S) /\ Len(after) = Len(map) - i
        /\ \A k \in 1..(Len(map) - i) : after[k] = map[i + k]
    BY <2>3
  <2> HIDE DEF before, after
  <2>6. r \in Seq(S) /\ Len(r) = Len(map) - 1
    <3>1. r \in Seq(S) /\ Len(r) = Len(before) + Len(after)
      BY <2>2, <2>4, <2>5, ConcatProperties
    <3>2. QED BY <3>1, <2>3, <2>4, <2>5
  <2>7. \A k \in 1..Len(r) : r[k] = IF k < i THEN map[k] ELSE map[k + 1]
    <3> TAKE k \in 1..Len(r)
    <3>0. r[k] = IF k <= Len(before) THEN before[k] ELSE after[k - Len(before)]
      BY <2>2, <2>3, <2>4, <2>5, <2>6, ConcatProperties
    <3>1. CASE k < i BY <3>0, <3>1, <2>3, <2>4
    <3>2. CASE k >= i
      <4>1. k - (i - 1) \in 1..(Len(map) - i) BY <3>2, <2>3, <2>6
      <4>2. r[k] = after[k - (i - 1)] BY <3>0, <3>2, <2>3, <2>4
      <4>3. r[k] = map[i + (k - (i - 1))] BY <4>1, <4>2, <2>5
      <4>4. i + (k - (i - 1)) = k + 1 BY <2>3
      <4>5. QED BY <3>2, <4>3, <4>4, <2>3
    <3>3. QED BY <3>1, <3>2, <2>3
  <2> DEFINE Of(k) == IF k < i THEN k ELSE k + 1
  <2>8. \A k \in 1..Len(r) : Of(k) \in 1..Len(map) /\ Of(k) # i /\ r[k] = map[Of(k)]
    BY <2>3, <2>6, <2>7
  <2>9. \A k, l \in 1..Len(r) : Of(k) = Of(l) => k = l BY <2>3
  <2> HIDE DEF Of
  <2>10. \A k, l \in 1..Len(map) : map[k].command = map[l].command => k = l
    BY DEF OneEach
  <2>11. \A k \in 1..Len(r) : r[k].command # c BY <2>1, <2>3, <2>8, <2>10
  <2>12. \A k, l \in 1..Len(r) : r[k].command = r[l].command => k = l
    BY <2>8, <2>9, <2>10
  <2>13. DOMAIN r = 1..Len(r) /\ DOMAIN map = 1..Len(map) BY <2>6
  <2>14. OneEach(r) BY <2>12, <2>13 DEF OneEach
  <2>15. Len(r) <= Len(map) BY <2>3, <2>6
  <2>16. \A k \in DOMAIN r : /\ r[k].command # c
                             /\ \E j \in DOMAIN map : r[k] = map[j]
    BY <2>8, <2>11, <2>13
  <2>17. r \in Seq(S) /\ Len(r) <= Len(map) /\ OneEach(r)
         /\ \A k \in DOMAIN r : /\ r[k].command # c
                                /\ \E j \in DOMAIN map : r[k] = map[j]
    BY <2>6, <2>14, <2>15, <2>16
  <2>18. QED BY <2>17 DEF r
<1>3. QED BY <1>1, <1>2

(* The oldest entry is dropped: by time, or to make room. *)
LEMMA TailFacts ==
    ASSUME NEW S, NEW map \in Seq(S), OneEach(map), map # <<>>
    PROVE  /\ Tail(map) \in Seq(S) /\ Len(Tail(map)) = Len(map) - 1 /\ OneEach(Tail(map))
           /\ \A i \in DOMAIN Tail(map) : i + 1 \in DOMAIN map /\ Tail(map)[i] = map[i + 1]
<1>1. Tail(map) \in Seq(S) /\ Len(Tail(map)) = Len(map) - 1 /\ Len(map) \in Nat
  OBVIOUS
<1>2. \A i \in DOMAIN Tail(map) : i + 1 \in DOMAIN map /\ Tail(map)[i] = map[i + 1]
  BY <1>1
<1>3. DOMAIN Tail(map) \subseteq Nat BY <1>1
<1>4. OneEach(Tail(map)) BY <1>2, <1>3 DEF OneEach
<1>5. QED BY <1>1, <1>2, <1>4

LEMMA PutFacts ==
    ASSUME NEW S, NEW map \in Seq(S), OneEach(map), NEW entry \in S,
           NEW cap \in Nat \ {0}, Len(map) <= cap
    PROVE  LET p == Put(map, entry, cap)
           IN /\ p \in Seq(S) /\ Len(p) <= cap /\ OneEach(p)
              /\ \A i \in DOMAIN p : p[i] = entry \/ \E j \in DOMAIN map : p[i] = map[j]
<1> DEFINE rest == Others(map, entry.command)
           full == Len(rest) = Len(map) /\ Len(map) >= cap
           kept == IF full THEN Tail(rest) ELSE rest
           p == Append(kept, entry)
<1>1. /\ rest \in Seq(S) /\ Len(rest) <= Len(map) /\ OneEach(rest)
      /\ \A i \in DOMAIN rest : /\ rest[i].command # entry.command
                                /\ \E j \in DOMAIN map : rest[i] = map[j]
  BY OthersFacts
<1>2. p = Put(map, entry, cap) BY DEF Put
<1> HIDE DEF rest
<1>3. Len(rest) \in Nat /\ Len(map) \in Nat BY <1>1
<1>4. kept \in Seq(S) /\ Len(kept) < cap /\ OneEach(kept)
      /\ \A i \in DOMAIN kept : /\ kept[i].command # entry.command
                                /\ \E j \in DOMAIN map : kept[i] = map[j]
  <2>1. CASE full
    <3>1. rest # <<>> BY <2>1, <1>3
    <3>2. /\ Tail(rest) \in Seq(S) /\ Len(Tail(rest)) = Len(rest) - 1 /\ OneEach(Tail(rest))
          /\ \A i \in DOMAIN Tail(rest) : i + 1 \in DOMAIN rest
                                          /\ Tail(rest)[i] = rest[i + 1]
      BY <3>1, <1>1, TailFacts
    <3>3. Len(Tail(rest)) < cap BY <3>2, <2>1, <1>3
    <3>4. QED BY <3>2, <3>3, <2>1, <1>1
  <2>2. CASE ~full
    <3>1. Len(rest) < cap BY <2>2, <1>1, <1>3
    <3>2. QED BY <3>1, <2>2, <1>1
  <2>3. QED BY <2>1, <2>2
<1> HIDE DEF full, kept
<1>5. /\ p \in Seq(S) /\ Len(p) = Len(kept) + 1 /\ Len(kept) \in Nat
      /\ p[Len(kept) + 1] = entry
      /\ \A i \in 1..Len(kept) : p[i] = kept[i]
  BY <1>4
<1> HIDE DEF p
<1>6. DOMAIN p = 1..(Len(kept) + 1) /\ DOMAIN kept = 1..Len(kept) BY <1>4, <1>5
<1>7. \A i \in DOMAIN p : \/ i = Len(kept) + 1 /\ p[i] = entry
                          \/ i \in DOMAIN kept /\ p[i] = kept[i]
  BY <1>5, <1>6
<1>8. OneEach(p) BY <1>4, <1>7 DEF OneEach
<1>9. Len(p) <= cap BY <1>4, <1>5
<1>10. \A i \in DOMAIN p : p[i] = entry \/ \E j \in DOMAIN map : p[i] = map[j]
  BY <1>4, <1>7
<1>11. QED BY <1>2, <1>5, <1>8, <1>9, <1>10

-----------------------------------------------------------------------------

(* The order of the statements. *)
LEMMA PathFacts ==
    ASSUME NEW p \in Paths, NEW k \in DOMAIN p
    PROVE  /\ DOMAIN p = 1..Len(p) /\ Len(p) \in 0..5 /\ k \in 1..Len(p)
           /\ p[k] \in {"fault", "run", "store"} =>
                \E j \in DOMAIN p : j < k /\ p[j] = "lists"
           /\ p[k] = "code" => \E j \in DOMAIN p : j < k /\ p[j] = "eval_js"
           /\ p[k] = "attach" => \E j \in DOMAIN p : j < k /\ p[j] = "logs"
           /\ p[k] = "store" => \E j \in DOMAIN p : j < k /\ p[j] = "introspect"
           /\ k + 1 \in DOMAIN p /\ p[k + 1] \in Preliminary => p[k] \in Preliminary
           /\ k + 2 \in DOMAIN p /\ p[k] = "fault" =>
                p[k + 1] \notin Preliminary /\ p[k + 2] \notin Preliminary
<1> USE DEF Preliminary, Checks
<1>1. CASE p = <<>> BY <1>1
<1>2. CASE p = invoke_command(FALSE)
  <2>1. p = <<"lists", "fault", "run">> BY <1>2 DEF invoke_command
  <2>2. k \in 1..3 /\ Len(p) = 3 BY <2>1
  <2>3. QED BY <2>1, <2>2
<1>3. CASE p = invoke_command(TRUE)
  <2>1. p = <<"lists", "logs", "fault", "run", "attach">> BY <1>3 DEF invoke_command
  <2>2. k \in 1..5 /\ Len(p) = 5 BY <2>1
  <2>3. QED BY <2>1, <2>2
<1>4. CASE p = verify_state(FALSE)
  <2>1. p = <<"eval_js", "code">> BY <1>4 DEF verify_state
  <2>2. k \in 1..2 /\ Len(p) = 2 BY <2>1
  <2>3. QED BY <2>1, <2>2
<1>5. CASE p = verify_state(TRUE)
  <2>1. p = <<"eval_js", "code", "lists", "run">> BY <1>5 DEF verify_state
  <2>2. k \in 1..4 /\ Len(p) = 4 BY <2>1
  <2>3. QED BY <2>1, <2>2
<1>6. CASE p = contract_record
  <2>1. p = <<"introspect", "lists", "run", "store">> BY <1>6 DEF contract_record
  <2>2. k \in 1..4 /\ Len(p) = 4 BY <2>1
  <2>3. QED BY <2>1, <2>2
<1>7. QED BY <1>1, <1>2, <1>3, <1>4, <1>5, <1>6 DEF Paths

(* A call that has nothing to do. *)
LEMMA FreeShape ==
    Free = [path |-> Free.path, at |-> Free.at, command |-> Free.command,
            todo |-> Free.todo, running |-> Free.running, did |-> Free.did]
BY DEF Free

LEMMA FreeFields ==
    /\ Free.path = <<>> /\ Free.at = 1 /\ Free.command = NoCommand /\ Free.todo = {}
    /\ Free.running = NoCommand /\ Free.did = {}
BY DEF Free

LEMMA FreeIsFine == CallInv(Free)
<1>1. DOMAIN Free.path = {} BY FreeFields
<1>2. QED BY <1>1, FreeShape, FreeFields DEF CallInv, Paths

(* A call that goes on, to its next statement or the one after. *)
LEMMA OnwardStep ==
    ASSUME NEW b, NEW n \in {1, 2},
           b = [path |-> b.path, at |-> b.at, command |-> b.command, todo |-> b.todo,
                running |-> b.running, did |-> b.did],
           b.path \in Paths, b.at \in DOMAIN b.path, b.command \in Commands,
           \A j \in DOMAIN b.path :
             j < b.at + n /\ b.path[j] \in Checks => Allowed(b.path[j], b.command),
           b.at + n \in DOMAIN b.path /\ b.path[b.at + n] \in Preliminary
             => b.did \subseteq {"code"},
           b.running = NoCommand, b.todo = {}
    PROVE  CallInv(Onward(b, n))
<1>1. CASE b.at + n > Len(b.path) BY <1>1, FreeIsFine DEF Onward
<1>2. CASE ~(b.at + n > Len(b.path))
  <2> DEFINE o == Onward(b, n)
  <2>1. b.at \in Nat \ {0} BY PathFacts
  <2>2. o = [path |-> b.path, at |-> b.at + n, command |-> b.command, todo |-> b.todo,
             running |-> b.running, did |-> b.did]
    BY <1>2 DEF Onward
  <2> HIDE DEF o
  <2>3. /\ o = [path |-> o.path, at |-> o.at, command |-> o.command, todo |-> o.todo,
                running |-> o.running, did |-> o.did]
        /\ o.path = b.path /\ o.at = b.at + n /\ o.command = b.command
        /\ o.running = NoCommand /\ o.did = b.did /\ o.todo = {}
    BY <2>2
  <2>4. o.at \in Nat \ {0} BY <2>1, <2>3
  <2>5. CallInv(o) BY <2>3, <2>4 DEF CallInv
  <2>6. QED BY <2>5 DEF o
<1>3. QED BY <1>1, <1>2

-----------------------------------------------------------------------------

(* A step that leaves one call in order, and the rest as it was. *)
LEMMA OneCallChanges ==
    ASSUME GateInv, config' = config, NEW g \in Agents, NEW b, CallInv(b),
           BusyIs(g, b),
           \A e \in doing'.does : Clean(e),
           doing'.refused => doing'.did \subseteq {"code"},
           MapsInv'
    PROVE  GateInv'
<1>1. /\ config'.profile \in Profiles
      /\ \A e \in doing'.does : Clean(e)'
  BY ConfigStands DEF GateInv
<1>2. /\ DOMAIN busy' = Agents
      /\ \A f \in Agents : busy'[f] = IF f = g THEN b ELSE busy[f]
  BY DEF GateInv, BusyIs
<1>3. \A f \in Agents : CallInv(busy'[f]) BY <1>2 DEF GateInv
<1>4. \A f \in Agents : CallInv(busy[f])' BY <1>3, ConfigStands
<1>5. QED BY <1>1, <1>2, <1>4 DEF GateInv

(* The maps are not touched. *)
LEMMA MapsStand ==
    ASSUME MapsInv, config' = config, UNCHANGED <<faults, baselines>> PROVE MapsInv'
BY ConfigStands DEF MapsInv, OneEach

LEMMA QuietIsFine ==
    /\ \A e \in Quiet.does : Clean(e)
    /\ ~Quiet.refused
    /\ \A effect : Clean(effect) => \A e \in [Quiet EXCEPT !.does = {effect}].does : Clean(e)
    /\ \A effect : ~[Quiet EXCEPT !.does = {effect}].refused
BY DEF Quiet

(* A rule, or a baseline, is put in its map. *)
LEMMA RulePut ==
    ASSUME MapsInv, config' = config, NEW rule \in Rules, rule.count = 0,
           faults' = Put(faults, rule, MaxFaultRules), UNCHANGED baselines
    PROVE  MapsInv'
<1>1. /\ faults' \in Seq(Rules) /\ Len(faults') <= MaxFaultRules /\ OneEach(faults')
      /\ \A i \in DOMAIN faults' :
           faults'[i] = rule \/ \E j \in DOMAIN faults : faults'[i] = faults[j]
  BY PutFacts, ToolGateAssumption DEF MapsInv
<1>2. \A i \in DOMAIN faults' : faults'[i].count > 0 => MayRun(faults'[i].command)
  BY <1>1 DEF MapsInv
<1>3. QED BY <1>1, <1>2, ConfigStands DEF MapsInv, OneEach

LEMMA BaselinePut ==
    ASSUME MapsInv, config' = config, NEW c \in Commands, MayRun(c),
           record_baseline(c), UNCHANGED faults
    PROVE  MapsInv'
<1>1. [command |-> c] \in Contracts /\ [command |-> c].command = c BY DEF Contracts
<1>2. /\ baselines' \in Seq(Contracts) /\ Len(baselines') <= MaxBaselines /\ OneEach(baselines')
      /\ \A i \in DOMAIN baselines' :
           \/ baselines'[i] = [command |-> c]
           \/ \E j \in DOMAIN baselines : baselines'[i] = baselines[j]
  BY <1>1, PutFacts, ToolGateAssumption DEF MapsInv, record_baseline
<1>3. \A i \in DOMAIN baselines' : MayRun(baselines'[i].command)
  BY <1>1, <1>2 DEF MapsInv
<1>4. QED BY <1>2, <1>3, ConfigStands DEF MapsInv, OneEach

(* A trigger is spent by a command that may run. *)
LEMMA Triggered ==
    ASSUME MapsInv, config' = config, NEW c, MayRun(c), check_and_trigger(c),
           UNCHANGED baselines
    PROVE  MapsInv'
<1> DEFINE struck(i) == i \in Striking(c) /\ faults[i].max > 0
<1>1. /\ faults \in Seq(Rules) /\ DOMAIN faults = 1..Len(faults) /\ Len(faults) \in Nat
  BY DEF MapsInv
<1>2. faults' = [i \in DOMAIN faults |->
                  IF struck(i) THEN [faults[i] EXCEPT !.count = @ + 1] ELSE faults[i]]
  BY DEF check_and_trigger
<1>3. \A i \in DOMAIN faults : struck(i) => faults[i].command = c BY DEF Striking
<1> HIDE DEF struck
<1>4. \A i \in DOMAIN faults : /\ faults'[i] \in Rules
                               /\ faults'[i].command = faults[i].command
                               /\ ~struck(i) => faults'[i] = faults[i]
  <2> TAKE i \in DOMAIN faults
  <2>1. faults[i] \in Rules BY <1>1
  <2>2. CASE struck(i)
    <3>1. faults'[i] = [faults[i] EXCEPT !.count = @ + 1] BY <1>2, <2>2
    <3>2. QED BY <2>1, <2>2, <3>1 DEF Rules
  <2>3. CASE ~struck(i) BY <2>1, <2>3, <1>2
  <2>4. QED BY <2>2, <2>3
<1>5. DOMAIN faults' = 1..Len(faults) BY <1>1, <1>2
<1>6. faults' \in Seq(Rules) /\ Len(faults') = Len(faults)
  <2>0. faults' = [i \in 1..Len(faults) |-> faults'[i]] BY <1>1, <1>2
  <2>1. faults' \in [1..Len(faults) -> Rules] BY <1>1, <1>4, <2>0
  <2>2. QED BY <1>1, <2>1
<1>7. \A i \in DOMAIN faults' : faults'[i].count > 0 => MayRun(faults'[i].command)
  <2> TAKE i \in DOMAIN faults'
  <2>1. i \in DOMAIN faults BY <1>1, <1>5
  <2>2. CASE struck(i)
    <3>1. faults'[i].command = c BY <1>3, <1>4, <2>1, <2>2
    <3>2. QED BY <3>1
  <2>3. CASE ~struck(i)
    <3>1. faults'[i] = faults[i] BY <1>4, <2>1, <2>3
    <3>2. faults[i].count > 0 => MayRun(faults[i].command) BY <2>1 DEF MapsInv
    <3>3. QED BY <3>1, <3>2
  <2>4. QED BY <2>2, <2>3
<1>8. OneEach(faults')
  <2>1. \A i, j \in DOMAIN faults : faults[i].command = faults[j].command => i = j
    BY DEF MapsInv, OneEach
  <2>2. DOMAIN faults' = DOMAIN faults BY <1>1, <1>5
  <2>3. QED BY <1>4, <2>1, <2>2 DEF OneEach
<1>9. Len(faults') <= MaxFaultRules BY <1>6 DEF MapsInv
<1>10. QED BY <1>6, <1>7, <1>8, <1>9, ConfigStands DEF MapsInv, OneEach

-----------------------------------------------------------------------------

(* Who may call at all: the two maps are changed on FullControl's tools. *)
LEMMA CallsAreTyped ==
    ASSUME NEW req \in Calls
    PROVE  /\ Stepwise(req) => req.command \in Commands
           /\ req.tool = "fault" /\ req.action = "inject" =>
                [command |-> req.command, kind |-> req.kind, count |-> 0, max |-> req.max] \in Rules
<1>1. CASE req \in Standalone(STANDALONE_TOOLS \ {"wait_for", "invoke_command", "verify_state"},
                              {"plain"}, {FALSE}, {NoCommand})
           \/ req \in Standalone({"wait_for"}, {"expression", "event", "log", "page"}, {FALSE},
                                {NoCommand})
  <2>1. req.tool \in STANDALONE_TOOLS \ {"invoke_command", "verify_state"}
        /\ req.action \in {"plain", "expression", "event", "log", "page"}
    BY <1>1 DEF Standalone, STANDALONE_TOOLS
  <2>2. QED BY <2>1 DEF Stepwise, STANDALONE_TOOLS
<1>2. CASE req \in Standalone({"invoke_command", "verify_state"}, {"plain"}, BOOLEAN, Commands)
  BY <1>2 DEF Standalone
<1>3. CASE \E t \in COMPOUND_TOOLS : \E a \in COMPOUND_ACTIONS[t] : req \in CompoundCalls(t, a)
  <2>1. PICK t \in COMPOUND_TOOLS : \E b \in COMPOUND_ACTIONS[t] : req \in CompoundCalls(t, b)
    BY <1>3
  <2>2. PICK a \in COMPOUND_ACTIONS[t] : req \in CompoundCalls(t, a)
    BY <2>1
  <2>3. /\ req.tool = t /\ req.action = a
        /\ a = "contract_record" \/ t = "fault" => req.command \in Commands
        /\ t = "fault" /\ a = "inject" => req.kind \in FaultKinds /\ req.max \in {0, 1}
    BY <2>2 DEF CompoundCalls
  <2>4. t \notin {"invoke_command", "verify_state"}
    BY <2>1 DEF COMPOUND_TOOLS, COMPOUND_ACTIONS
  <2>5. Stepwise(req) => req.command \in Commands BY <2>3, <2>4 DEF Stepwise
  <2>6. QED BY <2>3, <2>5 DEF Rules
<1>4. CASE req \in UNION {UNION {CompoundCalls(t, a) : a \in COMPOUND_ACTIONS[t]} : t \in COMPOUND_TOOLS}
  BY <1>3, <1>4
<1>5. QED BY <1>1, <1>2, <1>4 DEF Calls

LEMMA MoreIsBoolean ==
    ASSUME NEW req \in Calls, req.tool \in {"invoke_command", "verify_state"}
    PROVE  req.more \in BOOLEAN
<1>1. CASE req \in UNION {UNION {CompoundCalls(t, a) : a \in COMPOUND_ACTIONS[t]} : t \in COMPOUND_TOOLS}
  <2>1. PICK t \in COMPOUND_TOOLS : \E b \in COMPOUND_ACTIONS[t] : req \in CompoundCalls(t, b)
    BY <1>1
  <2>2. req.tool = t BY <2>1 DEF CompoundCalls
  <2>3. QED BY <2>1, <2>2 DEF COMPOUND_TOOLS, COMPOUND_ACTIONS
<1>2. QED BY <1>1 DEF Calls, Standalone

(* A call of several steps begins at its first. *)
LEMMA BeginStep ==
    ASSUME GateInv, NEW g \in Agents, NEW req \in Calls, Begin(g, req)
    PROVE  GateInv'
<1> DEFINE f == Following(Path(req))
           b == [f EXCEPT !.command = req.command]
<1>0. f = [path |-> Path(req), at |-> 1, command |-> NoCommand, todo |-> {},
           running |-> NoCommand, did |-> {}]
  <2>1. f = [path |-> Path(req), at |-> Free.at, command |-> Free.command,
             todo |-> Free.todo, running |-> Free.running, did |-> Free.did]
    BY FreeShape DEF Following
  <2>2. QED BY <2>1, FreeFields
<1> HIDE DEF f
<1>1. b = [path |-> Path(req), at |-> 1, command |-> req.command, todo |-> {},
           running |-> NoCommand, did |-> {}]
  BY <1>0
<1>2. Path(req) \in Paths
  <2>1. CASE req.tool = "invoke_command"
    <3>1. req.more \in BOOLEAN
      BY <2>1, MoreIsBoolean
    <3>2. QED BY <2>1, <3>1 DEF Path, Paths
  <2>2. CASE req.tool = "verify_state"
    <3>1. req.more \in BOOLEAN
      BY <2>2, MoreIsBoolean
    <3>2. QED BY <2>2, <3>1 DEF Path, Paths
  <2>3. CASE req.tool \notin {"invoke_command", "verify_state"}
    BY <2>3 DEF Path, Paths
  <2>4. QED BY <2>1, <2>2, <2>3
<1>3. req.command \in Commands BY CallsAreTyped DEF Begin
<1> HIDE DEF b
<1>4. CallInv(b)
  <2>1. /\ b.path \in Paths /\ b.at = 1 /\ b.command \in Commands
        /\ b.running = NoCommand /\ b.did = {} /\ b.todo = {}
    BY <1>1, <1>2, <1>3
  <2>2. \A j \in DOMAIN b.path : ~(j < b.at)
    <3> TAKE j \in DOMAIN b.path
    <3>1. j \in 1..Len(b.path) /\ Len(b.path) \in 0..5 BY <2>1, PathFacts
    <3>2. QED BY <2>1, <3>1
  <2>3. b = [path |-> b.path, at |-> b.at, command |-> b.command, todo |-> b.todo,
             running |-> b.running, did |-> b.did]
    BY <1>1
  <2>4. QED BY <2>1, <2>2, <2>3 DEF CallInv
<1>5. config' = config /\ doing' = doing /\ UNCHANGED <<faults, baselines>> BY DEF Begin
<1>6. BusyIs(g, b) BY DEF Begin, BusyIs, b, f
<1>7. QED BY <1>4, <1>5, <1>6, OneCallChanges, MapsStand DEF GateInv

(* A call of one step. *)
LEMMA PerformStep ==
    ASSUME GateInv, NEW g \in Agents, NEW req \in Calls, NEW todo, Perform(g, req, todo),
           config' = config, MapsInv'
    PROVE  GateInv'
<1> DEFINE b == [Free EXCEPT !.todo = todo]
<1>1. b = [path |-> <<>>, at |-> 1, command |-> NoCommand, todo |-> todo,
           running |-> NoCommand, did |-> {}]
  <2>1. b = [path |-> Free.path, at |-> Free.at, command |-> Free.command,
             todo |-> todo, running |-> Free.running, did |-> Free.did]
    BY FreeShape
  <2>2. QED BY <2>1, FreeFields
<1>2. BusyIs(g, b) BY DEF Perform, BusyIs
<1> HIDE DEF b
<1>3. CallInv(b)
  <2>1. DOMAIN b.path = {} /\ b.path = <<>> BY <1>1
  <2>2. QED BY <1>1, <2>1 DEF CallInv, Paths
<1>4. doing'.does = dispatch_tool(req).does \ {"invoke"} /\ ~doing'.refused
  BY DEF Perform, Quiet
<1>5. \A e \in doing'.does : Clean(e)
  BY <1>4, EffectsAreClean DEF Perform, GateInv
<1>6. QED BY <1>2, <1>3, <1>4, <1>5, OneCallChanges

LEMMA ToolCallStep ==
    ASSUME GateInv, NEW g \in Agents, NEW req \in Calls, execute_tool(g, req)
    PROVE  GateInv'
<1> USE DEF GateInv
<1>1. CASE Refuse(g, req)
  <2>1. /\ config' = config /\ busy' = busy /\ UNCHANGED <<faults, baselines>>
        /\ doing'.does = {} /\ doing'.did = {}
    BY <1>1 DEF Refuse, Quiet
  <2>2. \A f \in Agents : CallInv(busy[f])' BY <2>1, ConfigStands
  <2>3. QED BY <2>1, <2>2, MapsStand
<1>2. CASE Begin(g, req) BY <1>2, BeginStep
<1>3. CASE \/ Replay(g, req) \/ Contract(g, req) \/ SessionChange(g, req) \/ OtherCall(g, req)
  <2>1. config' = config /\ UNCHANGED <<faults, baselines>> /\ \E todo : Perform(g, req, todo)
    BY <1>3 DEF Replay, Contract, SessionChange, OtherCall
  <2>2. QED BY <2>1, PerformStep, MapsStand
<1>4. CASE FaultChange(g, req)
  <2>1. config' = config /\ UNCHANGED baselines /\ Perform(g, req, {}) /\ req.tool = "fault"
    BY <1>4 DEF FaultChange
  <2>2. MapsInv'
    <3>1. CASE req.action = "inject"
      <4> DEFINE rule == [command |-> req.command, kind |-> req.kind, count |-> 0,
                          max |-> req.max]
      <4>1. rule \in Rules /\ rule.count = 0 BY <2>1, <3>1, CallsAreTyped
      <4>2. faults' = Put(faults, rule, MaxFaultRules)
        BY <1>4, <3>1 DEF FaultChange, inject_fault
      <4>3. QED BY <4>1, <4>2, <2>1, RulePut
    <3>2. CASE req.action = "list"
      BY <1>4, <2>1, <3>2, MapsStand DEF FaultChange
    <3>3. CASE req.action = "clear"
      <4>1. faults' = Others(faults, req.command) BY <1>4, <3>3 DEF FaultChange
      <4>2. /\ faults' \in Seq(Rules) /\ Len(faults') <= Len(faults) /\ OneEach(faults')
            /\ \A i \in DOMAIN faults' : \E j \in DOMAIN faults : faults'[i] = faults[j]
        BY <4>1, OthersFacts DEF MapsInv
      <4>3. \A i \in DOMAIN faults' : faults'[i].count > 0 => MayRun(faults'[i].command)
        BY <4>2 DEF MapsInv
      <4>4. Len(faults') <= MaxFaultRules
        BY <4>2, ToolGateAssumption DEF MapsInv
      <4>5. QED BY <2>1, <4>2, <4>3, <4>4, ConfigStands DEF MapsInv, OneEach
    <3>4. CASE req.action = "clear_all"
      <4>1. faults' = <<>> BY <1>4, <3>4 DEF FaultChange
      <4>2. QED BY <2>1, <4>1, ConfigStands, ToolGateAssumption DEF MapsInv, OneEach
    <3>5. req.action \in {"inject", "list", "clear", "clear_all"}
      <4>1. ~Refused(req) /\ ~Stepwise(req) /\ config.profile \in Profiles
        BY <2>1 DEF Perform
      <4>2. "fault" \in COMPOUND_TOOLS
            /\ COMPOUND_ACTIONS["fault"] = {"inject", "list", "clear", "clear_all"}
        BY DEF COMPOUND_TOOLS, COMPOUND_ACTIONS
      <4>3. req.action \in COMPOUND_ACTIONS[req.tool] BY <2>1, <4>1, <4>2, GateOpens
      <4>4. QED BY <2>1, <4>2, <4>3
    <3>6. QED BY <3>1, <3>2, <3>3, <3>4, <3>5
  <2>3. QED BY <2>1, <2>2, PerformStep
<1>5. CASE ContractClear(g, req)
  <2>1. config' = config /\ UNCHANGED faults /\ Perform(g, req, {}) /\ baselines' = <<>>
    BY <1>5 DEF ContractClear
  <2>2. MapsInv' BY <2>1, ConfigStands, ToolGateAssumption DEF MapsInv, OneEach
  <2>3. QED BY <2>1, <2>2, PerformStep
<1>6. QED BY <1>1, <1>2, <1>3, <1>4, <1>5 DEF execute_tool

-----------------------------------------------------------------------------

(* Where a call stands and what it has been told. *)
LEMMA WhereItStands ==
    ASSUME GateInv, NEW g \in Agents, NEW stmt, NextIs(g, stmt)
    PROVE  LET b == busy[g]
           IN /\ b = [path |-> b.path, at |-> b.at, command |-> b.command, todo |-> b.todo,
                      running |-> b.running, did |-> b.did]
              /\ b.path \in Paths /\ b.at \in DOMAIN b.path /\ b.path[b.at] = stmt
              /\ b.at \in Nat \ {0} /\ DOMAIN b.path \subseteq Nat
              /\ b.command \in Commands /\ b.running = NoCommand /\ b.todo = {}
              /\ \A j \in DOMAIN b.path :
                   j < b.at /\ b.path[j] \in Checks => Allowed(b.path[j], b.command)
              /\ stmt \in Preliminary => b.did \subseteq {"code"}
              /\ stmt \in {"fault", "run", "store"} => MayRun(b.command)
              /\ stmt = "code" => is_tool_enabled(<<"eval_js">>)
              /\ stmt = "attach" => is_call_allowed("logs", <<"logs", "backend">>)
              /\ stmt = "store" => is_tool_enabled(<<"introspect">>)
<1> DEFINE b == busy[g]
<1>1. CallInv(b) BY DEF GateInv
<1>2. b.at <= Len(b.path) /\ b.path[b.at] = stmt /\ b.running = NoCommand
  BY DEF NextIs
<1> HIDE DEF b
<1>3. b.path \in Paths /\ b.at \in Nat \ {0} BY <1>1 DEF CallInv
<1>4. b.path # <<>> BY <1>2, <1>3
<1>5. DOMAIN b.path = 1..Len(b.path) /\ Len(b.path) \in Nat
  BY <1>3, <1>4 DEF Paths, invoke_command, verify_state, contract_record
<1>6. b.at \in DOMAIN b.path BY <1>2, <1>3, <1>5
<1>7. b.command \in Commands /\ b.todo = {} BY <1>1, <1>4 DEF CallInv
<1>8. \A j \in DOMAIN b.path :
        j < b.at /\ b.path[j] \in Checks => Allowed(b.path[j], b.command)
  BY <1>1 DEF CallInv
<1>9. stmt \in Preliminary => b.did \subseteq {"code"}
  BY <1>1, <1>2, <1>6 DEF CallInv
<1>10. /\ stmt \in {"fault", "run", "store"} => MayRun(b.command)
       /\ stmt = "code" => is_tool_enabled(<<"eval_js">>)
       /\ stmt = "attach" => is_call_allowed("logs", <<"logs", "backend">>)
       /\ stmt = "store" => is_tool_enabled(<<"introspect">>)
  <2> DEFINE told(check) == \E j \in DOMAIN b.path : j < b.at /\ b.path[j] = check
  <2>1. /\ stmt \in {"fault", "run", "store"} => told("lists")
        /\ stmt = "code" => told("eval_js")
        /\ stmt = "attach" => told("logs")
        /\ stmt = "store" => told("introspect")
    BY <1>2, <1>3, <1>6, PathFacts
  <2>2. \A check \in Checks : told(check) => Allowed(check, b.command) BY <1>8
  <2> HIDE DEF told
  <2>3. Allowed("lists", b.command) => MayRun(b.command) BY DEF Allowed
  <2>4. Allowed("eval_js", b.command) => is_tool_enabled(<<"eval_js">>) BY DEF Allowed
  <2>5. Allowed("logs", b.command) => is_call_allowed("logs", <<"logs", "backend">>)
    BY DEF Allowed
  <2>6. Allowed("introspect", b.command) => is_tool_enabled(<<"introspect">>) BY DEF Allowed
  <2>7. {"lists", "eval_js", "logs", "introspect"} \subseteq Checks BY DEF Checks
  <2>8. QED BY <2>1, <2>2, <2>3, <2>4, <2>5, <2>6, <2>7
<1>11. b = [path |-> b.path, at |-> b.at, command |-> b.command, todo |-> b.todo,
            running |-> b.running, did |-> b.did]
  BY <1>1 DEF CallInv
<1>12. DOMAIN b.path \subseteq Nat BY <1>5
<1>13. QED BY <1>2, <1>3, <1>6, <1>7, <1>8, <1>9, <1>10, <1>11, <1>12 DEF b

(* A call that goes on past one stmt, having done it. *)
LEMMA GoesOn ==
    ASSUME GateInv, NEW g \in Agents, NEW stmt, NextIs(g, stmt),
           stmt \in Checks => Allowed(stmt, busy[g].command),
           NEW did, did \subseteq busy[g].did \cup {"code"} \/ stmt \notin Preliminary
    PROVE  CallInv(Onward([busy[g] EXCEPT !.did = did], 1))
<1> DEFINE b == busy[g]
           c == [b EXCEPT !.did = did]
<1>1. /\ b = [path |-> b.path, at |-> b.at, command |-> b.command, todo |-> b.todo,
              running |-> b.running, did |-> b.did]
      /\ b.path \in Paths /\ b.at \in DOMAIN b.path /\ b.path[b.at] = stmt
      /\ b.at \in Nat \ {0} /\ DOMAIN b.path \subseteq Nat
      /\ b.command \in Commands /\ b.running = NoCommand /\ b.todo = {}
      /\ \A j \in DOMAIN b.path :
           j < b.at /\ b.path[j] \in Checks => Allowed(b.path[j], b.command)
      /\ stmt \in Preliminary => b.did \subseteq {"code"}
  BY WhereItStands
<1>2. stmt \in Checks => Allowed(stmt, b.command) OBVIOUS
<1>3. did \subseteq b.did \cup {"code"} \/ stmt \notin Preliminary OBVIOUS
<1> HIDE DEF b
<1>4. c = [path |-> b.path, at |-> b.at, command |-> b.command, todo |-> b.todo,
           running |-> b.running, did |-> did]
  BY <1>1
<1> HIDE DEF c
<1>5. \A j \in DOMAIN c.path :
        j < c.at + 1 /\ c.path[j] \in Checks => Allowed(c.path[j], c.command)
  <2>1. \A j \in DOMAIN b.path : j < b.at + 1 => j < b.at \/ j = b.at BY <1>1
  <2>2. QED BY <1>1, <1>2, <1>4, <2>1
<1>6. c.at + 1 \in DOMAIN c.path /\ c.path[c.at + 1] \in Preliminary => c.did \subseteq {"code"}
  BY <1>1, <1>3, <1>4, PathFacts
<1>7. c = [path |-> c.path, at |-> c.at, command |-> c.command, todo |-> c.todo,
           running |-> c.running, did |-> c.did]
      /\ c.path \in Paths /\ c.at \in DOMAIN c.path /\ c.command \in Commands
      /\ c.running = NoCommand /\ c.todo = {}
  BY <1>1, <1>4
<1>8. CallInv(Onward(c, 1)) BY <1>5, <1>6, <1>7, OnwardStep
<1>9. QED BY <1>8 DEF c, b

LEMMA AsksStep ==
    ASSUME GateInv, NEW g \in Agents, NEW check \in Checks, Asks(g, check)
    PROVE  GateInv'
<1> DEFINE b == busy[g]
<1>1. NextIs(g, check) /\ config' = config /\ UNCHANGED <<faults, baselines>>
  BY DEF Asks
<1>2. MapsInv' BY <1>1, MapsStand DEF GateInv
<1>3. /\ b = [path |-> b.path, at |-> b.at, command |-> b.command, todo |-> b.todo,
              running |-> b.running, did |-> b.did]
      /\ check \in Preliminary => b.did \subseteq {"code"}
  BY <1>1, WhereItStands
<1> HIDE DEF b
<1>4. CASE Allowed(check, b.command)
  <2>1. BusyIs(g, Onward(b, 1)) /\ doing' = doing BY <1>4 DEF Asks, b
  <2>2. [b EXCEPT !.did = b.did] = b BY <1>3
  <2>3. CallInv(Onward(b, 1)) BY <1>1, <1>4, <2>2, GoesOn DEF b
  <2>4. QED BY <1>1, <1>2, <2>1, <2>3, OneCallChanges DEF GateInv
<1>5. CASE ~Allowed(check, b.command)
  <2>1. BusyIs(g, Free) /\ doing' = [Quiet EXCEPT !.refused = TRUE, !.did = b.did]
    BY <1>5 DEF Asks, b
  <2>2. doing'.does = {} /\ doing'.did = b.did BY <2>1 DEF Quiet
  <2>3. doing'.did \subseteq {"code"} BY <1>3, <2>2 DEF Preliminary
  <2>4. \A e \in doing'.does : Clean(e) BY <2>2
  <2>5. QED BY <1>1, <1>2, <2>1, <2>3, <2>4, FreeIsFine, OneCallChanges
<1>6. QED BY <1>4, <1>5

LEMMA EvaluatesStep ==
    ASSUME GateInv, NEW g \in Agents, NEW ok \in BOOLEAN, Evaluates(g, ok)
    PROVE  GateInv'
<1> DEFINE b == IF ok THEN Onward(Having(busy[g], "code"), 1) ELSE Free
<1>1. /\ NextIs(g, "code") /\ config' = config /\ UNCHANGED <<faults, baselines>>
      /\ BusyIs(g, b) /\ doing' = [Quiet EXCEPT !.does = {"code"}]
  BY DEF Evaluates
<1>2. CallInv(b)
  <2>1. CallInv(Onward(Having(busy[g], "code"), 1)) BY <1>1, GoesOn DEF Having, Checks
  <2>2. QED BY <2>1, FreeIsFine
<1> HIDE DEF b
<1>3. Clean("code") BY <1>1, WhereItStands, WhatIsClean DEF GateInv
<1>4. (\A e \in doing'.does : Clean(e)) /\ ~doing'.refused BY <1>1, <1>3, QuietIsFine
<1>5. MapsInv' BY <1>1, MapsStand DEF GateInv
<1>6. QED BY <1>1, <1>2, <1>4, <1>5, OneCallChanges

LEMMA MeetsFaultStep ==
    ASSUME GateInv, NEW g \in Agents, MeetsFault(g)
    PROVE  GateInv'
<1> DEFINE struck == Striking(busy[g].command)
           b == IF struck = {} THEN busy[g] ELSE Having(busy[g], "spent")
           d == IF struck = {} THEN busy[g].did ELSE busy[g].did \cup {"spent"}
<1>1. /\ NextIs(g, "fault") /\ config' = config /\ doing' = doing
      /\ UNCHANGED baselines /\ check_and_trigger(busy[g].command)
      /\ BusyIs(g, Onward(b, 1)) \/ BusyIs(g, Onward(b, 2))
  BY DEF MeetsFault
<1>2. LET a == busy[g]
      IN /\ a = [path |-> a.path, at |-> a.at, command |-> a.command, todo |-> a.todo,
                 running |-> a.running, did |-> a.did]
         /\ a.path \in Paths /\ a.at \in DOMAIN a.path /\ a.path[a.at] = "fault"
         /\ a.at \in Nat \ {0} /\ DOMAIN a.path \subseteq Nat
         /\ a.command \in Commands /\ a.running = NoCommand /\ a.todo = {}
         /\ \A j \in DOMAIN a.path :
              j < a.at /\ a.path[j] \in Checks => Allowed(a.path[j], a.command)
         /\ MayRun(a.command)
  BY <1>1, WhereItStands
<1>3. MapsInv' BY <1>1, <1>2, Triggered DEF GateInv
<1>4. b = [busy[g] EXCEPT !.did = d]
  BY <1>2 DEF Having
<1> HIDE DEF struck, b, d
<1>5. CallInv(Onward(b, 1))
  BY <1>1, <1>4, GoesOn DEF Checks, Preliminary
<1>6. CallInv(Onward(b, 2))
  <2> DEFINE a == busy[g]
  <2>1. b = [path |-> a.path, at |-> a.at, command |-> a.command, todo |-> a.todo,
             running |-> a.running, did |-> d]
    BY <1>2, <1>4
  <2>2. /\ b.path = a.path /\ b.at = a.at /\ b.command = a.command
        /\ b.running = NoCommand /\ b.did = d /\ b.todo = {}
        /\ b = [path |-> b.path, at |-> b.at, command |-> b.command, todo |-> b.todo,
                running |-> b.running, did |-> b.did]
    BY <1>2, <2>1
  <2>3. b.at + 2 \in DOMAIN b.path => b.path[b.at + 2] \notin Preliminary
    BY <1>2, <2>2, PathFacts
  <2>4. \A j \in DOMAIN b.path :
          j < b.at + 2 /\ b.path[j] \in Checks => Allowed(b.path[j], b.command)
    <3> TAKE j \in DOMAIN b.path
    <3>1. j \in Nat /\ b.at \in Nat BY <1>2, <2>2
    <3>2. CASE j < b.at BY <1>2, <2>2, <3>2
    <3>3. CASE j = b.at BY <1>2, <2>2, <3>3 DEF Checks
    <3>4. CASE j = b.at + 1
      <4>1. b.path[j] \in Preliminary => b.path[b.at] \in Preliminary
        BY <1>2, <2>2, <3>4, PathFacts
      <4>2. b.path[j] \notin Checks BY <1>2, <2>2, <4>1 DEF Preliminary, Checks
      <4>3. QED BY <4>2
    <3>5. QED BY <3>1, <3>2, <3>3, <3>4
  <2>5. b.path \in Paths /\ b.at \in DOMAIN b.path /\ b.command \in Commands
    BY <1>2, <2>2
  <2>6. QED BY <2>2, <2>3, <2>4, <2>5, OnwardStep
<1>7. (\A e \in doing'.does : Clean(e)) /\ (doing'.refused => doing'.did \subseteq {"code"})
  BY <1>1 DEF GateInv
<1>8. QED BY <1>1, <1>3, <1>5, <1>6, <1>7, OneCallChanges

LEMMA SendsCommandStep ==
    ASSUME GateInv, NEW g \in Agents, SendsCommand(g)
    PROVE  GateInv'
<1> DEFINE a == busy[g]
           h == Having(a, "ran")
           b == Running(h, a.command)
<1>1. /\ NextIs(g, "run") /\ config' = config /\ UNCHANGED <<faults, baselines>>
      /\ BusyIs(g, b) /\ doing' = [Quiet EXCEPT !.does = {"invoke"}]
  BY DEF SendsCommand
<1>2. /\ a = [path |-> a.path, at |-> a.at, command |-> a.command, todo |-> a.todo,
              running |-> a.running, did |-> a.did]
      /\ a.path \in Paths /\ a.at \in DOMAIN a.path /\ a.path[a.at] = "run"
      /\ a.at \in Nat \ {0} /\ a.command \in Commands /\ a.todo = {}
      /\ \A j \in DOMAIN a.path :
           j < a.at /\ a.path[j] \in Checks => Allowed(a.path[j], a.command)
      /\ MayRun(a.command)
  BY <1>1, WhereItStands
<1> HIDE DEF a
<1>3. h = [path |-> a.path, at |-> a.at, command |-> a.command, todo |-> a.todo,
           running |-> a.running, did |-> a.did \cup {"ran"}]
  BY <1>2 DEF Having
<1> HIDE DEF h
<1>4. b = [path |-> a.path, at |-> a.at, command |-> a.command, todo |-> a.todo,
           running |-> a.command, did |-> a.did \cup {"ran"}]
  BY <1>3 DEF Running
<1> HIDE DEF b
<1>5. CallInv(b)
  <2>1. /\ b = [path |-> b.path, at |-> b.at, command |-> b.command, todo |-> b.todo,
                running |-> b.running, did |-> b.did]
        /\ b.path = a.path /\ b.at = a.at /\ b.command = a.command /\ b.running = a.command
        /\ b.todo = {}
    BY <1>2, <1>4
  <2>2. b.path[b.at] \notin Preliminary BY <1>2, <2>1 DEF Preliminary, Checks
  <2>3. QED BY <1>2, <2>1, <2>2 DEF CallInv
<1>6. Clean("invoke") BY <1>2, InvokeIsClean DEF GateInv
<1>7. (\A e \in doing'.does : Clean(e)) /\ ~doing'.refused BY <1>1, <1>6, QuietIsFine
<1>8. MapsInv' BY <1>1, MapsStand DEF GateInv
<1>9. QED BY <1>1, <1>5, <1>7, <1>8, OneCallChanges

LEMMA AttachesStep ==
    ASSUME GateInv, NEW g \in Agents, Attaches(g)
    PROVE  GateInv'
<1> DEFINE b == busy[g]
<1>1. /\ NextIs(g, "attach") /\ config' = config /\ UNCHANGED <<faults, baselines>>
      /\ BusyIs(g, Onward(b, 1)) /\ doing' = [Quiet EXCEPT !.does = {"logs"}]
  BY DEF Attaches
<1>2. /\ b = [path |-> b.path, at |-> b.at, command |-> b.command, todo |-> b.todo,
              running |-> b.running, did |-> b.did]
      /\ is_call_allowed("logs", <<"logs", "backend">>)
  BY <1>1, WhereItStands
<1>3. Clean("logs")
  <2>1. <<"logs">> \notin config.disabled /\ is_tool_enabled(<<"logs", "backend">>)
    BY <1>2 DEF is_call_allowed
  <2>2. <<"logs", "backend">> \notin config.disabled
    BY <2>1 DEF is_tool_enabled, is_disabled
  <2>3. QED BY <2>1, <2>2, WhatIsClean DEF GateInv
<1> HIDE DEF b
<1>4. CallInv(Onward(b, 1))
  <2>1. [b EXCEPT !.did = b.did] = b BY <1>2
  <2>2. QED BY <1>1, <2>1, GoesOn DEF b, Checks
<1>5. (\A e \in doing'.does : Clean(e)) /\ ~doing'.refused BY <1>1, <1>3, QuietIsFine
<1>6. MapsInv' BY <1>1, MapsStand DEF GateInv
<1>7. QED BY <1>1, <1>4, <1>5, <1>6, OneCallChanges

LEMMA StoresStep ==
    ASSUME GateInv, NEW g \in Agents, Stores(g)
    PROVE  GateInv'
<1> DEFINE b == Having(busy[g], "stored")
<1>1. /\ NextIs(g, "store") /\ config' = config /\ UNCHANGED faults
      /\ BusyIs(g, Onward(b, 1)) /\ doing' = [Quiet EXCEPT !.does = {"contracts"}]
      /\ record_baseline(busy[g].command)
  BY DEF Stores
<1>2. /\ busy[g].command \in Commands /\ MayRun(busy[g].command)
      /\ is_tool_enabled(<<"introspect">>)
  BY <1>1, WhereItStands
<1>3. Clean("contracts")
  <2>1. <<"introspect">> \in FullOnly BY DEF FullOnly, Bare
  <2>2. config.profile = "FullControl" BY <1>2, <2>1, EnabledIsAllowed DEF GateInv
  <2>3. QED BY <2>2, WhatIsClean DEF GateInv
<1>4. CallInv(Onward(b, 1))
  <2>1. b = [busy[g] EXCEPT !.did = busy[g].did \cup {"stored"}] BY DEF Having
  <2>2. QED BY <1>1, <2>1, GoesOn DEF Checks, Preliminary
<1> HIDE DEF b
<1>5. (\A e \in doing'.does : Clean(e)) /\ ~doing'.refused BY <1>1, <1>3, QuietIsFine
<1>6. MapsInv' BY <1>1, <1>2, BaselinePut DEF GateInv
<1>7. QED BY <1>1, <1>4, <1>5, <1>6, OneCallChanges

(* A replay and a contract check, whose commands are not the caller's. *)
LEMMA CommandStep ==
    ASSUME GateInv, NEW g \in Agents, NEW c \in Commands,
           RunCommand(g, c) \/ SkipCommand(g, c)
    PROVE  GateInv'
<1> DEFINE a == busy[g]
<1>1. CallInv(a) /\ config' = config /\ UNCHANGED <<faults, baselines>>
  BY DEF GateInv, RunCommand, SkipCommand
<1>2. a = [path |-> a.path, at |-> a.at, command |-> a.command, todo |-> a.todo,
           running |-> a.running, did |-> a.did]
  BY <1>1 DEF CallInv
<1>3. MapsInv' BY <1>1, MapsStand DEF GateInv
<1>4. CASE RunCommand(g, c)
  <2> DEFINE r == Running(a, c)
             b == [r EXCEPT !.todo = @ \ {c}]
  <2>1. /\ MayRun(c) /\ BusyIs(g, b) /\ doing' = [Quiet EXCEPT !.does = {"invoke"}]
        /\ a.path = <<>>
    BY <1>1, <1>4 DEF RunCommand, CallInv
  <2> HIDE DEF a
  <2>2. r = [path |-> a.path, at |-> a.at, command |-> a.command, todo |-> a.todo,
             running |-> c, did |-> a.did]
    BY <1>2 DEF Running
  <2> HIDE DEF r
  <2>3. b = [path |-> a.path, at |-> a.at, command |-> a.command, todo |-> a.todo \ {c},
             running |-> c, did |-> a.did]
    BY <2>2
  <2> HIDE DEF b
  <2>4. /\ b = [path |-> b.path, at |-> b.at, command |-> b.command, todo |-> b.todo,
                running |-> b.running, did |-> b.did]
        /\ b.path = a.path /\ b.at = a.at /\ b.command = a.command /\ b.running = c
        /\ b.did = a.did
    BY <2>3
  <2>5. CallInv(b) BY <1>1, <2>1, <2>4 DEF CallInv
  <2>6. Clean("invoke") BY <2>1, InvokeIsClean DEF GateInv
  <2>7. (\A e \in doing'.does : Clean(e)) /\ ~doing'.refused BY <2>1, <2>6, QuietIsFine
  <2>8. QED BY <1>1, <1>3, <2>1, <2>5, <2>7, OneCallChanges
<1>5. CASE SkipCommand(g, c)
  <2> DEFINE b == [a EXCEPT !.todo = @ \ {c}]
  <2>1. BusyIs(g, b) /\ doing' = doing /\ a.path = <<>>
    BY <1>1, <1>5 DEF SkipCommand, CallInv
  <2> HIDE DEF a
  <2>2. b = [path |-> a.path, at |-> a.at, command |-> a.command, todo |-> a.todo \ {c},
             running |-> a.running, did |-> a.did]
    BY <1>2
  <2> HIDE DEF b
  <2>3. /\ b = [path |-> b.path, at |-> b.at, command |-> b.command, todo |-> b.todo,
                running |-> b.running, did |-> b.did]
        /\ b.path = a.path /\ b.at = a.at /\ b.command = a.command
        /\ b.running = a.running /\ b.did = a.did
    BY <2>2
  <2>4. CallInv(b) BY <1>1, <2>1, <2>3 DEF CallInv
  <2>5. QED BY <1>1, <1>3, <2>1, <2>4, OneCallChanges DEF GateInv
<1>6. QED BY <1>4, <1>5

LEMMA AnswerStep ==
    ASSUME GateInv, NEW g \in Agents, NEW ok \in BOOLEAN, CommandAnswers(g, ok)
    PROVE  GateInv'
<1> DEFINE a == busy[g]
           b == Running(a, NoCommand)
<1>1. /\ CallInv(a) /\ a.running # NoCommand /\ doing' = doing
      /\ config' = config /\ UNCHANGED <<faults, baselines>>
      /\ \/ BusyIs(g, b) \/ BusyIs(g, Free)
         \/ b.path # <<>> /\ BusyIs(g, Onward(b, 1))
  BY DEF GateInv, CommandAnswers
<1> HIDE DEF a
<1>2. a = [path |-> a.path, at |-> a.at, command |-> a.command, todo |-> a.todo,
           running |-> a.running, did |-> a.did]
  BY <1>1 DEF CallInv
<1>3. b = [path |-> a.path, at |-> a.at, command |-> a.command, todo |-> a.todo,
           running |-> NoCommand, did |-> a.did]
  BY <1>2 DEF Running
<1> HIDE DEF b
<1>4. /\ b = [path |-> b.path, at |-> b.at, command |-> b.command, todo |-> b.todo,
              running |-> b.running, did |-> b.did]
      /\ b.path = a.path /\ b.at = a.at /\ b.command = a.command
      /\ b.running = NoCommand /\ b.did = a.did /\ b.todo = a.todo
  BY <1>3
<1>5. MapsInv' BY <1>1, MapsStand DEF GateInv
<1>6. (\A e \in doing'.does : Clean(e)) /\ (doing'.refused => doing'.did \subseteq {"code"})
  BY <1>1 DEF GateInv
<1>7. CASE BusyIs(g, b)
  <2>1. CallInv(b) BY <1>1, <1>4 DEF CallInv
  <2>2. QED BY <1>1, <1>5, <1>6, <1>7, <2>1, OneCallChanges
<1>8. CASE BusyIs(g, Free)
  BY <1>1, <1>5, <1>6, <1>8, FreeIsFine, OneCallChanges
<1>9. CASE b.path # <<>> /\ BusyIs(g, Onward(b, 1))
  <2>1. /\ b.path \in Paths /\ b.at \in DOMAIN b.path /\ b.path[b.at] = "run"
        /\ b.command \in Commands /\ b.todo = {}
        /\ \A j \in DOMAIN b.path :
             j < b.at /\ b.path[j] \in Checks => Allowed(b.path[j], b.command)
    BY <1>1, <1>4, <1>9 DEF CallInv
  <2>2. "run" \notin Preliminary BY DEF Preliminary, Checks
  <2>3. b.at + 1 \in DOMAIN b.path => b.path[b.at + 1] \notin Preliminary
    BY <2>1, <2>2, PathFacts
  <2>4. \A j \in DOMAIN b.path :
          j < b.at + 1 /\ b.path[j] \in Checks => Allowed(b.path[j], b.command)
    <3> TAKE j \in DOMAIN b.path
    <3>1. j \in Nat /\ b.at \in Nat BY <2>1, PathFacts
    <3>2. CASE j = b.at BY <2>1, <2>2, <3>2 DEF Preliminary
    <3>3. QED BY <2>1, <3>1, <3>2
  <2>5. CallInv(Onward(b, 1)) BY <1>4, <2>1, <2>3, <2>4, OnwardStep
  <2>6. QED BY <1>1, <1>5, <1>6, <1>9, <2>5, OneCallChanges
<1>10. QED BY <1>1, <1>7, <1>8, <1>9

LEMMA GateStart == ASSUME GateInit PROVE GateInv
<1>1. config.profile \in Profiles
  BY DEF GateInit, build_privacy_config, Profiles
<1>2. /\ \A e \in doing.does : Clean(e)
      /\ doing.refused => doing.did \subseteq {"code"}
  BY DEF GateInit, Quiet
<1>3. DOMAIN busy = Agents /\ \A g \in Agents : busy[g] = Free BY DEF GateInit
<1>4. MapsInv BY ToolGateAssumption DEF GateInit, MapsInv, OneEach
<1>5. QED BY <1>1, <1>2, <1>3, <1>4, FreeIsFine DEF GateInv

LEMMA GateStep == ASSUME GateInv, [GateNext]_gateVars PROVE GateInv'
<1>1. CASE StepEnds \/ FaultExpires \/ UNCHANGED gateVars
  <2>1. config' = config /\ busy' = busy /\ (doing' = doing \/ doing' = Quiet)
    BY <1>1 DEF StepEnds, FaultExpires, gateVars
  <2>2. /\ \A e \in doing'.does : Clean(e)
        /\ doing'.refused => doing'.did \subseteq {"code"}
    BY <2>1, QuietIsFine DEF GateInv
  <2>3. MapsInv'
    <3>1. CASE FaultExpires
      <4>1. faults # <<>> /\ faults' = Tail(faults) /\ UNCHANGED baselines
        BY <3>1 DEF FaultExpires
      <4>2. faults \in Seq(Rules) /\ OneEach(faults) /\ Len(faults) <= MaxFaultRules
            /\ \A i \in DOMAIN faults : faults[i].count > 0 => MayRun(faults[i].command)
        BY DEF GateInv, MapsInv
      <4>3. /\ faults' \in Seq(Rules) /\ Len(faults') = Len(faults) - 1 /\ OneEach(faults')
            /\ \A i \in DOMAIN faults' : i + 1 \in DOMAIN faults /\ faults'[i] = faults[i + 1]
        BY <4>1, <4>2, TailFacts
      <4>4. \A i \in DOMAIN faults' : faults'[i].count > 0 => MayRun(faults'[i].command)
        BY <4>2, <4>3
      <4>5. Len(faults') <= MaxFaultRules BY <4>2, <4>3, ToolGateAssumption
      <4>6. QED BY <2>1, <4>1, <4>3, <4>4, <4>5, ConfigStands DEF GateInv, MapsInv, OneEach
    <3>2. CASE UNCHANGED <<faults, baselines>> BY <2>1, <3>2, MapsStand DEF GateInv
    <3>3. QED BY <1>1, <3>1, <3>2 DEF StepEnds, gateVars
  <2>4. \A f \in Agents : CallInv(busy[f])' BY <2>1, ConfigStands DEF GateInv
  <2>5. QED BY <2>1, <2>2, <2>3, <2>4, ConfigStands DEF GateInv
<1>2. CASE GateNext
  BY <1>1, <1>2, ToolCallStep, AsksStep, EvaluatesStep, MeetsFaultStep, SendsCommandStep,
     AttachesStep, StoresStep, CommandStep, AnswerStep DEF GateNext
<1>3. QED BY <1>1, <1>2

(* Whatever is disabled, blocked or allowed under any profile, and however *)
(* many agents call at once, no tool has an effect that the operator ruled *)
(* out under the name of another one, and no command runs that the lists   *)
(* refuse, whether invoked, verified, replayed or recorded as a contract.  *)
THEOREM NoSideDoorsAlways == GateSpec => []NoSideDoors
<1>1. ASSUME GateInv PROVE NoSideDoors
  <2>1. \A g \in Agents : busy[g].running # NoCommand => MayRun(busy[g].running)
    BY <1>1 DEF GateInv, CallInv
  <2>2. QED BY <1>1, <2>1 DEF GateInv, NoSideDoors, Clean, MayRun, is_invoke_allowed,
               is_command_allowed, Profiles
<1>2. GateInit => GateInv BY GateStart
<1>3. GateInv /\ [GateNext]_gateVars => GateInv' BY GateStep
<1>4. QED BY <1>1, <1>2, <1>3, PTL DEF GateSpec

(* A call that is refused has changed nothing by then, however many agents  *)
(* call, inject and clear in between; triggers are spent, and contracts     *)
(* kept, only of commands the lists admit; and the two maps stay within any *)
(* caps, with one entry a command.                                          *)
THEOREM RefusalsComeFirstAlways == GateSpec => []RefusalsComeFirst
<1>1. ASSUME GateInv PROVE RefusalsComeFirst
  BY <1>1 DEF GateInv, MapsInv, OneEach, RefusalsComeFirst
<1>2. GateInit => GateInv BY GateStart
<1>3. GateInv /\ [GateNext]_gateVars => GateInv' BY GateStep
<1>4. QED BY <1>1, <1>2, <1>3, PTL DEF GateSpec

-----------------------------------------------------------------------------

(***************************************************************************)
(* RecoveryIsSafe for any windows and any number of calls that navigate    *)
(* them. A call comes back to a window several times, and pages are        *)
(* replaced in between; that it does not end or report another page's      *)
(* process rests on the one lock it holds from its first probe to its      *)
(* answer (OneHolds), on a paused process having exactly such a call to    *)
(* resume it (Pausing), and on what a call has written down of the page it *)
(* left (Leaving).                                                         *)
(***************************************************************************)

(* What every call carries, idle or not. *)
Carried == {"at", "w", "url", "left", "was", "hadAnswered", "pid", "result"}
Shown == PageUrls \cup {"health", ""}
CallsTypeOK ==
    /\ call = [r \in Navigators |-> call[r]]
    /\ \A r \in Navigators :
         /\ DOMAIN call[r] = Carried /\ call[r].url \in PageUrls \cup {Nil}
         /\ call[r].at = "idle" \/ call[r].w \in Windows
PagesTypeOK ==
    /\ page \in [Windows -> [id : Nat, url : Shown, mood : Moods \cup {"dead"}]]
    /\ proc \in [Windows -> Nat] /\ flat \subseteq Nat /\ loads \in Nat
    /\ sent \in [Windows -> Shown \cup {Nil}]
    /\ CallsTypeOK

(* From its first probe to its answer a call that navigates natively holds the lock. *)
Native == {"probe", "pass", "recover", "detour", "await", "last", "paused", "restart"}
OneHolds == \A r \in Navigators : call[r].at \in Native => holder = r

(* A process is paused while a call is "paused" over it, and no longer. *)
Pausing ==
    /\ \A pid \in paused : \E r \in Navigators : call[r].at = "paused" /\ call[r].pid = pid
    /\ \A r \in Navigators : call[r].at = "paused" => call[r].pid \in paused

(* What a call knows of the page it left, and of the process it has paused or ended. *)
Waits == {"detour", "await", "last", "paused"}
Leaving ==
    \A r \in Navigators :
        /\ call[r].at \in Waits => call[r].was \in Nat
        /\ call[r].at \in Waits /\ call[r].hadAnswered => call[r].left = call[r].was
        /\ call[r].at \in {"paused", "restart"} => call[r].pid \in Nat

(* No process was ended that showed another window. *)
NobodyLost == \A e \in ended : e.others = {}
PagesInv ==
    PagesTypeOK /\ OneHolds /\ Pausing /\ Leaving /\ NobodyLost /\ RecoveredIsAnotherPage
-----------------------------------------------------------------------------
LEMMA ChangeMoodStep ==
    ASSUME PagesInv, NEW w \in Windows, NEW mood \in Moods, ChangeMood(w, mood)
    PROVE  PagesInv'
<1> USE StoppedPagesAssumption DEF PagesInv, ChangeMood, webviews, SendTo, HeardFrom,
        FinishRequest, Go, With
<1>1. PagesTypeOK'
  <2>1. page' \in [Windows -> [id : Nat, url : Shown, mood : Moods \cup {"dead"}]]
    BY DEF PagesTypeOK, Shown
  <2>2. proc' \in [Windows -> Nat] /\ loads' \in Nat
    BY FS_CardinalityType DEF PagesTypeOK
  <2>3. flat' \subseteq Nat
    BY DEF PagesTypeOK, Measured, SpinningNow
  <2>4. sent' \in [Windows -> Shown \cup {Nil}]
    BY DEF PagesTypeOK, Shown
  <2>5. CallsTypeOK'
    BY DEF PagesTypeOK, CallsTypeOK, Carried, PageUrls
  <2>6. QED BY <2>1, <2>2, <2>3, <2>4, <2>5 DEF PagesTypeOK
<1>2. OneHolds'
  BY DEF PagesTypeOK, CallsTypeOK, OneHolds, Native, Carried
<1>3. Pausing'
  BY DEF PagesTypeOK, CallsTypeOK, OneHolds, Native, Pausing, Carried
<1>4. Leaving'
  BY DEF PagesTypeOK, CallsTypeOK, Leaving, Waits, Carried
<1>5. NobodyLost'
  BY DEF PagesTypeOK, NobodyLost
<1>6. RecoveredIsAnotherPage'
  BY DEF PagesTypeOK, CallsTypeOK, RecoveredIsAnotherPage, Claims, Carried, Leaving,
     Waits
<1>7. QED BY <1>1, <1>2, <1>3, <1>4, <1>5, <1>6 DEF PagesInv

LEMMA LandStep ==
    ASSUME PagesInv, NEW w \in Windows, Land(w)
    PROVE  PagesInv'
<1> USE StoppedPagesAssumption DEF PagesInv, Land, webviews, SendTo, HeardFrom,
        FinishRequest, Go, With
<1>1. PagesTypeOK'
  <2>1. page' \in [Windows -> [id : Nat, url : Shown, mood : Moods \cup {"dead"}]]
    <3>1. sent[w] \in Shown /\ loads + 1 \in Nat BY DEF PagesTypeOK
    <3>2. [id |-> loads + 1, url |-> sent[w], mood |-> "ready"]
            \in [id : Nat, url : Shown, mood : Moods \cup {"dead"}]
      BY <3>1 DEF Moods
    <3>3. QED BY <3>2 DEF PagesTypeOK
  <2>2. proc' \in [Windows -> Nat] /\ loads' \in Nat
    BY FS_CardinalityType DEF PagesTypeOK
  <2>3. flat' \subseteq Nat
    BY DEF PagesTypeOK, Measured, SpinningNow
  <2>4. sent' \in [Windows -> Shown \cup {Nil}]
    BY DEF PagesTypeOK, Shown
  <2>5. CallsTypeOK'
    BY DEF PagesTypeOK, CallsTypeOK, Carried, PageUrls
  <2>6. QED BY <2>1, <2>2, <2>3, <2>4, <2>5 DEF PagesTypeOK
<1>2. OneHolds'
  BY DEF PagesTypeOK, CallsTypeOK, OneHolds, Native, Carried
<1>3. Pausing'
  BY DEF PagesTypeOK, CallsTypeOK, OneHolds, Native, Pausing, Carried
<1>4. Leaving'
  BY DEF PagesTypeOK, CallsTypeOK, Leaving, Waits, Carried
<1>5. NobodyLost'
  BY DEF PagesTypeOK, NobodyLost
<1>6. RecoveredIsAnotherPage'
  BY DEF PagesTypeOK, CallsTypeOK, RecoveredIsAnotherPage, Claims, Carried, Leaving,
     Waits
<1>7. QED BY <1>1, <1>2, <1>3, <1>4, <1>5, <1>6 DEF PagesInv

LEMMA DropSentStep ==
    ASSUME PagesInv, NEW w \in Windows, DropSent(w)
    PROVE  PagesInv'
<1> USE StoppedPagesAssumption DEF PagesInv, DropSent, webviews, SendTo, HeardFrom,
        FinishRequest, Go, With
<1>1. PagesTypeOK'
  <2>1. page' \in [Windows -> [id : Nat, url : Shown, mood : Moods \cup {"dead"}]]
    BY DEF PagesTypeOK, Shown
  <2>2. proc' \in [Windows -> Nat] /\ loads' \in Nat
    BY FS_CardinalityType DEF PagesTypeOK
  <2>3. flat' \subseteq Nat
    BY DEF PagesTypeOK, Measured, SpinningNow
  <2>4. sent' \in [Windows -> Shown \cup {Nil}]
    BY DEF PagesTypeOK, Shown
  <2>5. CallsTypeOK'
    BY DEF PagesTypeOK, CallsTypeOK, Carried, PageUrls
  <2>6. QED BY <2>1, <2>2, <2>3, <2>4, <2>5 DEF PagesTypeOK
<1>2. OneHolds'
  BY DEF PagesTypeOK, CallsTypeOK, OneHolds, Native, Carried
<1>3. Pausing'
  BY DEF PagesTypeOK, CallsTypeOK, OneHolds, Native, Pausing, Carried
<1>4. Leaving'
  BY DEF PagesTypeOK, CallsTypeOK, Leaving, Waits, Carried
<1>5. NobodyLost'
  BY DEF PagesTypeOK, NobodyLost
<1>6. RecoveredIsAnotherPage'
  BY DEF PagesTypeOK, CallsTypeOK, RecoveredIsAnotherPage, Claims, Carried, Leaving,
     Waits
<1>7. QED BY <1>1, <1>2, <1>3, <1>4, <1>5, <1>6 DEF PagesInv

LEMMA GoToStep ==
    ASSUME PagesInv, NEW r \in Navigators, NEW w \in Windows, NEW url \in PageUrls, GoTo(r, w, url)
    PROVE  PagesInv'
<1> USE StoppedPagesAssumption DEF PagesInv, GoTo, webviews, SendTo, HeardFrom,
        FinishRequest, Go, With
<1>1. PagesTypeOK'
  <2>1. page' \in [Windows -> [id : Nat, url : Shown, mood : Moods \cup {"dead"}]]
    BY DEF PagesTypeOK, Shown
  <2>2. proc' \in [Windows -> Nat] /\ loads' \in Nat
    BY FS_CardinalityType DEF PagesTypeOK
  <2>3. flat' \subseteq Nat
    BY DEF PagesTypeOK, Measured, SpinningNow
  <2>4. sent' \in [Windows -> Shown \cup {Nil}]
    BY DEF PagesTypeOK, Shown
  <2>5. CallsTypeOK'
    BY DEF PagesTypeOK, CallsTypeOK, Carried, PageUrls
  <2>6. QED BY <2>1, <2>2, <2>3, <2>4, <2>5 DEF PagesTypeOK
<1>2. OneHolds'
  BY DEF PagesTypeOK, CallsTypeOK, OneHolds, Native, Carried
<1>3. Pausing'
  BY DEF PagesTypeOK, CallsTypeOK, OneHolds, Native, Pausing, Carried
<1>4. Leaving'
  BY DEF PagesTypeOK, CallsTypeOK, Leaving, Waits, Carried
<1>5. NobodyLost'
  BY DEF PagesTypeOK, NobodyLost
<1>6. RecoveredIsAnotherPage'
  BY DEF PagesTypeOK, CallsTypeOK, RecoveredIsAnotherPage, Claims, Carried, Leaving,
     Waits
<1>7. QED BY <1>1, <1>2, <1>3, <1>4, <1>5, <1>6 DEF PagesInv

LEMMA GoBackStep ==
    ASSUME PagesInv, NEW r \in Navigators, NEW w \in Windows, GoBack(r, w)
    PROVE  PagesInv'
<1> USE StoppedPagesAssumption DEF PagesInv, GoBack, webviews, SendTo, HeardFrom,
        FinishRequest, Go, With
<1>1. PagesTypeOK'
  <2>1. page' \in [Windows -> [id : Nat, url : Shown, mood : Moods \cup {"dead"}]]
    BY DEF PagesTypeOK, Shown
  <2>2. proc' \in [Windows -> Nat] /\ loads' \in Nat
    BY FS_CardinalityType DEF PagesTypeOK
  <2>3. flat' \subseteq Nat
    BY DEF PagesTypeOK, Measured, SpinningNow
  <2>4. sent' \in [Windows -> Shown \cup {Nil}]
    BY DEF PagesTypeOK, Shown
  <2>5. CallsTypeOK'
    <3>1. /\ \A q \in Navigators \ {r} : call'[q] = call[q]
          /\ DOMAIN call'[r] = Carried /\ call'[r].url = call[r].url /\ call'[r].w = w
          /\ call' = [q \in Navigators |-> call'[q]]
      BY ZenonT(60) DEF PagesTypeOK, CallsTypeOK, Carried
    <3>2. QED BY <3>1 DEF PagesTypeOK, CallsTypeOK
  <2>6. QED BY <2>1, <2>2, <2>3, <2>4, <2>5 DEF PagesTypeOK
<1>2. OneHolds'
  BY DEF PagesTypeOK, CallsTypeOK, OneHolds, Native, Carried
<1>3. Pausing'
  BY DEF PagesTypeOK, CallsTypeOK, OneHolds, Native, Pausing, Carried
<1>4. Leaving'
  BY DEF PagesTypeOK, CallsTypeOK, Leaving, Waits, Carried
<1>5. NobodyLost'
  BY DEF PagesTypeOK, NobodyLost
<1>6. RecoveredIsAnotherPage'
  BY DEF PagesTypeOK, CallsTypeOK, RecoveredIsAnotherPage, Claims, Carried, Leaving,
     Waits
<1>7. QED BY <1>1, <1>2, <1>3, <1>4, <1>5, <1>6 DEF PagesInv

LEMMA GoBackSilentStep ==
    ASSUME PagesInv, NEW r \in Navigators, NEW w \in Windows, GoBackSilent(r, w)
    PROVE  PagesInv'
<1> USE StoppedPagesAssumption DEF PagesInv, GoBackSilent, webviews, SendTo,
        HeardFrom, FinishRequest, Go, With
<1>1. /\ call[r].at = "idle" /\ paused' = paused /\ ended' = ended
      /\ \A q \in Navigators \ {r} : call'[q] = call[q]
      /\ \/ call'[r].at = "lock"
         \/ call'[r].at = "done" /\ call'[r].result = [ok |-> FALSE, new |-> FALSE]
  <2>1. r \in DOMAIN call /\ DOMAIN call[r] = Carried BY DEF PagesTypeOK, CallsTypeOK
  <2>2. PICK url : \/ Go(r, [at |-> "lock", w |-> w, url |-> url])
                   \/ Go(r, [at |-> "done", w |-> w, result |-> [ok |-> FALSE, new |-> FALSE]])
    <3> HIDE DEF Go
    <3>1. QED BY DEF PagesInv
  <2>3. CASE Go(r, [at |-> "lock", w |-> w, url |-> url])
    BY <2>1, <2>3 DEF Carried, PagesTypeOK, CallsTypeOK
  <2>4. CASE Go(r, [at |-> "done", w |-> w, result |-> [ok |-> FALSE, new |-> FALSE]])
    BY <2>1, <2>4 DEF Carried, PagesTypeOK, CallsTypeOK
  <2>5. QED BY <2>2, <2>3, <2>4
<1>2. PagesTypeOK'
  <2>1. page' \in [Windows -> [id : Nat, url : Shown, mood : Moods \cup {"dead"}]]
    BY DEF PagesTypeOK, Shown
  <2>2. proc' \in [Windows -> Nat] /\ loads' \in Nat
    BY FS_CardinalityType DEF PagesTypeOK
  <2>3. flat' \subseteq Nat
    BY DEF PagesTypeOK, Measured, SpinningNow
  <2>4. sent' \in [Windows -> Shown \cup {Nil}]
    BY DEF PagesTypeOK, Shown
  <2>5. CallsTypeOK'
    BY DEF PagesTypeOK, CallsTypeOK, Carried, PageUrls
  <2>6. QED BY <2>1, <2>2, <2>3, <2>4, <2>5 DEF PagesTypeOK
<1>3. OneHolds'
  BY DEF PagesTypeOK, CallsTypeOK, OneHolds, Native, Carried
<1>4. Pausing'
  BY <1>1 DEF Pausing
<1>5. Leaving'
  BY <1>1 DEF Leaving, Waits
<1>6. NobodyLost'
  BY DEF PagesTypeOK, NobodyLost
<1>7. RecoveredIsAnotherPage'
  BY <1>1 DEF RecoveredIsAnotherPage, Claims
<1>8. QED BY <1>2, <1>3, <1>4, <1>5, <1>6, <1>7 DEF PagesInv

LEMMA PageAnswersStep ==
    ASSUME PagesInv, NEW r \in Navigators, PageAnswers(r)
    PROVE  PagesInv'
<1> USE StoppedPagesAssumption DEF PagesInv, PageAnswers, webviews, SendTo,
        HeardFrom, FinishRequest, Go, With
<1>1. PagesTypeOK'
  <2>1. page' \in [Windows -> [id : Nat, url : Shown, mood : Moods \cup {"dead"}]]
    BY DEF PagesTypeOK, Shown
  <2>2. proc' \in [Windows -> Nat] /\ loads' \in Nat
    BY FS_CardinalityType DEF PagesTypeOK
  <2>3. flat' \subseteq Nat
    BY DEF PagesTypeOK, Measured, SpinningNow
  <2>4. sent' \in [Windows -> Shown \cup {Nil}]
    BY DEF PagesTypeOK, CallsTypeOK, Shown
  <2>5. CallsTypeOK'
    BY DEF PagesTypeOK, CallsTypeOK, Carried, PageUrls
  <2>6. QED BY <2>1, <2>2, <2>3, <2>4, <2>5 DEF PagesTypeOK
<1>2. OneHolds'
  BY DEF PagesTypeOK, CallsTypeOK, OneHolds, Native, Carried
<1>3. Pausing'
  BY DEF PagesTypeOK, CallsTypeOK, OneHolds, Native, Pausing, Carried
<1>4. Leaving'
  BY DEF PagesTypeOK, CallsTypeOK, Leaving, Waits, Carried
<1>5. NobodyLost'
  BY DEF PagesTypeOK, NobodyLost
<1>6. RecoveredIsAnotherPage'
  BY DEF PagesTypeOK, CallsTypeOK, RecoveredIsAnotherPage, Claims, Carried, Leaving,
     Waits
<1>7. QED BY <1>1, <1>2, <1>3, <1>4, <1>5, <1>6 DEF PagesInv

LEMMA PageIsSilentStep ==
    ASSUME PagesInv, NEW r \in Navigators, PageIsSilent(r)
    PROVE  PagesInv'
<1> USE StoppedPagesAssumption DEF PagesInv, PageIsSilent, webviews, SendTo,
        HeardFrom, FinishRequest, Go, With
<1>1. PagesTypeOK'
  <2>1. page' \in [Windows -> [id : Nat, url : Shown, mood : Moods \cup {"dead"}]]
    BY DEF PagesTypeOK, Shown
  <2>2. proc' \in [Windows -> Nat] /\ loads' \in Nat
    BY FS_CardinalityType DEF PagesTypeOK
  <2>3. flat' \subseteq Nat
    BY DEF PagesTypeOK, Measured, SpinningNow
  <2>4. sent' \in [Windows -> Shown \cup {Nil}]
    BY DEF PagesTypeOK, Shown
  <2>5. CallsTypeOK'
    BY DEF PagesTypeOK, CallsTypeOK, Carried, PageUrls
  <2>6. QED BY <2>1, <2>2, <2>3, <2>4, <2>5 DEF PagesTypeOK
<1>2. OneHolds'
  BY DEF PagesTypeOK, CallsTypeOK, OneHolds, Native, Carried
<1>3. Pausing'
  BY DEF PagesTypeOK, CallsTypeOK, OneHolds, Native, Pausing, Carried
<1>4. Leaving'
  BY DEF PagesTypeOK, CallsTypeOK, Leaving, Waits, Carried
<1>5. NobodyLost'
  BY DEF PagesTypeOK, NobodyLost
<1>6. RecoveredIsAnotherPage'
  BY DEF PagesTypeOK, CallsTypeOK, RecoveredIsAnotherPage, Claims, Carried, Leaving,
     Waits
<1>7. QED BY <1>1, <1>2, <1>3, <1>4, <1>5, <1>6 DEF PagesInv

LEMMA PassDetourStep ==
    ASSUME PagesInv, NEW r \in Navigators, PassDetour(r)
    PROVE  PagesInv'
<1> USE StoppedPagesAssumption DEF PagesInv, PassDetour, webviews, SendTo, HeardFrom,
        FinishRequest, Go, With
<1>1. PagesTypeOK'
  <2>1. page' \in [Windows -> [id : Nat, url : Shown, mood : Moods \cup {"dead"}]]
    BY DEF PagesTypeOK, Shown
  <2>2. proc' \in [Windows -> Nat] /\ loads' \in Nat
    BY FS_CardinalityType DEF PagesTypeOK
  <2>3. flat' \subseteq Nat
    BY DEF PagesTypeOK, Measured, SpinningNow
  <2>4. sent' \in [Windows -> Shown \cup {Nil}]
    BY DEF PagesTypeOK, CallsTypeOK, Shown
  <2>5. CallsTypeOK'
    BY DEF PagesTypeOK, CallsTypeOK, Carried, PageUrls
  <2>6. QED BY <2>1, <2>2, <2>3, <2>4, <2>5 DEF PagesTypeOK
<1>2. OneHolds'
  BY DEF PagesTypeOK, CallsTypeOK, OneHolds, Native, Carried
<1>3. Pausing'
  BY DEF PagesTypeOK, CallsTypeOK, OneHolds, Native, Pausing, Carried
<1>4. Leaving'
  BY DEF PagesTypeOK, CallsTypeOK, Leaving, Waits, Carried
<1>5. NobodyLost'
  BY DEF PagesTypeOK, NobodyLost
<1>6. RecoveredIsAnotherPage'
  BY DEF PagesTypeOK, CallsTypeOK, RecoveredIsAnotherPage, Claims, Carried, Leaving,
     Waits
<1>7. QED BY <1>1, <1>2, <1>3, <1>4, <1>5, <1>6 DEF PagesInv

LEMMA TakeLockStep ==
    ASSUME PagesInv, NEW r \in Navigators, TakeLock(r)
    PROVE  PagesInv'
<1> USE StoppedPagesAssumption DEF PagesInv, TakeLock, webviews, SendTo, HeardFrom,
        FinishRequest, Go, With
<1>1. PagesTypeOK'
  <2>1. page' \in [Windows -> [id : Nat, url : Shown, mood : Moods \cup {"dead"}]]
    BY DEF PagesTypeOK, Shown
  <2>2. proc' \in [Windows -> Nat] /\ loads' \in Nat
    BY FS_CardinalityType DEF PagesTypeOK
  <2>3. flat' \subseteq Nat
    BY DEF PagesTypeOK, Measured, SpinningNow
  <2>4. sent' \in [Windows -> Shown \cup {Nil}]
    BY DEF PagesTypeOK, Shown
  <2>5. CallsTypeOK'
    BY DEF PagesTypeOK, CallsTypeOK, Carried, PageUrls
  <2>6. QED BY <2>1, <2>2, <2>3, <2>4, <2>5 DEF PagesTypeOK
<1>2. OneHolds'
  BY DEF PagesTypeOK, CallsTypeOK, OneHolds, Native, Carried
<1>3. Pausing'
  BY DEF PagesTypeOK, CallsTypeOK, OneHolds, Native, Pausing, Carried
<1>4. Leaving'
  BY DEF PagesTypeOK, CallsTypeOK, Leaving, Waits, Carried
<1>5. NobodyLost'
  BY DEF PagesTypeOK, NobodyLost
<1>6. RecoveredIsAnotherPage'
  BY DEF PagesTypeOK, CallsTypeOK, RecoveredIsAnotherPage, Claims, Carried, Leaving,
     Waits
<1>7. QED BY <1>1, <1>2, <1>3, <1>4, <1>5, <1>6 DEF PagesInv

LEMMA RecoverStep ==
    ASSUME PagesInv, NEW r \in Navigators, Recover(r)
    PROVE  PagesInv'
<1> USE StoppedPagesAssumption DEF PagesInv, Recover, webviews, SendTo, HeardFrom,
        FinishRequest, Go, With
<1>1. PagesTypeOK'
  <2>1. page' \in [Windows -> [id : Nat, url : Shown, mood : Moods \cup {"dead"}]]
    BY DEF PagesTypeOK, Shown
  <2>2. proc' \in [Windows -> Nat] /\ loads' \in Nat
    BY FS_CardinalityType DEF PagesTypeOK
  <2>3. flat' \subseteq Nat
    BY DEF PagesTypeOK, Measured, SpinningNow
  <2>4. sent' \in [Windows -> Shown \cup {Nil}]
    BY DEF PagesTypeOK, Shown
  <2>5. CallsTypeOK'
    BY DEF PagesTypeOK, CallsTypeOK, Carried, PageUrls
  <2>6. QED BY <2>1, <2>2, <2>3, <2>4, <2>5 DEF PagesTypeOK
<1>2. OneHolds'
  BY DEF PagesTypeOK, CallsTypeOK, OneHolds, Native, Carried
<1>3. Pausing'
  BY DEF PagesTypeOK, CallsTypeOK, OneHolds, Native, Pausing, Carried
<1>4. Leaving'
  <2>1. /\ \A q \in Navigators \ {r} : call'[q] = call[q]
        /\ call'[r].at = "detour" /\ call'[r].left = nonce[call[r].w]
        /\ call'[r].was = page[call[r].w].id
        /\ call'[r].hadAnswered = (nonce[call[r].w] = page[call[r].w].id)
    BY SMTT(30) DEF PagesTypeOK, CallsTypeOK, Carried
  <2>2. call'[r].was \in Nat BY <2>1 DEF PagesTypeOK, CallsTypeOK
  <2>3. call'[r].hadAnswered => call'[r].left = call'[r].was BY <2>1
  <2> HIDE DEF PagesInv, Recover, webviews, SendTo, HeardFrom, FinishRequest, Go, With
  <2>4. Leaving BY DEF PagesInv
  <2>5. QED BY <2>1, <2>2, <2>3, <2>4 DEF Leaving, Waits
<1>5. NobodyLost'
  BY DEF PagesTypeOK, NobodyLost
<1>6. RecoveredIsAnotherPage'
  BY DEF PagesTypeOK, CallsTypeOK, RecoveredIsAnotherPage, Claims, Carried, Leaving,
     Waits
<1>7. QED BY <1>1, <1>2, <1>3, <1>4, <1>5, <1>6 DEF PagesInv

LEMMA LeaveDetourStep ==
    ASSUME PagesInv, NEW r \in Navigators, LeaveDetour(r)
    PROVE  PagesInv'
<1> USE StoppedPagesAssumption DEF PagesInv, LeaveDetour, webviews, SendTo,
        HeardFrom, FinishRequest, Go, With
<1>1. PagesTypeOK'
  <2>1. page' \in [Windows -> [id : Nat, url : Shown, mood : Moods \cup {"dead"}]]
    BY DEF PagesTypeOK, Shown
  <2>2. proc' \in [Windows -> Nat] /\ loads' \in Nat
    BY FS_CardinalityType DEF PagesTypeOK
  <2>3. flat' \subseteq Nat
    BY DEF PagesTypeOK, Measured, SpinningNow
  <2>4. sent' \in [Windows -> Shown \cup {Nil}]
    BY DEF PagesTypeOK, CallsTypeOK, Shown
  <2>5. CallsTypeOK'
    BY DEF PagesTypeOK, CallsTypeOK, Carried, PageUrls
  <2>6. QED BY <2>1, <2>2, <2>3, <2>4, <2>5 DEF PagesTypeOK
<1>2. OneHolds'
  BY DEF PagesTypeOK, CallsTypeOK, OneHolds, Native, Carried
<1>3. Pausing'
  BY DEF PagesTypeOK, CallsTypeOK, OneHolds, Native, Pausing, Carried
<1>4. Leaving'
  BY DEF PagesTypeOK, CallsTypeOK, Leaving, Waits, Carried
<1>5. NobodyLost'
  BY DEF PagesTypeOK, NobodyLost
<1>6. RecoveredIsAnotherPage'
  BY DEF PagesTypeOK, CallsTypeOK, RecoveredIsAnotherPage, Claims, Carried, Leaving,
     Waits
<1>7. QED BY <1>1, <1>2, <1>3, <1>4, <1>5, <1>6 DEF PagesInv

LEMMA RecoveredStep ==
    ASSUME PagesInv, NEW r \in Navigators, Recovered(r)
    PROVE  PagesInv'
<1> USE StoppedPagesAssumption DEF PagesInv, Recovered, webviews, SendTo, HeardFrom,
        FinishRequest, Go, With
<1>1. PagesTypeOK'
  <2>1. page' \in [Windows -> [id : Nat, url : Shown, mood : Moods \cup {"dead"}]]
    BY DEF PagesTypeOK, Shown
  <2>2. proc' \in [Windows -> Nat] /\ loads' \in Nat
    BY FS_CardinalityType DEF PagesTypeOK
  <2>3. flat' \subseteq Nat
    BY DEF PagesTypeOK, Measured, SpinningNow
  <2>4. sent' \in [Windows -> Shown \cup {Nil}]
    BY DEF PagesTypeOK, Shown
  <2>5. CallsTypeOK'
    BY DEF PagesTypeOK, CallsTypeOK, Carried, PageUrls
  <2>6. QED BY <2>1, <2>2, <2>3, <2>4, <2>5 DEF PagesTypeOK
<1>2. OneHolds'
  BY DEF PagesTypeOK, CallsTypeOK, OneHolds, Native, Carried
<1>3. Pausing'
  BY DEF PagesTypeOK, CallsTypeOK, OneHolds, Native, Pausing, Carried
<1>4. Leaving'
  BY DEF PagesTypeOK, CallsTypeOK, Leaving, Waits, Carried
<1>5. NobodyLost'
  BY DEF PagesTypeOK, NobodyLost
<1>6. RecoveredIsAnotherPage'
  <2> DEFINE shows == page[call[r].w].id
  <2>1. /\ \A q \in Navigators \ {r} : call'[q] = call[q]
        /\ call'[r].result = [ok |-> TRUE, new |-> TRUE, shows |-> shows]
        /\ call'[r].was = call[r].was /\ call'[r].hadAnswered = call[r].hadAnswered
    BY DEF PagesTypeOK, CallsTypeOK, Carried
  <2>2. call[r].hadAnswered => shows # call[r].was
    BY DEF AnotherPage, Leaving, Waits
  <2>3. call'[r].result.shows = shows BY <2>1
  <2>4. RecoveredIsAnotherPage OBVIOUS
  <2> HIDE DEF PagesInv, Recovered, webviews, SendTo, HeardFrom, FinishRequest, Go, With, shows
  <2>5. QED BY <2>1, <2>2, <2>3, <2>4 DEF RecoveredIsAnotherPage, Claims
<1>7. QED BY <1>1, <1>2, <1>3, <1>4, <1>5, <1>6 DEF PagesInv

LEMMA PauseSpinningStep ==
    ASSUME PagesInv, NEW r \in Navigators, PauseSpinning(r)
    PROVE  PagesInv'
<1> USE StoppedPagesAssumption DEF PagesInv, PauseSpinning, webviews, SendTo,
        HeardFrom, FinishRequest, Go, With
<1>1. PagesTypeOK'
  <2>1. page' \in [Windows -> [id : Nat, url : Shown, mood : Moods \cup {"dead"}]]
    BY DEF PagesTypeOK, Shown
  <2>2. proc' \in [Windows -> Nat] /\ loads' \in Nat
    BY FS_CardinalityType DEF PagesTypeOK
  <2>3. flat' \subseteq Nat
    BY DEF PagesTypeOK, Measured, SpinningNow
  <2>4. sent' \in [Windows -> Shown \cup {Nil}]
    BY DEF PagesTypeOK, Shown
  <2>5. CallsTypeOK'
    BY DEF PagesTypeOK, CallsTypeOK, Carried, PageUrls
  <2>6. QED BY <2>1, <2>2, <2>3, <2>4, <2>5 DEF PagesTypeOK
<1>2. OneHolds'
  BY DEF PagesTypeOK, CallsTypeOK, OneHolds, Native, Carried
<1>3. Pausing'
  BY DEF PagesTypeOK, CallsTypeOK, OneHolds, Native, Pausing, Carried
<1>4. Leaving'
  BY DEF PagesTypeOK, CallsTypeOK, Leaving, Waits, Carried
<1>5. NobodyLost'
  BY DEF PagesTypeOK, NobodyLost
<1>6. RecoveredIsAnotherPage'
  BY DEF PagesTypeOK, CallsTypeOK, RecoveredIsAnotherPage, Claims, Carried, Leaving,
     Waits
<1>7. QED BY <1>1, <1>2, <1>3, <1>4, <1>5, <1>6 DEF PagesInv

LEMMA WaitOnStep ==
    ASSUME PagesInv, NEW r \in Navigators, WaitOn(r)
    PROVE  PagesInv'
<1> USE StoppedPagesAssumption DEF PagesInv, WaitOn, webviews, SendTo, HeardFrom,
        FinishRequest, Go, With
<1>1. PagesTypeOK'
  <2>1. page' \in [Windows -> [id : Nat, url : Shown, mood : Moods \cup {"dead"}]]
    BY DEF PagesTypeOK, Shown
  <2>2. proc' \in [Windows -> Nat] /\ loads' \in Nat
    BY FS_CardinalityType DEF PagesTypeOK
  <2>3. flat' \subseteq Nat
    BY DEF PagesTypeOK, Measured, SpinningNow
  <2>4. sent' \in [Windows -> Shown \cup {Nil}]
    BY DEF PagesTypeOK, Shown
  <2>5. CallsTypeOK'
    BY DEF PagesTypeOK, CallsTypeOK, Carried, PageUrls
  <2>6. QED BY <2>1, <2>2, <2>3, <2>4, <2>5 DEF PagesTypeOK
<1>2. OneHolds'
  BY DEF PagesTypeOK, CallsTypeOK, OneHolds, Native, Carried
<1>3. Pausing'
  BY DEF PagesTypeOK, CallsTypeOK, OneHolds, Native, Pausing, Carried
<1>4. Leaving'
  BY DEF PagesTypeOK, CallsTypeOK, Leaving, Waits, Carried
<1>5. NobodyLost'
  BY DEF PagesTypeOK, NobodyLost
<1>6. RecoveredIsAnotherPage'
  BY DEF PagesTypeOK, CallsTypeOK, RecoveredIsAnotherPage, Claims, Carried, Leaving,
     Waits
<1>7. QED BY <1>1, <1>2, <1>3, <1>4, <1>5, <1>6 DEF PagesInv

LEMMA EndProcessStep ==
    ASSUME PagesInv, NEW r \in Navigators, EndProcess(r)
    PROVE  PagesInv'
<1> USE StoppedPagesAssumption DEF PagesInv, EndProcess, webviews, SendTo, HeardFrom,
        FinishRequest, Go, With
<1>1. PagesTypeOK'
  <2>1. page' \in [Windows -> [id : Nat, url : Shown, mood : Moods \cup {"dead"}]]
    BY DEF PagesTypeOK, Shown
  <2>2. proc' \in [Windows -> Nat] /\ loads' \in Nat
    BY FS_CardinalityType DEF PagesTypeOK
  <2>3. flat' \subseteq Nat
    BY DEF PagesTypeOK, Measured, SpinningNow
  <2>4. sent' \in [Windows -> Shown \cup {Nil}]
    BY DEF PagesTypeOK, Shown
  <2>5. CallsTypeOK'
    BY DEF PagesTypeOK, CallsTypeOK, Carried, PageUrls
  <2>6. QED BY <2>1, <2>2, <2>3, <2>4, <2>5 DEF PagesTypeOK
<1>2. OneHolds'
  BY DEF PagesTypeOK, CallsTypeOK, OneHolds, Native, Carried
<1>3. Pausing'
  <2>1. /\ \A q \in Navigators \ {r} : call'[q] = call[q] /\ call[q].at # "paused"
        /\ call'[r].at = "restart"
    BY ZenonT(60) DEF PagesTypeOK, CallsTypeOK, Carried, OneHolds, Native
  <2>2. paused' = {} BY ZenonT(60), <2>1 DEF Pausing
  <2>3. QED BY <2>1, <2>2 DEF Pausing
<1>4. Leaving'
  BY ZenonT(60) DEF PagesTypeOK, CallsTypeOK, Leaving, Waits, Carried
<1>5. NobodyLost'
  <2> DEFINE lost == {v \in Windows : proc[v] = call[r].pid}
  <2>1. call[r].pid \in paused BY DEF Pausing
  <2>2. (lost \cap answered) \ {call[r].w} = {}
    BY <2>1 DEF StillAnswer, OthersAnswer, Answers, Listens
  <2>3. ended' = ended \cup {[window |-> call[r].w, others |-> {}]} BY <2>2
  <2>4. NobodyLost OBVIOUS
  <2> HIDE DEF PagesInv, EndProcess, webviews, SendTo, HeardFrom, FinishRequest, Go, With
  <2>5. QED BY <2>3, <2>4 DEF NobodyLost
<1>6. RecoveredIsAnotherPage'
  BY DEF PagesTypeOK, CallsTypeOK, RecoveredIsAnotherPage, Claims, Carried, Leaving,
     Waits
<1>7. QED BY <1>1, <1>2, <1>3, <1>4, <1>5, <1>6 DEF PagesInv

LEMMA ResumeStep ==
    ASSUME PagesInv, NEW r \in Navigators, Resume(r)
    PROVE  PagesInv'
<1> USE StoppedPagesAssumption DEF PagesInv, Resume, webviews, SendTo, HeardFrom,
        FinishRequest, Go, With
<1>1. PagesTypeOK'
  <2>1. page' \in [Windows -> [id : Nat, url : Shown, mood : Moods \cup {"dead"}]]
    BY DEF PagesTypeOK, Shown
  <2>2. proc' \in [Windows -> Nat] /\ loads' \in Nat
    BY FS_CardinalityType DEF PagesTypeOK
  <2>3. flat' \subseteq Nat
    BY DEF PagesTypeOK, Measured, SpinningNow
  <2>4. sent' \in [Windows -> Shown \cup {Nil}]
    BY DEF PagesTypeOK, Shown
  <2>5. CallsTypeOK'
    BY DEF PagesTypeOK, CallsTypeOK, Carried, PageUrls
  <2>6. QED BY <2>1, <2>2, <2>3, <2>4, <2>5 DEF PagesTypeOK
<1>2. OneHolds'
  BY DEF PagesTypeOK, CallsTypeOK, OneHolds, Native, Carried
<1>3. Pausing'
  BY DEF PagesTypeOK, CallsTypeOK, OneHolds, Native, Pausing, Carried
<1>4. Leaving'
  BY DEF PagesTypeOK, CallsTypeOK, Leaving, Waits, Carried
<1>5. NobodyLost'
  BY DEF PagesTypeOK, NobodyLost
<1>6. RecoveredIsAnotherPage'
  BY DEF PagesTypeOK, CallsTypeOK, RecoveredIsAnotherPage, Claims, Carried, Leaving,
     Waits
<1>7. QED BY <1>1, <1>2, <1>3, <1>4, <1>5, <1>6 DEF PagesInv

LEMMA SendAgainStep ==
    ASSUME PagesInv, NEW r \in Navigators, SendAgain(r)
    PROVE  PagesInv'
<1> USE StoppedPagesAssumption DEF PagesInv, SendAgain, webviews, SendTo, HeardFrom,
        FinishRequest, Go, With
<1>1. PagesTypeOK'
  <2>1. page' \in [Windows -> [id : Nat, url : Shown, mood : Moods \cup {"dead"}]]
    BY DEF PagesTypeOK, Shown
  <2>2. proc' \in [Windows -> Nat] /\ loads' \in Nat
    BY FS_CardinalityType DEF PagesTypeOK
  <2>3. flat' \subseteq Nat
    BY DEF PagesTypeOK, Measured, SpinningNow
  <2>4. sent' \in [Windows -> Shown \cup {Nil}]
    BY DEF PagesTypeOK, CallsTypeOK, Shown
  <2>5. CallsTypeOK'
    BY DEF PagesTypeOK, CallsTypeOK, Carried, PageUrls
  <2>6. QED BY <2>1, <2>2, <2>3, <2>4, <2>5 DEF PagesTypeOK
<1>2. OneHolds'
  BY DEF PagesTypeOK, CallsTypeOK, OneHolds, Native, Carried
<1>3. Pausing'
  BY DEF PagesTypeOK, CallsTypeOK, OneHolds, Native, Pausing, Carried
<1>4. Leaving'
  BY DEF PagesTypeOK, CallsTypeOK, Leaving, Waits, Carried
<1>5. NobodyLost'
  BY DEF PagesTypeOK, NobodyLost
<1>6. RecoveredIsAnotherPage'
  BY DEF PagesTypeOK, CallsTypeOK, RecoveredIsAnotherPage, Claims, Carried, Leaving,
     Waits
<1>7. QED BY <1>1, <1>2, <1>3, <1>4, <1>5, <1>6 DEF PagesInv

LEMMA RestartedStep ==
    ASSUME PagesInv, NEW r \in Navigators, Restarted(r)
    PROVE  PagesInv'
<1> USE StoppedPagesAssumption DEF PagesInv, Restarted, webviews, SendTo, HeardFrom,
        FinishRequest, Go, With
<1>1. PagesTypeOK'
  <2>1. page' \in [Windows -> [id : Nat, url : Shown, mood : Moods \cup {"dead"}]]
    BY DEF PagesTypeOK, Shown
  <2>2. proc' \in [Windows -> Nat] /\ loads' \in Nat
    BY FS_CardinalityType DEF PagesTypeOK
  <2>3. flat' \subseteq Nat
    BY DEF PagesTypeOK, Measured, SpinningNow
  <2>4. sent' \in [Windows -> Shown \cup {Nil}]
    BY DEF PagesTypeOK, Shown
  <2>5. CallsTypeOK'
    BY DEF PagesTypeOK, CallsTypeOK, Carried, PageUrls
  <2>6. QED BY <2>1, <2>2, <2>3, <2>4, <2>5 DEF PagesTypeOK
<1>2. OneHolds'
  BY DEF PagesTypeOK, CallsTypeOK, OneHolds, Native, Carried
<1>3. Pausing'
  BY DEF PagesTypeOK, CallsTypeOK, OneHolds, Native, Pausing, Carried
<1>4. Leaving'
  BY DEF PagesTypeOK, CallsTypeOK, Leaving, Waits, Carried
<1>5. NobodyLost'
  BY DEF PagesTypeOK, NobodyLost
<1>6. RecoveredIsAnotherPage'
  BY SMTT(30) DEF PagesTypeOK, CallsTypeOK, RecoveredIsAnotherPage, Claims, Carried,
     Leaving, Waits
<1>7. QED BY <1>1, <1>2, <1>3, <1>4, <1>5, <1>6 DEF PagesInv

LEMMA StopWaitingStep ==
    ASSUME PagesInv, NEW r \in Navigators, StopWaiting(r)
    PROVE  PagesInv'
<1> USE StoppedPagesAssumption DEF PagesInv, StopWaiting, webviews, SendTo,
        HeardFrom, FinishRequest, Go, With
<1>1. PagesTypeOK'
  <2>1. page' \in [Windows -> [id : Nat, url : Shown, mood : Moods \cup {"dead"}]]
    BY DEF PagesTypeOK, Shown
  <2>2. proc' \in [Windows -> Nat] /\ loads' \in Nat
    BY FS_CardinalityType DEF PagesTypeOK
  <2>3. flat' \subseteq Nat
    BY DEF PagesTypeOK, Measured, SpinningNow
  <2>4. sent' \in [Windows -> Shown \cup {Nil}]
    BY DEF PagesTypeOK, Shown
  <2>5. CallsTypeOK'
    BY DEF PagesTypeOK, CallsTypeOK, Carried, PageUrls
  <2>6. QED BY <2>1, <2>2, <2>3, <2>4, <2>5 DEF PagesTypeOK
<1>2. OneHolds'
  BY DEF PagesTypeOK, CallsTypeOK, OneHolds, Native, Carried
<1>3. Pausing'
  BY DEF PagesTypeOK, CallsTypeOK, OneHolds, Native, Pausing, Carried
<1>4. Leaving'
  BY DEF PagesTypeOK, CallsTypeOK, Leaving, Waits, Carried
<1>5. NobodyLost'
  BY DEF PagesTypeOK, NobodyLost
<1>6. RecoveredIsAnotherPage'
  BY DEF PagesTypeOK, CallsTypeOK, RecoveredIsAnotherPage, Claims, Carried, Leaving,
     Waits
<1>7. QED BY <1>1, <1>2, <1>3, <1>4, <1>5, <1>6 DEF PagesInv

LEMMA HangUpStep ==
    ASSUME PagesInv, NEW r \in Navigators, HangUp(r)
    PROVE  PagesInv'
<1> USE StoppedPagesAssumption DEF PagesInv, HangUp, webviews, SendTo, HeardFrom,
        FinishRequest, Go, With
<1>1. PagesTypeOK'
  <2>1. page' \in [Windows -> [id : Nat, url : Shown, mood : Moods \cup {"dead"}]]
    BY DEF PagesTypeOK, Shown
  <2>2. proc' \in [Windows -> Nat] /\ loads' \in Nat
    BY FS_CardinalityType DEF PagesTypeOK
  <2>3. flat' \subseteq Nat
    BY DEF PagesTypeOK, Measured, SpinningNow
  <2>4. sent' \in [Windows -> Shown \cup {Nil}]
    BY DEF PagesTypeOK, Shown
  <2>5. CallsTypeOK'
    BY DEF PagesTypeOK, CallsTypeOK, Carried, PageUrls
  <2>6. QED BY <2>1, <2>2, <2>3, <2>4, <2>5 DEF PagesTypeOK
<1>2. OneHolds'
  BY DEF PagesTypeOK, CallsTypeOK, OneHolds, Native, Carried
<1>3. Pausing'
  BY DEF PagesTypeOK, CallsTypeOK, OneHolds, Native, Pausing, Carried
<1>4. Leaving'
  BY DEF PagesTypeOK, CallsTypeOK, Leaving, Waits, Carried
<1>5. NobodyLost'
  BY DEF PagesTypeOK, NobodyLost
<1>6. RecoveredIsAnotherPage'
  BY DEF PagesTypeOK, CallsTypeOK, RecoveredIsAnotherPage, Claims, Carried, Leaving,
     Waits
<1>7. QED BY <1>1, <1>2, <1>3, <1>4, <1>5, <1>6 DEF PagesInv
-----------------------------------------------------------------------------
LEMMA PagesStart == ASSUME PagesInit PROVE PagesInv
<1> USE StoppedPagesAssumption DEF PagesInit, NoCall
<1>1. PagesTypeOK
  <2>1. proc \in [Windows -> Nat]
    BY FS_CardinalityType
  <2>2. page \in [Windows -> [id : Nat, url : Shown, mood : Moods \cup {"dead"}]]
    BY DEF Shown, PageUrls, App, Moods
  <2>3. CallsTypeOK
    BY DEF CallsTypeOK, Carried
  <2>4. sent \in [Windows -> Shown \cup {Nil}] /\ flat \subseteq Nat /\ loads \in Nat
    OBVIOUS
  <2>5. QED BY <2>1, <2>2, <2>3, <2>4 DEF PagesTypeOK
<1>2. OneHolds /\ Leaving
  BY DEF OneHolds, Native, Leaving, Waits
<1>3. Pausing /\ NobodyLost /\ RecoveredIsAnotherPage
  BY DEF Pausing, NobodyLost, RecoveredIsAnotherPage, Claims
<1>4. QED BY <1>1, <1>2, <1>3 DEF PagesInv

LEMMA PagesStep == ASSUME PagesInv, [PagesNext]_pagesVars PROVE PagesInv'
<1>1. ASSUME NEW w \in Windows,
             Land(w) \/ DropSent(w) \/ \E mood \in Moods : ChangeMood(w, mood)
      PROVE  PagesInv'
  BY <1>1, LandStep, DropSentStep, ChangeMoodStep
<1>2. ASSUME NEW r \in Navigators, NEW w \in Windows,
             GoBack(r, w) \/ GoBackSilent(r, w) \/ \E url \in PageUrls : GoTo(r, w, url)
      PROVE  PagesInv'
  BY <1>2, GoBackStep, GoBackSilentStep, GoToStep
<1>3. ASSUME NEW r \in Navigators, CallStep(r) PROVE PagesInv'
  BY <1>3, PageAnswersStep, PageIsSilentStep, PassDetourStep, TakeLockStep,
     RecoverStep, LeaveDetourStep, RecoveredStep, PauseSpinningStep, WaitOnStep,
     EndProcessStep, ResumeStep, SendAgainStep, RestartedStep, StopWaitingStep,
     HangUpStep DEF CallStep
<1>4. CASE UNCHANGED pagesVars
  BY <1>4 DEF pagesVars, PagesInv, PagesTypeOK, CallsTypeOK, OneHolds, Pausing,
     Leaving, NobodyLost, RecoveredIsAnotherPage, Claims
<1>5. QED BY <1>1, <1>2, <1>3, <1>4 DEF PagesNext

(* However many calls navigate at once and whatever the pages do meanwhile: *)
(* ending a web process takes no page of another window that has answered,  *)
(* a paused process has a call that will resume it, and a call that reports *)
(* another page does not report the one that had stopped.                   *)
THEOREM RecoveryIsSafeAlways == PagesSpec => []RecoveryIsSafe
<1>1. PagesInv => RecoveryIsSafe
  BY DEF PagesInv, NobodyLost, Pausing, RecoveryIsSafe, BystandersKeepTheirPages
<1>2. QED BY PagesStart, PagesStep, <1>1, PTL DEF PagesSpec
-----------------------------------------------------------------------------
(***************************************************************************)
(* PhasesStandAlone and HostModulesDoNotRun for any calls, slots, tables   *)
(* and statements.  A call that works has one watchdog, of its own phase,  *)
(* because a phase is left only after its watchdog has ended; so whatever  *)
(* interrupts a phase was armed for it, after its time was up (Guarded).   *)
(* Until the application changes its schema, what a report counts and      *)
(* checks is what it listed, and the list tells which tables are virtual,  *)
(* the ones cut off included (KnowsTheFile).                               *)
(***************************************************************************)
Kinds == {"ordinary", "virtual"}
Results == {"none", "ok", "error", "interrupted", "refused"}
Threads ==
  [phase : {"none", "schema", "query", "meta", "count", "check", "ended"}, table : Nat,
   sql : {"idle", "running"}, runs : Nat, result : Results, over : BOOLEAN,
   hit : BOOLEAN, listed : Seq(Kinds), cut : BOOLEAN]

Reports == [result : Results, own : BOOLEAN]
Dogs ==
  [of : {"schema", "query", "meta", "count", "check"} \X Nat,
   at : {"parked", "looks", "fires", "out"}, done : BOOLEAN]

DbTypeOK ==
  /\ thread \in [DbCalls -> Threads]
  /\ dogs \in [DbCalls -> SUBSET Dogs]
  /\ report \in [DbCalls -> Reports]
  /\ file \in Seq(Kinds) /\ foreign \in BOOLEAN /\ migrated \in BOOLEAN /\ ranHost \in BOOLEAN

(* What is so of a thread t with the watchdogs gs.                         *)
Works(t) == t.phase \notin {"none", "ended"}

Guarded(t, gs) ==
  /\ IF Works(t)
     THEN \E g \in gs : /\ gs = {g} /\ g.of = <<t.phase, t.table>>
                        /\ g.at \in {"looks", "fires"} => t.over
     ELSE gs = {}
  /\ t.hit \/ t.result = "interrupted" => t.over

(* And what it knows of the tables.                                        *)
KnowsTheFile(t) ==
  /\ t.phase \in {"count", "check"} => t.listed = Listed /\ t.cut = (Len(file) > MaxTables)
  /\ t.phase = "count" => t.table \in DOMAIN t.listed /\ t.listed[t.table] = "ordinary"
  /\ t.phase = "check" /\ t.table = 0 => ~(MayHoldVirtual(t.listed, t.cut) /\ foreign)

DbInv ==
  /\ DbTypeOK
  /\ \A d \in DbCalls : Guarded(thread[d], dogs[d])
  /\ ~migrated => \A d \in DbCalls : KnowsTheFile(thread[d])
  /\ HostModulesDoNotRun
  /\ PhasesStandAlone
-----------------------------------------------------------------------------
(* The smallest of some numbers. *)
LEMMA FirstOfSome ==
  ASSUME NEW S, S \subseteq Nat, S # {}
  PROVE  /\ (CHOOSE i \in S : \A j \in S : i <= j) \in S
         /\ \A j \in S : (CHOOSE i \in S : \A k \in S : i <= k) <= j
<1> DEFINE Below == {ss \in Nat \X Nat : ss[1] < ss[2]}
<1>1. IsWellFoundedOn(Below, Nat)
  BY NatLessThanWellFounded, Zenon DEF OpToRel
<1> HIDE DEF Below
<1>2. PICK i \in S : \A j \in S : ~(<<j, i>> \in Below)
  BY <1>1, WFMin, Zenon
<1>3. \A j \in S : i <= j
  <2> SUFFICES ASSUME NEW j \in S, ~(i <= j) PROVE FALSE
    OBVIOUS
  <2>1. i \in Nat /\ j \in Nat
    OBVIOUS
  <2>2. j < i
    BY <2>1
  <2>3. <<j, i>> \in Nat \X Nat /\ <<j, i>>[1] < <<j, i>>[2]
    BY <2>1, <2>2
  <2> QED BY <1>2, <2>3, Zenon DEF Below
<1>4. \E k \in S : \A j \in S : k <= j
  BY <1>3
<1> QED BY <1>4, Zenon

LEMMA DbInitInv ==
  ASSUME DbInit
  PROVE  DbInv
<1> USE DatabaseCallsAssumption
<1>1. NoThread \in Threads
  <2>1. <<>> \in Seq(Kinds)
    BY EmptySeq
  <2> QED BY <2>1 DEF NoThread, Threads, Results
<1>2. DbTypeOK
  BY <1>1 DEF DbInit, DbTypeOK, Kinds, NoOutcome, Reports, Results
<1>3. \A d \in DbCalls : Guarded(thread[d], dogs[d])
  BY DEF DbInit, Guarded, Works, NoThread
<1>4. \A d \in DbCalls : KnowsTheFile(thread[d])
  BY DEF DbInit, KnowsTheFile, NoThread
<1> QED
  BY <1>2, <1>3, <1>4 DEF DbInit, DbInv, HostModulesDoNotRun, PhasesStandAlone, NoOutcome

(* Code of the host runs in a step only after the schema was changed.      *)
HostIsKept == UNCHANGED fileVars /\ (ranHost' = ranHost \/ (ranHost' = TRUE /\ migrated))

(* A step that leaves the threads and their watchdogs, or changes those of *)
(* one call in a way that keeps what is so of them.                        *)
LEMMA OneThreadChanges ==
  ASSUME DbInv, NEW d, NEW t, NEW gs,
         thread' = [thread EXCEPT ![d] = t], dogs' = [dogs EXCEPT ![d] = gs],
         d \in DbCalls => /\ t \in Threads /\ gs \in SUBSET Dogs /\ Guarded(t, gs)
                          /\ ~migrated => KnowsTheFile(t),
         report' \in [DbCalls -> Reports], PhasesStandAlone', HostIsKept
  PROVE  DbInv'
<1>1. DbTypeOK'
  BY DEF DbInv, DbTypeOK, fileVars, HostIsKept
<1>2. \A e \in DbCalls : Guarded(thread'[e], dogs'[e])
  BY DEF DbInv, DbTypeOK
<1>3. ASSUME ~migrated PROVE \A e \in DbCalls : KnowsTheFile(thread'[e])
  BY <1>3 DEF DbInv, DbTypeOK
<1>4. ~migrated' => \A e \in DbCalls : KnowsTheFile(thread[e])'
  BY <1>3 DEF KnowsTheFile, Listed, MayHoldVirtual, fileVars, HostIsKept
<1>5. (\A e \in DbCalls : Guarded(thread[e], dogs[e]))'
  BY <1>2
<1> QED
  BY <1>1, <1>5, <1>4 DEF DbInv, HostModulesDoNotRun, fileVars, HostIsKept

(* The watchdog of a thread that works.                                    *)
LEMMA ItsDog ==
  ASSUME DbInv, NEW d \in DbCalls, HasThread(d)
  PROVE  /\ dogs[d] = {Dog(d)} /\ Dog(d) \in Dogs
         /\ Dog(d).of = <<thread[d].phase, thread[d].table>>
         /\ Dog(d).at \in {"looks", "fires"} => thread[d].over
<1>1. PICK g \in dogs[d] : /\ dogs[d] = {g} /\ g.of = <<thread[d].phase, thread[d].table>>
                           /\ g.at \in {"looks", "fires"} => thread[d].over
  BY DEF DbInv, Guarded, Works, HasThread
<1>2. Dog(d) = g
  BY <1>1 DEF Dog
<1>3. g \in Dogs
  BY DEF DbInv, DbTypeOK
<1> QED BY <1>1, <1>2, <1>3

LEMMA ReportStays ==
  ASSUME DbInv, UNCHANGED report
  PROVE  report' \in [DbCalls -> Reports] /\ PhasesStandAlone'
BY DEF DbInv, DbTypeOK, PhasesStandAlone

(* A phase is entered once the watchdogs of the call are out.              *)
LEMMA EnterKeeps ==
  ASSUME DbInv, NEW d, NEW phase \in {"schema", "query", "meta", "count", "check"},
         NEW table \in Nat, NEW listed \in Seq(Kinds), NEW cut \in BOOLEAN,
         Enter(d, phase, table, FALSE, listed, cut),
         d \in DbCalls => \A g \in dogs[d] : g.at = "out",
         ~migrated => KnowsTheFile([NoThread EXCEPT !.phase = phase, !.table = table, !.over = FALSE,
                                                    !.listed = listed, !.cut = cut]),
         report' \in [DbCalls -> Reports], PhasesStandAlone', UNCHANGED <<fileVars, ranHost>>
  PROVE  DbInv'
<1> DEFINE t == [NoThread EXCEPT !.phase = phase, !.table = table, !.over = FALSE,
                                 !.listed = listed, !.cut = cut]
           new == [of |-> <<phase, table>>, at |-> "parked", done |-> FALSE]
<1>1. t \in Threads
  BY DEF NoThread, Threads, Results
<1>2. new \in Dogs
  BY DEF Dogs
<1>3. thread' = [thread EXCEPT ![d] = t]
  BY DEF Enter
<1>4. dogs' = [dogs EXCEPT ![d] = {new}]
  <2>1. CASE d \in DbCalls
    <3>1. {g \in dogs[d] : g.at # "out"} \cup {new} = {new}
      BY <2>1
    <3> HIDE DEF new
    <3> QED BY <3>1 DEF Enter, new
  <2>2. CASE d \notin DbCalls
    BY <2>2 DEF Enter, DbInv, DbTypeOK
  <2> QED BY <2>1, <2>2
<1>5. Guarded(t, {new})
  BY DEF Guarded, Works, NoThread
<1> HIDE DEF t, new
<1>6. ~migrated => KnowsTheFile(t)
  BY DEF t
<1> QED BY <1>1, <1>2, <1>3, <1>4, <1>5, <1>6, OneThreadChanges DEF HostIsKept

LEMMA EndsKeeps ==
  ASSUME DbInv, NEW d \in DbCalls, NEW answer, Ends(d, answer),
         report' \in [DbCalls -> Reports], PhasesStandAlone', UNCHANGED <<fileVars, ranHost>>
  PROVE  DbInv'
<1> DEFINE t == [NoThread EXCEPT !.phase = "ended"]
<1>1. t \in Threads
  <2>1. <<>> \in Seq(Kinds)
    BY EmptySeq
  <2> QED BY <2>1 DEF NoThread, Threads, Results
<1>2. Guarded(t, {})
  BY DEF Guarded, Works, NoThread
<1>3. KnowsTheFile(t)
  BY DEF KnowsTheFile, NoThread
<1>4. thread' = [thread EXCEPT ![d] = t] /\ dogs' = [dogs EXCEPT ![d] = {}]
  BY DEF Ends
<1> HIDE DEF t
<1> QED BY <1>1, <1>2, <1>3, <1>4, OneThreadChanges DEF HostIsKept

-----------------------------------------------------------------------------
(* The steps. *)
LEMMA WaitingKeeps ==
  ASSUME DbInv, UNCHANGED <<thread, dogs, report, fileVars, ranHost>>
  PROVE  DbInv'
BY DEF DbInv, DbTypeOK, KnowsTheFile, Listed, MayHoldVirtual, fileVars, HostModulesDoNotRun,
       PhasesStandAlone

LEMMA GetSlotKeeps ==
  ASSUME DbInv, GetSlot, \A d \in DbCalls : d = Head(dbQueue) => ~HasThread(d)
  PROVE  DbInv'
<1> DEFINE d == Head(dbQueue)
           t == [NoThread EXCEPT !.phase = "schema", !.table = 0, !.over = FALSE,
                                 !.listed = <<>>, !.cut = FALSE]
<1>1. Enter(d, "schema", 0, FALSE, <<>>, FALSE) /\ UNCHANGED <<report, fileVars, ranHost>>
  BY DEF GetSlot
<1>2. <<>> \in Seq(Kinds)
  BY EmptySeq
<1>3. d \in DbCalls => \A g \in dogs[d] : g.at = "out"
  BY DEF DbInv, Guarded, Works, HasThread
<1>4. KnowsTheFile(t)
  BY DEF KnowsTheFile, NoThread
<1> HIDE DEF d
<1> QED BY <1>1, <1>2, <1>3, <1>4, EnterKeeps, ReportStays

LEMMA DogKeeps ==
  ASSUME DbInv, NEW d \in DbCalls, NEW g \in dogs[d],
         DogWakes(d, g) \/ DogLooks(d, g) \/ DogFires(d, g)
  PROVE  DbInv'
<1>1. PICK to \in {"looks", "fires", "out"}, hit \in BOOLEAN :
        /\ dogs' = [dogs EXCEPT ![d] = (@ \ {g}) \cup {[g EXCEPT !.at = to]}]
        /\ thread' = [thread EXCEPT ![d] = [thread[d] EXCEPT !.hit = hit]]
        /\ to \in {"looks", "fires"} \/ hit => thread[d].over
        /\ UNCHANGED <<report, fileVars, ranHost>>
  <2>a. /\ thread[d] \in Threads /\ g \in Dogs /\ thread \in [DbCalls -> Threads]
        /\ thread[d].hit => thread[d].over
        /\ g.at \in {"looks", "fires"} => thread[d].over
    BY DEF DbInv, DbTypeOK, Guarded, Works
  <2>b. [thread[d] EXCEPT !.hit = thread[d].hit] = thread[d]
    BY <2>a DEF Threads
  <2>0. /\ thread[d] \in Threads /\ g \in Dogs
        /\ thread[d].hit => thread[d].over
        /\ thread = [thread EXCEPT ![d] = [thread[d] EXCEPT !.hit = thread[d].hit]]
        /\ g.at \in {"looks", "fires"} => thread[d].over
    BY <2>a, <2>b
  <2>1. CASE DogWakes(d, g)
    BY <2>0, <2>1 DEF DogWakes, Becomes, Threads
  <2>2. CASE DogLooks(d, g)
    BY <2>0, <2>2 DEF DogLooks, Becomes, Threads
  <2>3. CASE DogFires(d, g)
    BY <2>0, <2>3 DEF DogFires, Becomes, Threads
  <2> QED BY <2>1, <2>2, <2>3
<1> DEFINE t == [thread[d] EXCEPT !.hit = hit]
           h == [g EXCEPT !.at = to]
<1>2. thread[d] \in Threads /\ g \in Dogs /\ dogs[d] = {g} /\ HasThread(d)
      /\ g.of = <<thread[d].phase, thread[d].table>>
  BY DEF DbInv, DbTypeOK, Guarded, Works, HasThread
<1>3. t \in Threads /\ h \in Dogs
  BY <1>2 DEF Threads, Dogs
<1>4. dogs' = [dogs EXCEPT ![d] = {h}]
  BY <1>1, <1>2
<1>5. Guarded(t, {h})
  BY <1>1, <1>2 DEF Guarded, Works, HasThread, Threads, Dogs, DbInv
<1>6. ~migrated => KnowsTheFile(t)
  BY <1>2 DEF KnowsTheFile, DbInv, Threads
<1>7. thread' = [thread EXCEPT ![d] = t]
  BY <1>1
<1>8. report' \in [DbCalls -> Reports] /\ PhasesStandAlone' /\ UNCHANGED <<fileVars, ranHost>>
  BY <1>1, ReportStays
<1> HIDE DEF t, h
<1>9. {h} \in SUBSET Dogs
  BY <1>3
<1> QED BY <1>3, <1>4, <1>5, <1>6, <1>7, <1>8, <1>9, OneThreadChanges DEF HostIsKept

(* What a thread does within a phase: only its statement, its result and   *)
(* its time change.                                                        *)
LEMMA InPhaseKeeps ==
  ASSUME DbInv, NEW d \in DbCalls, HasThread(d), NEW t \in Threads,
         t.phase = thread[d].phase, t.table = thread[d].table,
         t.listed = thread[d].listed, t.cut = thread[d].cut,
         thread[d].over => t.over, t.hit \/ t.result = "interrupted" => t.over,
         thread' = [thread EXCEPT ![d] = t],
         UNCHANGED <<dogs, report>>, HostIsKept
  PROVE  DbInv'
<1>1. dogs[d] \in SUBSET Dogs /\ dogs' = [dogs EXCEPT ![d] = dogs[d]]
  BY DEF DbInv, DbTypeOK
<1>2. Guarded(t, dogs[d])
  <2>1. PICK g \in dogs[d] : /\ dogs[d] = {g} /\ g.of = <<thread[d].phase, thread[d].table>>
                             /\ g.at \in {"looks", "fires"} => thread[d].over
    BY DEF DbInv, Guarded, Works, HasThread
  <2> QED BY <2>1 DEF Guarded, Works, HasThread
<1>3. ~migrated => KnowsTheFile(t)
  BY DEF KnowsTheFile, DbInv
<1>4. report' \in [DbCalls -> Reports] /\ PhasesStandAlone'
  BY ReportStays
<1> QED BY <1>1, <1>2, <1>3, <1>4, OneThreadChanges

LEMMA TimeIsUpKeeps ==
  ASSUME DbInv, NEW d \in DbCalls, TimeIsUp(d)
  PROVE  DbInv'
<1> DEFINE t == [thread[d] EXCEPT !.over = TRUE]
<1>1. thread[d] \in Threads
  BY DEF DbInv, DbTypeOK
<1>2. /\ t \in Threads /\ t.phase = thread[d].phase /\ t.table = thread[d].table
      /\ t.listed = thread[d].listed /\ t.cut = thread[d].cut /\ t.over
  BY <1>1 DEF Threads
<1>3. thread' = [thread EXCEPT ![d] = t] /\ UNCHANGED <<dogs, report>> /\ HostIsKept
      /\ HasThread(d)
  BY DEF TimeIsUp, HostIsKept
<1> HIDE DEF t
<1> QED BY <1>2, <1>3, InPhaseKeeps

LEMMA StatementEndsKeeps ==
  ASSUME DbInv, NEW d \in DbCalls, NEW how \in {"ok", "error", "interrupted"},
         StatementEnds(d, how)
  PROVE  DbInv'
<1> DEFINE t == [thread[d] EXCEPT !.sql = "idle", !.hit = FALSE,
                                  !.result = IF how = "ok" THEN @ ELSE how]
<1>1. /\ thread[d] \in Threads
      /\ thread[d].hit => thread[d].over
      /\ thread[d].result = "none"
  BY DEF DbInv, DbTypeOK, Guarded, StatementEnds, InPhase
<1>2. /\ t \in Threads /\ t.phase = thread[d].phase /\ t.table = thread[d].table
      /\ t.listed = thread[d].listed /\ t.cut = thread[d].cut /\ t.over = thread[d].over
      /\ ~t.hit /\ t.result = (IF how = "ok" THEN "none" ELSE how)
  BY <1>1 DEF Threads, Results
<1>3. thread' = [thread EXCEPT ![d] = t] /\ UNCHANGED <<dogs, report>> /\ HostIsKept
      /\ HasThread(d) /\ (how = "interrupted" => thread[d].over)
  BY <1>1 DEF StatementEnds, InPhase, HostIsKept
<1> HIDE DEF t
<1> QED BY <1>2, <1>3, InPhaseKeeps

LEMMA WorkDoneKeeps ==
  ASSUME DbInv, NEW d \in DbCalls, WorkDone(d)
  PROVE  DbInv'
<1> DEFINE r == IF thread[d].phase = "schema" /\ thread[d].over THEN "refused" ELSE "ok"
           t == [thread[d] EXCEPT !.result = r]
<1>1. thread[d] \in Threads /\ (thread[d].hit => thread[d].over)
  BY DEF DbInv, DbTypeOK, Guarded
<1>2. /\ t \in Threads /\ t.phase = thread[d].phase /\ t.table = thread[d].table
      /\ t.listed = thread[d].listed /\ t.cut = thread[d].cut /\ t.over = thread[d].over
      /\ t.hit = thread[d].hit /\ t.result # "interrupted"
  BY <1>1 DEF Threads, Results
<1>3. thread' = [thread EXCEPT ![d] = t] /\ UNCHANGED <<dogs, report>> /\ HostIsKept
      /\ HasThread(d)
  BY DEF WorkDone, InPhase, HostIsKept
<1> HIDE DEF t
<1> QED BY <1>1, <1>2, <1>3, InPhaseKeeps

(* A statement runs the code of no host module before the application has  *)
(* changed its schema.                                                     *)
LEMMA NoHostCode ==
  ASSUME DbInv, NEW d \in DbCalls, ~migrated
  PROVE  ~RunsHost(d)
<1>0. MaxTables \in Nat
  BY DatabaseCallsAssumption DEF DatabaseCallsAssumption
<1>1. thread[d] \in Threads /\ KnowsTheFile(thread[d]) /\ file \in Seq(Kinds)
  BY DEF DbInv, DbTypeOK
<1> DEFINE list == thread[d].listed
           n == IF Len(file) < MaxTables THEN Len(file) ELSE MaxTables
<1>2. Len(file) \in Nat /\ DOMAIN file = 1..Len(file) /\ n \in Nat /\ n <= Len(file)
      /\ \A i \in 1..n : file[i] \in Kinds
  BY <1>0, <1>1, LenProperties
<1>3. /\ Listed \in Seq(Kinds) /\ Len(Listed) = n
      /\ \A i \in 1..n : Listed[i] = file[i]
  BY <1>2, SubSeqProperties DEF Listed
<1>4. DOMAIN Listed = 1..n
  BY <1>3, LenProperties
<1>5. CASE thread[d].phase = "count" /\ file[thread[d].table] = "virtual"
  BY <1>1, <1>3, <1>4, <1>5 DEF KnowsTheFile
<1>6. CASE foreign /\ Whole(d) /\ \E i \in DOMAIN file : file[i] = "virtual"
  <2>1. thread[d].cut \/ \E k \in DOMAIN Listed : Listed[k] # "ordinary"
    <3>1. PICK i \in 1..Len(file) : file[i] = "virtual"
      BY <1>2, <1>6
    <3>2. Listed = thread[d].listed /\ thread[d].cut = (Len(file) > MaxTables)
      BY <1>1, <1>6 DEF KnowsTheFile, Whole
    <3>3. CASE Len(file) > MaxTables
      BY <3>2, <3>3
    <3>4. CASE ~(Len(file) > MaxTables)
      <4>1. n = Len(file)
        <5>1. Len(file) \in Nat
          BY <1>2
        <5> QED BY <1>0, <5>1, <3>4
      <4> QED BY <1>3, <1>4, <3>1, <4>1
    <3> QED BY <3>3, <3>4
  <2> QED BY <1>1, <1>6, <2>1 DEF KnowsTheFile, Whole, MayHoldVirtual
<1> QED BY <1>5, <1>6 DEF RunsHost

LEMMA StatementKeeps ==
  ASSUME DbInv, NEW d \in DbCalls, Statement(d)
  PROVE  DbInv'
<1> DEFINE t == [thread[d] EXCEPT !.sql = "running", !.runs = @ + 1]
<1>1. thread[d] \in Threads /\ (thread[d].hit \/ thread[d].result = "interrupted" => thread[d].over)
  BY DEF DbInv, DbTypeOK, Guarded
<1>2. /\ t.phase = thread[d].phase /\ t.table = thread[d].table
      /\ t.listed = thread[d].listed /\ t.cut = thread[d].cut /\ t.over = thread[d].over
      /\ t.hit = thread[d].hit /\ t.result = thread[d].result
  BY <1>1 DEF Threads
<1>3. t \in Threads
  <2>1. thread[d].runs + 1 \in Nat
    BY <1>1 DEF Threads
  <2> QED BY <1>1, <2>1 DEF Threads
<1>4. /\ thread' = [thread EXCEPT ![d] = t] /\ UNCHANGED <<dogs, report, fileVars>>
      /\ HasThread(d) /\ ranHost' = (ranHost \/ RunsHost(d))
  BY DEF Statement, InPhase
<1>5. HostIsKept
  <2>1. CASE RunsHost(d)
    BY <1>4, <2>1, NoHostCode DEF HostIsKept
  <2>2. CASE ~RunsHost(d)
    BY <1>4, <2>2 DEF HostIsKept, DbInv, DbTypeOK
  <2> QED BY <2>1, <2>2
<1> HIDE DEF t
<1> QED BY <1>1, <1>2, <1>3, <1>4, <1>5, InPhaseKeeps

(* The guard is dropped.                                                   *)
LEMMA DisarmKeeps ==
  ASSUME DbInv, NEW d \in DbCalls, Disarm(d)
  PROVE  DbInv'
<1> DEFINE g == Dog(d)
           h == [g EXCEPT !.done = TRUE]
<1>1. /\ HasThread(d) /\ UNCHANGED <<thread, report, fileVars, ranHost>>
      /\ dogs' = [dogs EXCEPT ![d] = (@ \ {g}) \cup {h}]
  BY DEF Disarm
<1>2. /\ dogs[d] = {g} /\ g \in Dogs /\ g.of = <<thread[d].phase, thread[d].table>>
      /\ g.at \in {"looks", "fires"} => thread[d].over
  BY <1>1, ItsDog
<1>3. h \in Dogs /\ h.of = g.of /\ h.at = g.at
  BY <1>2 DEF Dogs
<1>4. dogs' = [dogs EXCEPT ![d] = {h}]
  BY <1>1, <1>2
<1> HIDE DEF g, h
<1>5. thread[d] \in Threads /\ Guarded(thread[d], {h}) /\ thread' = [thread EXCEPT ![d] = thread[d]]
  BY <1>1, <1>2, <1>3 DEF Guarded, Works, HasThread, DbInv, DbTypeOK
<1>6. {h} \in SUBSET Dogs
  BY <1>3
<1>7. HostIsKept /\ (~migrated => KnowsTheFile(thread[d]))
  BY <1>1 DEF HostIsKept, DbInv
<1>8. report' \in [DbCalls -> Reports] /\ PhasesStandAlone'
  BY <1>1, ReportStays
<1> QED BY <1>4, <1>5, <1>6, <1>7, <1>8, OneThreadChanges

(* The next table that is counted is one of the list, and not virtual; the *)
(* whole database is checked only when it holds none, or the host has no   *)
(* module.                                                                 *)
LEMMA CountOrCheckKeeps ==
  ASSUME DbInv, NEW d \in DbCalls, NEW list \in Seq(Kinds), NEW cut \in BOOLEAN, NEW spent,
         CountOrCheck(d, list, cut, spent), thread[d].table \in Nat,
         \A g \in dogs[d] : g.at = "out",
         ~migrated => list = Listed /\ cut = (Len(file) > MaxTables),
         report' \in [DbCalls -> Reports], PhasesStandAlone', UNCHANGED <<fileVars, ranHost>>
  PROVE  DbInv'
<1> DEFINE more == Countable(list, thread[d].table)
           first == LeastOf(more)
           whole == IF MayHoldVirtual(list, cut) /\ foreign THEN 1 ELSE 0
           Next(phase, table) ==
             [NoThread EXCEPT !.phase = phase, !.table = table, !.over = FALSE,
                              !.listed = list, !.cut = cut]
<1>1. CASE Enter(d, "check", whole, FALSE, list, cut)
  <2>1. ~migrated => KnowsTheFile(Next("check", whole))
    BY DEF KnowsTheFile, NoThread
  <2>2. whole \in Nat
    OBVIOUS
  <2> HIDE DEF whole
  <2> QED BY <1>1, <2>1, <2>2, EnterKeeps
<1>2. CASE more # {} /\ Enter(d, "count", first, FALSE, list, cut)
  <2>1. more \subseteq Nat
    <3>1. DOMAIN list = 1..Len(list) /\ Len(list) \in Nat
      BY LenProperties
    <3> QED BY <3>1 DEF Countable
  <2>2. first \in more
    BY <1>2, <2>1, FirstOfSome DEF LeastOf
  <2>3. first \in Nat /\ first \in DOMAIN list /\ list[first] = "ordinary"
    BY <2>1, <2>2 DEF Countable
  <2> HIDE DEF first
  <2>4. ~migrated => KnowsTheFile(Next("count", first))
    BY <2>3 DEF KnowsTheFile, NoThread
  <2> QED BY <1>2, <2>3, <2>4, EnterKeeps
<1> QED BY <1>1, <1>2 DEF CountOrCheck, EnterCheck

LEMMA PhaseOverKeeps ==
  ASSUME DbInv, NEW d \in DbCalls, PhaseOver(d)
  PROVE  DbInv'
<1> DEFINE t == thread[d]
<1>1. /\ t \in Threads /\ HasThread(d)
      /\ t.result = "interrupted" => t.over
  BY DEF DbInv, DbTypeOK, Guarded, PhaseOver, Joined
<1>2. \A g \in dogs[d] : g.at = "out"
  BY <1>1, ItsDog DEF PhaseOver, Joined
<1>3. report' \in [DbCalls -> Reports] /\ PhasesStandAlone'
  <2>1. Outcome(d) \in Reports
    BY <1>1 DEF Outcome, Reports, Threads
  <2>2. report' \in [DbCalls -> Reports]
    BY <2>1 DEF PhaseOver, DbInv, DbTypeOK
  <2>3. \A e \in DbCalls : report'[e].result = "interrupted" => report'[e].own
    <3> SUFFICES ASSUME NEW e \in DbCalls, report'[e].result = "interrupted"
                 PROVE  report'[e].own
      OBVIOUS
    <3>1. CASE e = d
      BY <1>1, <3>1 DEF PhaseOver, Outcome, DbInv, DbTypeOK
    <3>2. CASE e # d
      BY <3>2 DEF PhaseOver, DbInv, DbTypeOK, PhasesStandAlone
    <3> QED BY <3>1, <3>2
  <2> QED BY <2>2, <2>3 DEF PhasesStandAlone
<1>4. UNCHANGED <<fileVars, ranHost>>
  BY DEF PhaseOver
<1>5. <<>> \in Seq(Kinds)
  BY EmptySeq
<1>6. ASSUME NEW answer, Ends(d, answer) PROVE DbInv'
  BY <1>3, <1>4, <1>6, EndsKeeps
<1>7. ASSUME NEW phase \in {"query", "meta"}, Enter(d, phase, 0, FALSE, <<>>, FALSE)
      PROVE  DbInv'
  <2>1. KnowsTheFile([NoThread EXCEPT !.phase = phase, !.table = 0, !.over = FALSE,
                                      !.listed = <<>>, !.cut = FALSE])
    BY DEF KnowsTheFile, NoThread
  <2> QED BY <1>2, <1>3, <1>4, <1>5, <1>7, <2>1, EnterKeeps
<1>8. CASE AfterSchema(d)
  BY <1>6, <1>7, <1>8 DEF AfterSchema
<1>9. CASE AfterQuery(d)
  BY <1>6, <1>9 DEF AfterQuery
<1>10. CASE AfterListing(d)
  <2>1. CASE CountOrCheck(d, Listed, Len(file) > MaxTables, FALSE)
    <3>1. MaxTables \in Nat /\ file \in Seq(Kinds)
      BY DatabaseCallsAssumption DEF DatabaseCallsAssumption, DbInv, DbTypeOK
    <3> DEFINE n == IF Len(file) < MaxTables THEN Len(file) ELSE MaxTables
    <3>2. n \in Nat /\ \A i \in 1..n : file[i] \in Kinds
      BY <3>1, LenProperties
    <3>3. Listed \in Seq(Kinds)
      BY <3>2, SubSeqProperties DEF Listed
    <3> DEFINE c == Len(file) > MaxTables
    <3>4. CountOrCheck(d, Listed, c, FALSE) /\ t.table \in Nat
      <4>1. CountOrCheck(d, Listed, c, FALSE)
        BY <2>1, Zenon
      <4> QED BY <1>1, <4>1 DEF Threads
    <3>6. c \in BOOLEAN
      <4>1. Len(file) \in Nat
        BY <3>1, LenProperties
      <4> QED BY <3>1, <4>1
    <3>5. c = (Len(file) > MaxTables)
      OBVIOUS
    <3> HIDE DEF c
    <3> QED BY <1>2, <1>3, <1>4, <3>3, <3>4, <3>5, <3>6, CountOrCheckKeeps
  <2> QED BY <1>6, <1>10, <2>1 DEF AfterListing
<1>11. CASE AfterCount(d)
  <2>1. PICK spent : CountOrCheck(d, t.listed, t.cut, spent)
    BY <1>11 DEF AfterCount
  <2>2. ~migrated => t.listed = Listed /\ t.cut = (Len(file) > MaxTables)
    BY <1>11 DEF AfterCount, DbInv, KnowsTheFile
  <2>3. t.listed \in Seq(Kinds) /\ t.cut \in BOOLEAN /\ t.table \in Nat
    BY <1>1 DEF Threads
  <2> QED BY <1>2, <1>3, <1>4, <2>1, <2>2, <2>3, CountOrCheckKeeps
<1>12. CASE AfterCheck(d)
  BY <1>6, <1>12 DEF AfterCheck
<1> QED BY <1>8, <1>9, <1>10, <1>11, <1>12 DEF PhaseOver

(* The application changes its schema.                                     *)
LEMMA MigrationKeeps ==
  ASSUME DbInv, AppMigrates
  PROVE  DbInv'
<1>1. file \in Seq(Kinds) /\ "virtual" \in Kinds
  BY DEF DbInv, DbTypeOK, Kinds
<1>2. file' \in Seq(Kinds)
  <2>1. CASE file' = Append(file, "virtual")
    BY <1>1, <2>1, AppendProperties
  <2>2. ASSUME NEW i \in DOMAIN file, file' = [file EXCEPT ![i] = "virtual"]
        PROVE  file' \in Seq(Kinds)
    <3>1. i \in 1..Len(file)
      BY <1>1, LenProperties
    <3> QED BY <1>1, <2>2, <3>1, ExceptSeq
  <2> QED BY <2>1, <2>2 DEF AppMigrates
<1>3. migrated' /\ UNCHANGED <<thread, dogs, report, foreign, ranHost>> /\ migrated' \in BOOLEAN
  BY DEF AppMigrates
<1> QED BY <1>2, <1>3 DEF DbInv, DbTypeOK, HostModulesDoNotRun, PhasesStandAlone
-----------------------------------------------------------------------------
(* A call is queued once, and has no thread before its turn; so never more *)
(* threads than slots, those of callers that gave up included.             *)
QueueInv ==
  /\ caller \in [DbCalls -> {"idle", "queued", "waiting", "busy", "late", "ok", "error"}]
  /\ dbQueue \in Seq(DbCalls)
  /\ \A i, j \in DOMAIN dbQueue : dbQueue[i] = dbQueue[j] => i = j
  /\ \A i \in DOMAIN dbQueue : caller[dbQueue[i]] = "queued"
  /\ \A d \in DbCalls : caller[d] \in {"idle", "queued"} => thread[d].phase = "none"
  /\ \A d \in DbCalls : caller[d] = "queued" => \E i \in DOMAIN dbQueue : dbQueue[i] = d

SlotsSuffice == Cardinality(Busy) =< DbSlots

LEMMA QueueInvStep ==
  ASSUME DbInv, QueueInv, [DbNext]_dbVars
  PROVE  QueueInv'
<1>0. /\ caller \in [DbCalls -> {"idle", "queued", "waiting", "busy", "late", "ok", "error"}]
      /\ dbQueue \in Seq(DbCalls) /\ thread \in [DbCalls -> Threads]
      /\ Len(dbQueue) \in Nat /\ DOMAIN dbQueue = 1..Len(dbQueue)
  BY LenProperties DEF DbInv, DbTypeOK, QueueInv
<1>1. ASSUME NEW d \in DbCalls, Ask(d) PROVE QueueInv'
  <2>1. /\ caller' = [caller EXCEPT ![d] = "queued"] /\ dbQueue' = Append(dbQueue, d)
        /\ thread' = thread /\ caller[d] = "idle"
    BY <1>1 DEF Ask
  <2>2. /\ dbQueue' \in Seq(DbCalls) /\ Len(dbQueue') = Len(dbQueue) + 1
        /\ \A i \in 1..Len(dbQueue) : dbQueue'[i] = dbQueue[i]
        /\ dbQueue'[Len(dbQueue) + 1] = d
    BY <1>0, <2>1, AppendProperties
  <2>3. DOMAIN dbQueue' = 1..(Len(dbQueue) + 1)
    BY <2>2, LenProperties
  <2>4. \A i \in DOMAIN dbQueue : dbQueue[i] # d
    BY <2>1 DEF QueueInv
  <2> QED BY <1>0, <2>1, <2>2, <2>3, <2>4 DEF QueueInv
<1>2. CASE GetSlot
  <2> DEFINE d == Head(dbQueue)
  <2>1. /\ dbQueue # <<>> /\ dbQueue' = Tail(dbQueue) /\ caller' = [caller EXCEPT ![d] = "waiting"]
        /\ Enter(d, "schema", 0, FALSE, <<>>, FALSE)
    BY <1>2 DEF GetSlot
  <2>2. /\ d \in DbCalls /\ d = dbQueue[1] /\ dbQueue' \in Seq(DbCalls)
        /\ Len(dbQueue') = Len(dbQueue) - 1
        /\ \A i \in 1..Len(dbQueue') : dbQueue'[i] = dbQueue[i + 1]
    BY <1>0, <2>1, HeadTailProperties
  <2>3. DOMAIN dbQueue' = 1..(Len(dbQueue) - 1)
    BY <2>2, LenProperties
  <2>4. \A e \in DbCalls : e # d => thread'[e] = thread[e]
    BY <1>0, <2>1 DEF Enter
  <2>5. 1 \in DOMAIN dbQueue
    BY <1>0, <2>1, EmptySeq
  <2> HIDE DEF d
  <2>6. \A i \in DOMAIN dbQueue' : i + 1 \in DOMAIN dbQueue /\ dbQueue'[i] = dbQueue[i + 1]
                                   /\ dbQueue'[i] # d
    BY <1>0, <2>2, <2>3, <2>5 DEF QueueInv
  <2>7. \A e \in DbCalls : caller'[e] = "queued" => \E i \in DOMAIN dbQueue' : dbQueue'[i] = e
    <3> SUFFICES ASSUME NEW e \in DbCalls, caller'[e] = "queued"
                 PROVE  \E i \in DOMAIN dbQueue' : dbQueue'[i] = e
      OBVIOUS
    <3>1. e # d /\ caller[e] = "queued"
      BY <1>0, <2>1, <2>2
    <3>2. PICK i \in DOMAIN dbQueue : dbQueue[i] = e
      BY <3>1 DEF QueueInv
    <3>3. i # 1 /\ i - 1 \in DOMAIN dbQueue' /\ (i - 1) + 1 = i
      BY <1>0, <2>2, <2>3, <3>1, <3>2
    <3> QED BY <2>6, <3>2, <3>3
  <2> QED BY <1>0, <2>1, <2>2, <2>4, <2>6, <2>7 DEF QueueInv
<1>3. ASSUME NEW d \in DbCalls, CallerGivesUp(d) PROVE QueueInv'
  <2>1. CASE caller[d] # "queued"
    BY <1>0, <1>3, <2>1 DEF CallerGivesUp, QueueInv
  <2>2. CASE caller[d] = "queued"
    <3> DEFINE k == CHOOSE i \in DOMAIN dbQueue : dbQueue[i] = d
               At(i) == IF i < k THEN i ELSE i + 1
    <3>1. /\ caller' = [caller EXCEPT ![d] = "busy"] /\ thread' = thread
          /\ dbQueue' = [i \in 1..(Len(dbQueue) - 1) |-> dbQueue[At(i)]]
      BY <1>3, <2>2 DEF CallerGivesUp, Without
    <3>2. k \in 1..Len(dbQueue) /\ dbQueue[k] = d
      BY <1>0, <2>2 DEF QueueInv
    <3> HIDE DEF k
    <3>3. Len(dbQueue) - 1 \in Nat
      BY <1>0, <3>2
    <3>4. \A i \in 1..(Len(dbQueue) - 1) : At(i) \in DOMAIN dbQueue /\ At(i) # k
      BY <1>0, <3>2
    <3>5. dbQueue' \in Seq(DbCalls)
      <4>1. \A i \in 1..(Len(dbQueue) - 1) : dbQueue[At(i)] \in DbCalls
        BY <1>0, <3>4, ElementOfSeq
      <4> HIDE DEF At
      <4> QED BY <3>1, <3>3, <4>1, IsASeq
    <3>6. /\ DOMAIN dbQueue' = 1..(Len(dbQueue) - 1)
          /\ \A i \in DOMAIN dbQueue' : dbQueue'[i] = dbQueue[At(i)]
      BY <3>1
    <3>7. \A i, j \in DOMAIN dbQueue' : At(i) = At(j) => i = j
      BY <1>0, <3>2, <3>6
    <3>8. \A i, j \in DOMAIN dbQueue' : dbQueue'[i] = dbQueue'[j] => i = j
      BY <3>4, <3>6, <3>7 DEF QueueInv
    <3>9. \A i \in DOMAIN dbQueue' : dbQueue'[i] # d
      BY <1>0, <3>2, <3>4, <3>6 DEF QueueInv
    <3>10. \A e \in DbCalls : caller'[e] = "queued" => \E i \in DOMAIN dbQueue' : dbQueue'[i] = e
      <4> SUFFICES ASSUME NEW e \in DbCalls, caller'[e] = "queued"
                   PROVE  \E i \in DOMAIN dbQueue' : dbQueue'[i] = e
        OBVIOUS
      <4>1. e # d /\ caller[e] = "queued"
        BY <1>0, <3>1
      <4>2. PICK i \in DOMAIN dbQueue : dbQueue[i] = e
        BY <4>1 DEF QueueInv
      <4> DEFINE j == IF i < k THEN i ELSE i - 1
      <4>3. i # k
        BY <3>2, <4>1, <4>2
      <4>4. j \in DOMAIN dbQueue' /\ At(j) = i
        BY <1>0, <3>2, <3>6, <4>3
      <4> QED BY <3>6, <4>2, <4>4
    <3>11. \A i \in DOMAIN dbQueue' : caller'[dbQueue'[i]] = "queued"
      BY <1>0, <3>1, <3>4, <3>6, <3>9 DEF QueueInv
    <3> HIDE DEF At
    <3> QED BY <1>0, <3>1, <3>5, <3>8, <3>10, <3>11 DEF QueueInv
  <2> QED BY <2>1, <2>2
<1>4. ASSUME NEW d \in DbCalls, HasThread(d), UNCHANGED dbQueue,
             \A e \in DbCalls : e # d => caller'[e] = caller[e] /\ thread'[e] = thread[e],
             caller'[d] \in {caller[d], "ok", "error"},
             caller' \in [DbCalls -> {"idle", "queued", "waiting", "busy", "late", "ok", "error"}],
             caller[d] # "waiting" => caller'[d] = caller[d]
      PROVE  QueueInv'
  <2>1. caller[d] \notin {"idle", "queued"}
    BY <1>4 DEF QueueInv, HasThread
  <2>2. caller'[d] \notin {"idle", "queued"}
    BY <1>4, <2>1
  <2> QED BY <1>0, <1>4, <2>1, <2>2 DEF QueueInv
<1>5. ASSUME NEW d \in DbCalls, TimeIsUp(d) \/ Statement(d) \/ WorkDone(d)
                                \/ \E how \in {"ok", "error", "interrupted"} : StatementEnds(d, how)
      PROVE  QueueInv'
  BY <1>0, <1>4, <1>5 DEF TimeIsUp, Statement, WorkDone, StatementEnds, InPhase
<1>6. ASSUME NEW d \in DbCalls, NEW g \in dogs[d], DogFires(d, g) PROVE QueueInv'
  <2>1. HasThread(d)
    BY DEF DbInv, Guarded, Works, HasThread
  <2> QED BY <1>0, <1>4, <1>6, <2>1 DEF DogFires
<1>7. ASSUME UNCHANGED <<caller, dbQueue, thread>> PROVE QueueInv'
  BY <1>7 DEF QueueInv
<1>8. ASSUME NEW d \in DbCalls, PhaseOver(d) PROVE QueueInv'
  <2>1. HasThread(d) /\ UNCHANGED dbQueue
    BY <1>8 DEF PhaseOver, Joined
  <2>2. \/ \E phase, table, listed, cut : Enter(d, phase, table, FALSE, listed, cut) /\ UNCHANGED caller
        \/ \E answer \in {"ok", "error"} : Ends(d, answer)
    BY <1>8 DEF PhaseOver, AfterSchema, AfterQuery, AfterListing, AfterCount, AfterCheck,
                CountOrCheck, EnterCheck
  <2>3. \A e \in DbCalls : e # d => caller'[e] = caller[e] /\ thread'[e] = thread[e]
    BY <1>0, <2>2 DEF Enter, Ends
  <2>4. /\ caller'[d] \in {caller[d], "ok", "error"}
        /\ caller[d] # "waiting" => caller'[d] = caller[d]
        /\ caller' \in [DbCalls -> {"idle", "queued", "waiting", "busy", "late", "ok", "error"}]
    BY <1>0, <2>2 DEF Ends
  <2> QED BY <2>1, <2>3, <2>4, <1>4
<1> QED
  BY <1>1, <1>2, <1>3, <1>5, <1>6, <1>7, <1>8
     DEF DbNext, dbVars, AppMigrates, Disarm, DogWakes, DogLooks

LEMMA DbInvStep ==
  ASSUME DbInv, QueueInv, [DbNext]_dbVars
  PROVE  DbInv'
<1>1. CASE GetSlot
  <2>1. dbQueue # <<>> /\ dbQueue \in Seq(DbCalls)
    BY <1>1 DEF GetSlot, QueueInv
  <2>2. Head(dbQueue) = dbQueue[1] /\ 1 \in DOMAIN dbQueue
    BY <2>1, LenProperties, EmptySeq
  <2>3. \A d \in DbCalls : d = Head(dbQueue) => ~HasThread(d)
    BY <2>2 DEF QueueInv, HasThread
  <2> QED BY <1>1, <2>3, GetSlotKeeps
<1>2. ASSUME UNCHANGED <<thread, dogs, report, fileVars, ranHost>> PROVE DbInv'
  BY <1>2, WaitingKeeps
<1>3. ASSUME NEW d \in DbCalls, Ask(d) \/ CallerGivesUp(d) PROVE DbInv'
  BY <1>2, <1>3 DEF Ask, CallerGivesUp
<1>4. CASE UNCHANGED dbVars
  BY <1>2, <1>4 DEF dbVars, fileVars
<1> QED
  BY <1>1, <1>3, <1>4, MigrationKeeps, TimeIsUpKeeps, StatementKeeps, WorkDoneKeeps, DisarmKeeps,
     PhaseOverKeeps, StatementEndsKeeps, DogKeeps DEF DbNext

(* A step ends threads, or starts one that there was a slot for.           *)
LEMMA SlotsStep ==
  ASSUME DbInv, QueueInv, SlotsSuffice, [DbNext]_dbVars
  PROVE  SlotsSuffice'
<1>0. IsFiniteSet(DbCalls) /\ DbSlots \in Nat /\ thread \in [DbCalls -> Threads]
  BY DatabaseCallsAssumption DEF DatabaseCallsAssumption, DbInv, DbTypeOK
<1>1. IsFiniteSet(Busy) /\ Cardinality(Busy) \in Nat
  BY <1>0, FS_Subset, FS_CardinalityType DEF Busy
<1>2. ASSUME NEW d, Busy' \subseteq Busy \cup {d}, Cardinality(Busy) < DbSlots
      PROVE  SlotsSuffice'
  <2>1. IsFiniteSet(Busy \cup {d}) /\ Cardinality(Busy \cup {d}) =< Cardinality(Busy) + 1
    BY <1>1, FS_AddElement
  <2>2. IsFiniteSet(Busy') /\ Cardinality(Busy') =< Cardinality(Busy \cup {d})
    BY <1>2, <2>1, FS_Subset
  <2>3. Cardinality(Busy') \in Nat /\ Cardinality(Busy \cup {d}) \in Nat
    BY <2>1, <2>2, FS_CardinalityType
  <2> QED BY <1>0, <1>1, <1>2, <2>1, <2>2, <2>3 DEF SlotsSuffice
<1>3. CASE GetSlot
  <2> DEFINE d == Head(dbQueue)
  <2>1. Busy' \subseteq Busy \cup {d}
    BY <1>0, <1>3 DEF GetSlot, Enter, Busy, HasThread
  <2>2. Cardinality(Busy) < DbSlots
    BY <1>3 DEF GetSlot, FreeSlot
  <2> HIDE DEF d
  <2> QED BY <1>2, <2>1, <2>2
<1>4. ASSUME Busy' \subseteq Busy PROVE SlotsSuffice'
  <2>1. IsFiniteSet(Busy') /\ Cardinality(Busy') =< Cardinality(Busy)
    BY <1>1, <1>4, FS_Subset
  <2>2. Cardinality(Busy') \in Nat
    BY <2>1, FS_CardinalityType
  <2> QED BY <1>0, <1>1, <2>1, <2>2 DEF SlotsSuffice
<1>5. ASSUME NEW d \in DbCalls, HasThread(d),
             \A e \in DbCalls : e # d => thread'[e] = thread[e]
      PROVE  SlotsSuffice'
  BY <1>4, <1>5 DEF Busy, HasThread
<1>6. ASSUME UNCHANGED thread PROVE SlotsSuffice'
  BY <1>4, <1>6 DEF Busy, HasThread
<1>7. ASSUME NEW d \in DbCalls, TimeIsUp(d) \/ Statement(d) \/ WorkDone(d)
                                \/ \E how \in {"ok", "error", "interrupted"} : StatementEnds(d, how)
      PROVE  SlotsSuffice'
  BY <1>0, <1>5, <1>7 DEF TimeIsUp, Statement, WorkDone, StatementEnds, InPhase
<1>8. ASSUME NEW d \in DbCalls, NEW g \in dogs[d], DogFires(d, g) PROVE SlotsSuffice'
  <2>1. HasThread(d)
    BY DEF DbInv, Guarded, Works, HasThread
  <2> QED BY <1>0, <1>5, <1>8, <2>1 DEF DogFires
<1>9. ASSUME NEW d \in DbCalls, PhaseOver(d) PROVE SlotsSuffice'
  <2>1. HasThread(d)
    BY <1>9 DEF PhaseOver, Joined
  <2>2. \/ \E phase, table, listed, cut : Enter(d, phase, table, FALSE, listed, cut)
        \/ \E answer \in {"ok", "error"} : Ends(d, answer)
    BY <1>9 DEF PhaseOver, AfterSchema, AfterQuery, AfterListing, AfterCount, AfterCheck,
                CountOrCheck, EnterCheck
  <2>3. \A e \in DbCalls : e # d => thread'[e] = thread[e]
    BY <1>0, <2>2 DEF Enter, Ends
  <2> QED BY <2>1, <2>3, <1>5
<1> QED
  BY <1>3, <1>6, <1>7, <1>8, <1>9
     DEF DbNext, dbVars, Ask, CallerGivesUp, AppMigrates, Disarm, DogWakes, DogLooks

LEMMA DbInvariant == DbSpec => [](DbInv /\ QueueInv /\ SlotsSuffice)
<1>1. DbInit => DbInv /\ QueueInv /\ SlotsSuffice
  <2> SUFFICES ASSUME DbInit PROVE DbInv /\ QueueInv /\ SlotsSuffice
    OBVIOUS
  <2>1. QueueInv
    <3>1. <<>> \in Seq(DbCalls) /\ Len(<<>>) = 0
      BY EmptySeq
    <3> QED BY <3>1 DEF DbInit, QueueInv, NoThread
  <2>2. Busy = {}
    BY DEF DbInit, Busy, HasThread, NoThread
  <2>3. SlotsSuffice
    BY <2>2, FS_EmptySet, DatabaseCallsAssumption DEF SlotsSuffice, DatabaseCallsAssumption
  <2> QED BY <2>1, <2>3, DbInitInv
<1>2. DbInv /\ QueueInv /\ SlotsSuffice /\ [DbNext]_dbVars => (DbInv /\ QueueInv /\ SlotsSuffice)'
  BY DbInvStep, QueueInvStep, SlotsStep
<1> QED BY <1>1, <1>2, PTL DEF DbSpec

(* Callers that give up leave their threads behind, and still there are    *)
(* never more threads than slots (run_blocking_bounded, DB_SLOTS).         *)
THEOREM SlotsSufficeAlways == DbSpec => []SlotsSuffice
BY DbInvariant, PTL
-----------------------------------------------------------------------------
(***************************************************************************)
(* QueriesAreReads for any functions of the application and any number of  *)
(* columns.  An act that runs was allowed one by one (Allowed), and what   *)
(* is allowed changes nothing, whichever of the functions of a name SQLite *)
(* picks; what is refused was more than a read.  A column always finds a   *)
(* key: a key that is no column's name stands for a column whose name is   *)
(* taken, so the names and the keys together are no more than the columns. *)
(***************************************************************************)
Verbs == {"select", "with", "explain", "insert", "pragma"}

(* What the acts of a statement are.                                       *)
AnAct(a) ==
  \/ a = Read
  \/ \E f \in FunctionNames : a = Function(f)
  \/ \E p \in Pragmas, v \in BOOLEAN : a = PragmaAct(p, v)
  \/ \E t \in {"rtree_node", "table"}, m, r \in BOOLEAN : a = Write(t, m, r)

ARow(row) ==
  \/ row \in {Row("abs", TRUE, TRUE, FALSE), Row("load_extension", TRUE, FALSE, FALSE),
              Row("match", FALSE, FALSE, FALSE), Row("optimize", FALSE, FALSE, FALSE)}
  \/ row \in AppRows(introspects)

LEMMA ActsAre ==
  ASSUME NEW acts \in Acts
  PROVE  /\ DOMAIN acts = 1..Len(acts) /\ Len(acts) \in Nat \ {0}
         /\ \A i \in DOMAIN acts : AnAct(acts[i])
<1> DEFINE Short == \/ \E a : AnAct(a) /\ acts = <<a>>
                    \/ \E a, b : AnAct(a) /\ AnAct(b) /\ acts = <<a, b>>
<1>1. AnAct(Read) /\ AnAct(Function("abs"))
  BY DEF AnAct, FunctionNames, SQLITE_BUILTIN_FUNCTIONS
<1>2. CASE acts = <<Read>>
  BY <1>1, <1>2
<1>3. ASSUME NEW f \in FunctionNames, acts = <<Function(f)>> \/ acts = <<Function("abs"), Function(f)>>
      PROVE  Short
  <2>1. AnAct(Function(f))
    BY DEF AnAct
  <2> QED BY <1>1, <1>3, <2>1
<1>4. ASSUME NEW p \in Pragmas, NEW v \in BOOLEAN, acts = <<PragmaAct(p, v)>>
      PROVE  Short
  <2>1. AnAct(PragmaAct(p, v))
    BY DEF AnAct
  <2> QED BY <1>4, <2>1
<1>5. ASSUME NEW m \in BOOLEAN, acts = <<Write("rtree_node", m, FALSE), Read>>
      PROVE  Short
  <2>1. AnAct(Write("rtree_node", m, FALSE))
    BY DEF AnAct
  <2> QED BY <1>1, <1>5, <2>1
<1>6. ASSUME NEW t \in {"rtree_node", "table"}, acts = <<Write(t, TRUE, TRUE)>>
      PROVE  Short
  <2>1. AnAct(Write(t, TRUE, TRUE))
    BY DEF AnAct
  <2> QED BY <1>6, <2>1
<1>7. \/ acts = <<Read>>
      \/ \E f \in FunctionNames : acts = <<Function(f)>> \/ acts = <<Function("abs"), Function(f)>>
      \/ \E p \in Pragmas, v \in BOOLEAN : acts = <<PragmaAct(p, v)>>
      \/ \E m \in BOOLEAN : acts = <<Write("rtree_node", m, FALSE), Read>>
      \/ \E t \in {"rtree_node", "table"} : acts = <<Write(t, TRUE, TRUE)>>
  <2> DEFINE A == {<<Function(f)>> : f \in FunctionNames}
             B == {<<Function("abs"), Function(f)>> : f \in FunctionNames}
             C == {<<PragmaAct(p, v)>> : p \in Pragmas, v \in BOOLEAN}
             D == {<<Write("rtree_node", m, FALSE), Read>> : m \in BOOLEAN}
             E == {<<Write(t, TRUE, TRUE)>> : t \in {"rtree_node", "table"}}
  <2>1. Acts = {<<Read>>} \cup A \cup B \cup C \cup D \cup E
    BY SMT DEF Acts
  <2>2. acts \in A => \E f \in FunctionNames : acts = <<Function(f)>>
    OBVIOUS
  <2>3. acts \in B => \E f \in FunctionNames : acts = <<Function("abs"), Function(f)>>
    OBVIOUS
  <2>4. acts \in C => \E p \in Pragmas, v \in BOOLEAN : acts = <<PragmaAct(p, v)>>
    OBVIOUS
  <2>5. acts \in D => \E m \in BOOLEAN : acts = <<Write("rtree_node", m, FALSE), Read>>
    OBVIOUS
  <2>6. acts \in E => \E t \in {"rtree_node", "table"} : acts = <<Write(t, TRUE, TRUE)>>
    OBVIOUS
  <2>7. acts \in Acts
    OBVIOUS
  <2> HIDE DEF A, B, C, D, E
  <2> QED BY <2>1, <2>2, <2>3, <2>4, <2>5, <2>6, <2>7
<1>8. Short
  <2> HIDE DEF Short
  <2> QED BY <1>1, <1>3, <1>4, <1>5, <1>6, <1>7 DEF Short
<1> QED BY <1>8

(* A statement that is no PRAGMA has acts of its own, a PRAGMA has one.    *)
LEMMA StatementsAre ==
  ASSUME NEW s \in Statements
  PROVE  /\ s.acts \in Acts /\ s.verb \in Verbs
         /\ s.verb = "pragma" => \E p \in Pragmas, q \in Schemas, g \in Arguments :
              s.text = q \o <<p>> \o g /\ s.acts = <<PragmaAct(p, g # <<>>)>>
<1>1. CASE \E v \in {"select", "with", "explain", "insert"}, a \in Acts :
             s = [verb |-> v, text |-> <<>>, acts |-> a, count |-> 1, fits |-> TRUE]
  BY <1>1 DEF Verbs
<1>2. CASE s \in {[PlainSelect EXCEPT !.count = 2], [PlainSelect EXCEPT !.fits = FALSE]}
  <2>1. s.acts = <<Read>> /\ s.verb = "select"
    BY <1>2 DEF PlainSelect
  <2>2. <<Read>> \in Acts
    BY DEF Acts
  <2> QED BY <2>1, <2>2 DEF Verbs
<1>3. ASSUME NEW q \in Schemas, NEW p \in Pragmas, NEW g \in Arguments,
             s = [verb |-> "pragma", text |-> q \o <<p>> \o g, count |-> 1, fits |-> TRUE,
                  acts |-> <<PragmaAct(p, g # <<>>)>>]
      PROVE  /\ s.acts \in Acts /\ s.verb = "pragma"
             /\ s.text = q \o <<p>> \o g /\ s.acts = <<PragmaAct(p, g # <<>>)>>
  <2>1. /\ s.verb = "pragma" /\ s.text = q \o <<p>> \o g
        /\ s.acts = <<PragmaAct(p, g # <<>>)>>
    BY <1>3
  <2>2. PICK v \in BOOLEAN : v = (g # <<>>)
    OBVIOUS
  <2>3. <<PragmaAct(p, v)>> \in Acts
    <3> DEFINE A == {<<Function(f)>> : f \in FunctionNames}
               B == {<<Function("abs"), Function(f)>> : f \in FunctionNames}
               C == {<<PragmaAct(r, w)>> : r \in Pragmas, w \in BOOLEAN}
               D == {<<Write("rtree_node", m, FALSE), Read>> : m \in BOOLEAN}
               E == {<<Write(t, TRUE, TRUE)>> : t \in {"rtree_node", "table"}}
    <3>1. Acts = {<<Read>>} \cup A \cup B \cup C \cup D \cup E
      BY SMT DEF Acts
    <3>2. <<PragmaAct(p, v)>> \in C
      OBVIOUS
    <3> HIDE DEF A, B, C, D, E
    <3> QED BY <3>1, <3>2
  <2> QED BY <2>1, <2>2, <2>3
<1>4. \/ \E v \in {"select", "with", "explain", "insert"}, a \in Acts :
             s = [verb |-> v, text |-> <<>>, acts |-> a, count |-> 1, fits |-> TRUE]
      \/ \E q \in Schemas, p \in Pragmas, g \in Arguments :
             s = [verb |-> "pragma", text |-> q \o <<p>> \o g, count |-> 1, fits |-> TRUE,
                  acts |-> <<PragmaAct(p, g # <<>>)>>]
      \/ s \in {[PlainSelect EXCEPT !.count = 2], [PlainSelect EXCEPT !.fits = FALSE]}
  <2> DEFINE Plain(v, a) == [verb |-> v, text |-> <<>>, acts |-> a, count |-> 1, fits |-> TRUE]
             Pragma(q, p, g) ==
               [verb |-> "pragma", text |-> q \o <<p>> \o g, count |-> 1, fits |-> TRUE,
                acts |-> <<PragmaAct(p, g # <<>>)>>]
             A == {Plain(v, a) : v \in {"select", "with", "explain", "insert"}, a \in Acts}
             B == {Pragma(q, p, g) : q \in Schemas, p \in Pragmas, g \in Arguments}
             C == {[PlainSelect EXCEPT !.count = 2], [PlainSelect EXCEPT !.fits = FALSE]}
  <2>1. Statements = A \cup B \cup C
    BY SMT DEF Statements
  <2> HIDE DEF Plain, Pragma
  <2>2. s \in A => \E v \in {"select", "with", "explain", "insert"}, a \in Acts : s = Plain(v, a)
    OBVIOUS
  <2>3. s \in B => \E q \in Schemas, p \in Pragmas, g \in Arguments : s = Pragma(q, p, g)
    OBVIOUS
  <2>4. s \in Statements
    OBVIOUS
  <2> HIDE DEF A, B, C
  <2>5. \/ \E v \in {"select", "with", "explain", "insert"}, a \in Acts : s = Plain(v, a)
        \/ \E q \in Schemas, p \in Pragmas, g \in Arguments : s = Pragma(q, p, g)
        \/ s \in C
    BY <2>1, <2>2, <2>3, <2>4
  <2> QED BY <2>5, Zenon DEF Plain, Pragma, C
<1>5. CASE \E q \in Schemas, p \in Pragmas, g \in Arguments :
             s = [verb |-> "pragma", text |-> q \o <<p>> \o g, count |-> 1, fits |-> TRUE,
                  acts |-> <<PragmaAct(p, g # <<>>)>>]
  <2>1. PICK q \in Schemas, p \in Pragmas, g \in Arguments :
          /\ s.acts \in Acts /\ s.verb = "pragma"
          /\ s.text = q \o <<p>> \o g /\ s.acts = <<PragmaAct(p, g # <<>>)>>
    BY <1>3, <1>5, Zenon
  <2>2. "pragma" \in Verbs
    BY DEF Verbs
  <2> QED BY <2>1, <2>2, Zenon
<1> QED BY <1>1, <1>2, <1>4, <1>5, Zenon

(* The rows of the list: SQLite's own, and the application's.              *)
LEMMA RowsAre ==
  ASSUME PolicyInit
  PROVE  /\ DOMAIN registered = 1..Len(registered) /\ Len(registered) \in Nat
         /\ \A i \in DOMAIN registered : ARow(registered[i])
         /\ \A j \in 1..4 : \E i \in DOMAIN registered : registered[i] = OwnRows[j]
<1> DEFINE Own == {Row("abs", TRUE, TRUE, FALSE), Row("load_extension", TRUE, FALSE, FALSE),
                   Row("match", FALSE, FALSE, FALSE), Row("optimize", FALSE, FALSE, FALSE)}
           R == AppRows(introspects) \cup Own
<1>1. PICK n \in 0..MaxRows : \E more \in [1..n -> AppRows(introspects)] :
        registered \in {OwnRows \o more, more \o OwnRows}
  BY DEF PolicyInit
<1>2. PICK more \in [1..n -> AppRows(introspects)] :
        registered \in {OwnRows \o more, more \o OwnRows}
  BY <1>1
<1>3. n \in Nat
  BY <1>1, PolicyAssumption DEF PolicyAssumption
<1>4. OwnRows \in Seq(Own) /\ Len(OwnRows) = 4
  <2> DEFINE a == Row("abs", TRUE, TRUE, FALSE)
             b == Row("load_extension", TRUE, FALSE, FALSE)
             c == Row("match", FALSE, FALSE, FALSE)
             e == Row("optimize", FALSE, FALSE, FALSE)
  <2>1. OwnRows = <<a, b, c, e>> /\ Own = {a, b, c, e}
    BY DEF OwnRows
  <2> HIDE DEF a, b, c, e, Own
  <2> QED BY <2>1
<1>5. OwnRows \in Seq(R)
  BY <1>4, SeqMonotonic
<1>6. more \in Seq(R) /\ Len(more) = n
  <2> HIDE DEF Own
  <2> QED BY <1>2, <1>3
<1> HIDE DEF R
<1>7. /\ registered \in Seq(R) /\ Len(registered) = n + 4
      /\ \A j \in 1..4 : \E i \in 1..(n + 4) : registered[i] = OwnRows[j]
  <2>1. CASE registered = OwnRows \o more
    <3>1. /\ registered \in Seq(R) /\ Len(registered) = 4 + n
          /\ \A i \in 1..(4 + n) : registered[i] = IF i <= 4 THEN OwnRows[i] ELSE more[i - 4]
      <4>1. /\ OwnRows \o more \in Seq(R) /\ Len(OwnRows \o more) = Len(OwnRows) + Len(more)
            /\ \A i \in 1..(Len(OwnRows) + Len(more)) :
                 (OwnRows \o more)[i] = IF i <= Len(OwnRows) THEN OwnRows[i] ELSE more[i - Len(OwnRows)]
        BY <1>5, <1>6, ConcatProperties, Zenon
      <4> QED BY <1>3, <1>4, <1>6, <2>1, <4>1
    <3>2. \A j \in 1..4 : j \in 1..(n + 4) /\ registered[j] = OwnRows[j]
      BY <1>3, <3>1
    <3> QED BY <1>3, <3>1, <3>2
  <2>2. CASE registered = more \o OwnRows
    <3>1. /\ registered \in Seq(R) /\ Len(registered) = n + 4
          /\ \A i \in 1..(n + 4) : registered[i] = IF i <= n THEN more[i] ELSE OwnRows[i - n]
      <4>1. /\ more \o OwnRows \in Seq(R) /\ Len(more \o OwnRows) = Len(more) + Len(OwnRows)
            /\ \A i \in 1..(Len(more) + Len(OwnRows)) :
                 (more \o OwnRows)[i] = IF i <= Len(more) THEN more[i] ELSE OwnRows[i - Len(more)]
        BY <1>5, <1>6, ConcatProperties, Zenon
      <4> QED BY <1>3, <1>4, <1>6, <2>2, <4>1
    <3>2. \A j \in 1..4 : n + j \in 1..(n + 4) /\ registered[n + j] = OwnRows[j]
      BY <1>3, <3>1
    <3> QED BY <1>3, <3>1, <3>2
  <2> QED BY <1>2, <2>1, <2>2
<1>8. \A r \in R : ARow(r)
  BY DEF R, ARow
<1>9. DOMAIN registered = 1..Len(registered) /\ \A i \in DOMAIN registered : registered[i] \in R
  BY <1>7, LenProperties, ElementOfSeq
<1>10. Len(registered) = n + 4 /\ n + 4 \in Nat
  BY <1>3, <1>7
<1>11. DOMAIN registered = 1..(n + 4)
  BY <1>9, <1>10
<1> HIDE DEF R
<1> QED BY <1>7, <1>8, <1>9, <1>10, <1>11, Zenon

(* The name is read past a schema, and not past a dot of the argument.     *)
LEMMA FirstDotIs ==
  ASSUME NEW t, NEW n \in Nat, DOMAIN t = 1..n
  PROVE  \/ FirstDot(t) = 0 /\ \A i \in 1..n : t[i] # "."
         \/ /\ FirstDot(t) \in 1..n /\ t[FirstDot(t)] = "."
            /\ \A i \in 1..n : t[i] = "." => FirstDot(t) <= i
<1> DEFINE dots == {i \in DOMAIN t : t[i] = "."}
<1>1. CASE dots = {}
  BY <1>1 DEF FirstDot
<1>2. CASE dots # {}
  <2>1. dots \subseteq Nat
    OBVIOUS
  <2> DEFINE k == CHOOSE i \in dots : \A j \in dots : i <= j
  <2>2. k \in dots /\ \A j \in dots : k <= j
    <3> HIDE DEF dots
    <3> QED BY <1>2, <2>1, FirstOfSome
  <2>3. FirstDot(t) = k
    BY <1>2 DEF FirstDot
  <2> HIDE DEF k
  <2> QED BY <2>2, <2>3
<1> QED BY <1>1, <1>2

LEMMA UnquotedIs ==
  ASSUME NEW t, NEW from \in Nat, from \in 1..Len(t), Len(t) \in Nat, t[from] # "'"
  PROVE  Unquoted(t, from) = t[from]
<1> DEFINE Is(i) == t[i] # "'" /\ \A j \in from..(i - 1) : t[j] = "'"
<1>1. \A i \in from..Len(t) : Is(i) => i = from
  OBVIOUS
<1>2. from \in from..Len(t) /\ Is(from)
  OBVIOUS
<1>3. (CHOOSE i \in from..Len(t) : Is(i)) = from
  BY <1>1, <1>2
<1> QED BY <1>3 DEF Unquoted

LEMMA NameIs ==
  ASSUME NEW q \in Schemas, NEW p \in Pragmas, NEW g \in Arguments
  PROVE  pragma_name(q \o <<p>> \o g) = p
<1> DEFINE T == Words \cup {"'", ".", "(", ")", "="}
           u == q \o <<p>>
           t == u \o g
           n == Len(q) + 1 + Len(g)
<1>1. p \in Words /\ p # "'" /\ p # "."
  BY DEF Words, Pragmas, SAFE_PRAGMAS
<1>2. q \in Seq(T) /\ <<p>> \in Seq(T) /\ g \in Seq(T) /\ Len(q) \in Nat /\ Len(g) \in Nat
  <2>1. {"main", "t", "u", "'", ".", "(", ")", "=", p} \subseteq T
    BY <1>1 DEF Words
  <2> HIDE DEF T
  <2>2. q \in Seq(T)
    <3>1. <<>> \in Seq(T) /\ <<"main", ".">> \in Seq(T) /\ <<"'", "main", "'", ".">> \in Seq(T)
      BY <2>1
    <3> QED BY <3>1 DEF Schemas
  <2>3. g \in Seq(T)
    <3>1. /\ <<>> \in Seq(T) /\ <<"(", "t", ")">> \in Seq(T)
          /\ <<"(", "main", ".", "t", ")">> \in Seq(T)
          /\ <<"(", "'", "t", "=", "u", "'", ")">> \in Seq(T) /\ <<"=", "t">> \in Seq(T)
      BY <2>1
    <3> QED BY <3>1 DEF Arguments
  <2>4. <<p>> \in Seq(T)
    BY <2>1
  <2> QED BY <2>2, <2>3, <2>4, LenProperties
<1>3. /\ Len(u) = Len(q) + 1 /\ u \in Seq(T)
      /\ \A i \in 1..Len(q) : u[i] = q[i]
      /\ u[Len(q) + 1] = p
  <2> HIDE DEF T
  <2>1. /\ Len(u) = Len(q) + Len(<<p>>) /\ u \in Seq(T)
        /\ \A i \in 1..(Len(q) + Len(<<p>>)) :
              u[i] = IF i <= Len(q) THEN q[i] ELSE <<p>>[i - Len(q)]
    BY <1>2, ConcatProperties, Zenon
  <2>2. Len(<<p>>) = 1 /\ <<p>>[1] = p
    OBVIOUS
  <2> HIDE DEF u
  <2> QED BY <1>2, <2>1, <2>2
<1>4. /\ Len(t) = n /\ DOMAIN t = 1..n
      /\ \A i \in 1..Len(q) : t[i] = q[i]
      /\ t[Len(q) + 1] = p
      /\ \A i \in 1..Len(g) : t[Len(q) + 1 + i] = g[i]
  <2> HIDE DEF T, u
  <2>1. /\ Len(t) = Len(u) + Len(g) /\ t \in Seq(T)
        /\ \A i \in 1..(Len(u) + Len(g)) : t[i] = IF i <= Len(u) THEN u[i] ELSE g[i - Len(u)]
    BY <1>2, <1>3, ConcatProperties, Zenon
  <2>2. DOMAIN t = 1..Len(t)
    BY <2>1, LenProperties
  <2> HIDE DEF t
  <2>3. n \in Nat
    BY <1>2
  <2>4. Len(t) = n
    BY <1>3, <2>1
  <2>5. \A i \in 1..n : t[i] = IF i <= Len(q) + 1 THEN u[i] ELSE g[i - (Len(q) + 1)]
    BY <1>3, <2>1, <2>4
  <2>6. Len(q) + 1 \in 1..n /\ \A i \in 1..Len(g) : Len(q) + 1 + i \in 1..n
    BY <1>2
  <2>7. \A i \in 1..Len(q) : i \in 1..n
    BY <1>2
  <2> DEFINE k == Len(q) + 1
  <2>8. k \in Nat /\ (\A i \in 1..Len(q) : i <= k) /\ (\A i \in 1..Len(g) : ~(k + i <= k) /\ k + i - k = i)
    BY <1>2
  <2> HIDE DEF k, n
  <2>9. \A i \in 1..Len(q) : t[i] = q[i]
    BY <1>3, <2>5, <2>7, <2>8 DEF k
  <2>10. t[k] = p
    BY <1>3, <2>5, <2>6, <2>8 DEF k
  <2>11. \A i \in 1..Len(g) : t[k + i] = g[i]
    BY <2>5, <2>6, <2>8 DEF k
  <2> QED BY <2>2, <2>4, <2>9, <2>10, <2>11 DEF k
<1> HIDE DEF t, T, u
<1> SUFFICES pragma_name(t) = p
  BY DEF t, u
<1> DEFINE from == IF NamesSchema(t) THEN FirstDot(t) + 1 ELSE 1
<1>0. pragma_name(t) = Unquoted(t, from)
  BY DEF pragma_name
<1>5. n \in Nat
  BY <1>2
<1>6. \/ FirstDot(t) = 0 /\ \A i \in 1..n : t[i] # "."
      \/ /\ FirstDot(t) \in 1..n /\ t[FirstDot(t)] = "."
         /\ \A i \in 1..n : t[i] = "." => FirstDot(t) <= i
  BY <1>4, <1>5, FirstDotIs
<1>7. CASE q = <<>>
  <2>1. t[1] = p /\ Len(q) = 0
    BY <1>4, <1>7
  <2>2. ~NamesSchema(t)
    <3>1. CASE FirstDot(t) = 0
      BY <3>1 DEF NamesSchema
    <3>2. CASE FirstDot(t) # 0
      <4>1. FirstDot(t) \in 2..n /\ g[FirstDot(t) - 1] = "." /\ FirstDot(t) - 1 \in 1..Len(g)
        BY <1>1, <1>2, <1>4, <1>6, <2>1, <3>2
      <4>2. g = <<"(", "main", ".", "t", ")">>
        BY <4>1 DEF Arguments
      <4>3. FirstDot(t) = 4 /\ t[2] = "("
        BY <1>4, <2>1, <4>1, <4>2
      <4>4. "(" \notin Words \cup {"'"}
        BY DEF Words, Pragmas, SAFE_PRAGMAS
      <4> QED BY <4>3, <4>4 DEF NamesSchema
    <3> QED BY <3>1, <3>2
  <2>3. Unquoted(t, 1) = t[1]
    BY <1>1, <1>2, <1>4, <1>5, <2>1, UnquotedIs
  <2>4. from = 1
    BY <2>2
  <2> HIDE DEF from
  <2> QED BY <1>0, <2>1, <2>3, <2>4
<1>8. CASE q = <<"main", ".">>
  <2>1. t[1] = "main" /\ t[2] = "." /\ t[3] = p /\ Len(q) = 2 /\ n >= 3
    BY <1>2, <1>4, <1>8
  <2>2. FirstDot(t) = 2
    BY <1>5, <1>6, <2>1
  <2>3. NamesSchema(t)
    BY <2>1, <2>2 DEF NamesSchema, Words
  <2>4. Unquoted(t, 3) = t[3]
    BY <1>1, <1>4, <1>5, <2>1, UnquotedIs
  <2>5. from = Len(q) + 1
    BY <2>1, <2>2, <2>3
  <2> HIDE DEF from
  <2> QED BY <1>0, <2>1, <2>4, <2>5
<1>9. CASE q = <<"'", "main", "'", ".">>
  <2>1. t[1] = "'" /\ t[2] = "main" /\ t[3] = "'" /\ t[4] = "." /\ t[5] = p /\ Len(q) = 4 /\ n >= 5
    BY <1>2, <1>4, <1>9
  <2>2. FirstDot(t) = 4
    BY <1>5, <1>6, <2>1
  <2>3. NamesSchema(t)
    BY <2>1, <2>2 DEF NamesSchema, Words
  <2>4. Unquoted(t, 5) = t[5]
    BY <1>1, <1>4, <1>5, <2>1, UnquotedIs
  <2>5. from = Len(q) + 1
    BY <2>1, <2>2, <2>3
  <2> HIDE DEF from
  <2> QED BY <1>0, <2>1, <2>4, <2>5
<1> QED BY <1>7, <1>8, <1>9 DEF Schemas
-----------------------------------------------------------------------------
(* The policy, once the connection is open.                                *)
ThePolicy ==
  [functions |-> (IF introspects THEN listed_functions
                  ELSE SQLITE_BUILTIN_FUNCTIONS \cup SQLITE_EXTENSION_FUNCTIONS) \ DENIED_FUNCTIONS,
   shadows |-> {"rtree_node"}]

(* What does not change.                                                   *)
Registered ==
  /\ statement \in Statements /\ introspects \in BOOLEAN
  /\ DOMAIN registered = 1..Len(registered) /\ Len(registered) \in Nat
  /\ \A i \in DOMAIN registered : ARow(registered[i])
  /\ \A j \in 1..4 : \E i \in DOMAIN registered : registered[i] = OwnRows[j]
  /\ columns \in Seq(Seq(Nat)) /\ Len(columns) \in Nat \ {0}

(* An act that is allowed changes nothing, whichever function it runs.     *)
LEMMA AllowedIsHarmless ==
  ASSUME Registered, policy = ThePolicy, NEW a, AnAct(a), query_authorizer(a), NEW r \in Runs(a)
  PROVE  r = {}
<1>1. CASE ~a.runs \/ statement.verb = "explain"
  BY <1>1 DEF Runs
<1>2. CASE a.act = "function" /\ ~(~a.runs \/ statement.verb = "explain")
  <2>1. a.what \in ThePolicy.functions
    BY <1>2 DEF query_authorizer
  <2> DEFINE rows == {registered[i] : i \in {j \in DOMAIN registered : registered[j].name = a.what}}
                       \cup (IF introspects THEN {} ELSE {OwnRows[1]})
             Ran(row) == IF (row.app /\ ~row.deterministic) \/ row.name \in {"load_extension", "optimize"}
                         THEN {row} ELSE {}
  <2>2. r \in {Ran(row) : row \in rows}
    BY <1>2 DEF Runs
  <2>3. PICK row \in rows : r = Ran(row)
    <3> HIDE DEF rows, Ran
    <3> QED BY <2>2
  <2>4. \/ row = OwnRows[1] /\ ~introspects
        \/ \E i \in DOMAIN registered : row = registered[i] /\ row.name = a.what
    BY <2>3
  <2>5. OwnRows[1] = Row("abs", TRUE, TRUE, FALSE)
    BY DEF OwnRows
  <2>6. CASE row = OwnRows[1]
    BY <2>3, <2>5, <2>6 DEF Row
  <2>7. ASSUME NEW i \in DOMAIN registered, row = registered[i], row.name = a.what
        PROVE  r = {}
    <3>1. ARow(row)
      BY <2>7 DEF Registered
    <3>2. CASE introspects
      <4>1. Harmless(row) /\ row.name # "load_extension"
        BY <2>1, <2>7, <3>2 DEF ThePolicy, listed_functions, DENIED_FUNCTIONS
      <4> QED BY <2>3, <3>1, <4>1 DEF ARow, Row, AppRows, Harmless, SQLITE_EXTENSION_FUNCTIONS
    <3>3. CASE ~introspects
      <4>1. row.name \in {"abs", "match"}
        BY <2>1, <2>7, <3>3 DEF ThePolicy, SQLITE_BUILTIN_FUNCTIONS, SQLITE_EXTENSION_FUNCTIONS,
                                DENIED_FUNCTIONS
      <4> QED BY <2>3, <3>1, <3>3, <4>1 DEF ARow, Row, AppRows
    <3> QED BY <3>2, <3>3
  <2> QED BY <2>4, <2>6, <2>7
<1>3. CASE a.act # "function" /\ ~(~a.runs \/ statement.verb = "explain")
  BY <1>3 DEF Runs, query_authorizer, AnAct, Read, PragmaAct, Write, Function
<1> QED BY <1>1, <1>2, <1>3

(* An act that only reads is allowed.                                      *)
LEMMA ReadsAreAllowed ==
  ASSUME Registered, policy = ThePolicy, NEW a, AnAct(a), ReadsOnly(a)
  PROVE  query_authorizer(a)
<1>1. CASE a = Read
  BY <1>1 DEF Read, query_authorizer
<1>2. ASSUME NEW f \in FunctionNames, a = Function(f) PROVE query_authorizer(a)
  <2>1. /\ a.act = "function" /\ a.what = f
    BY <1>2 DEF Function
  <2>2. /\ f \in {"abs", "match"} \/ (f = "mine" /\ introspects)
        /\ \E i \in DOMAIN registered : registered[i].name = f
        /\ \A i \in DOMAIN registered :
              registered[i].name = f /\ registered[i].app => registered[i].deterministic
    BY <2>1 DEF ReadsOnly
  <2>3. CASE introspects
    <3>1. \A i \in DOMAIN registered : registered[i].name = f => Harmless(registered[i])
      <4> SUFFICES ASSUME NEW i \in DOMAIN registered, registered[i].name = f
                   PROVE  Harmless(registered[i])
        OBVIOUS
      <4> DEFINE row == registered[i]
      <4>1. ARow(row) /\ row.name = f /\ (row.app => row.deterministic)
        BY <2>2 DEF Registered
      <4> HIDE DEF row
      <4>2. Harmless(row)
        BY <2>2, <4>1 DEF ARow, Row, AppRows, Harmless, SQLITE_EXTENSION_FUNCTIONS
      <4> QED BY <4>2 DEF row
    <3>2. f \in ThePolicy.functions
      BY <2>2, <2>3, <3>1 DEF ThePolicy, listed_functions, DENIED_FUNCTIONS
    <3> QED BY <2>1, <3>2 DEF query_authorizer
  <2>4. CASE ~introspects
    <3>1. f \in ThePolicy.functions
      BY <2>2, <2>4 DEF ThePolicy, SQLITE_BUILTIN_FUNCTIONS, SQLITE_EXTENSION_FUNCTIONS,
                        DENIED_FUNCTIONS
    <3> QED BY <2>1, <3>1 DEF query_authorizer
  <2> QED BY <2>3, <2>4
<1>3. ASSUME NEW p \in Pragmas, NEW v \in BOOLEAN, a = PragmaAct(p, v) PROVE query_authorizer(a)
  BY <1>3 DEF PragmaAct, ReadsOnly, query_authorizer
<1>4. ASSUME NEW t \in {"rtree_node", "table"}, NEW m \in BOOLEAN, NEW r \in BOOLEAN, a = Write(t, m, r)
      PROVE  query_authorizer(a)
  BY <1>4 DEF Write, ReadsOnly, query_authorizer, is_rtree_shadow, ThePolicy
<1> QED BY <1>1, <1>2, <1>3, <1>4 DEF AnAct

(* A statement that only reads passes the judgement of its text.           *)
LEMMA ReadsAreValid ==
  ASSUME Registered, PlainRead(statement)
  PROVE  /\ statement.fits /\ is_read_only(statement) /\ ~is_pragma_write(statement)
         /\ ~is_disallowed_pragma(statement) /\ statement.count = 1
<1>1. statement.verb \in Verbs
  BY StatementsAre DEF Registered
<1>2. statement.fits /\ statement.count = 1 /\ is_read_only(statement)
  BY <1>1 DEF PlainRead, Verbs, is_read_only
<1>3. ~is_pragma_write(statement)
  BY DEF PlainRead, is_pragma_write
<1>4. CASE statement.verb = "pragma"
  <2>1. PICK p \in Pragmas, q \in Schemas, g \in Arguments :
          statement.text = q \o <<p>> \o g /\ statement.acts = <<PragmaAct(p, g # <<>>)>>
    BY <1>4, StatementsAre DEF Registered
  <2>2. pragma_name(statement.text) = p
    BY <2>1, NameIs
  <2>3. ReadsOnly(PragmaAct(p, g # <<>>))
    BY <2>1 DEF PlainRead
  <2>4. p \in SAFE_PRAGMAS
    BY <2>3 DEF ReadsOnly, PragmaAct
  <2> QED BY <1>2, <1>3, <2>2, <2>4 DEF is_disallowed_pragma
<1> QED BY <1>2, <1>3, <1>4 DEF is_disallowed_pragma
-----------------------------------------------------------------------------
(* What has been asked was allowed, what is refused was more than a read,   *)
(* and the keys so far are names of columns or no column's name.            *)
Asked ==
  /\ stage \in {"new", "valid", "open", "prepared", "rows", "answered", "refused"}
  /\ asked \in Nat /\ (stage \in {"new", "valid"} => asked = 0)
  /\ stage \in {"open", "prepared", "rows", "answered"} => policy = ThePolicy
  /\ stage = "open" => asked < Len(statement.acts)
  /\ stage = "prepared" => asked = Len(statement.acts)
  /\ stage \in {"open", "prepared"} => \A i \in 1..asked : query_authorizer(statement.acts[i])

KeysAreOfColumns ==
  /\ keys \in Seq(Seq(Nat)) /\ Len(keys) <= Len(columns)
  /\ stage = "rows" => Len(keys) < Len(columns)
  /\ stage \notin {"rows", "answered"} => keys = <<>>
  /\ \A i \in DOMAIN keys : keys[i] = columns[i] \/ keys[i] \notin Originals

PolicyInv == Registered /\ Asked /\ KeysAreOfColumns /\ QueriesAreReads

(* A free key exists: the names and the keys are no more than the columns.  *)
LEMMA KeyIsFree ==
  ASSUME Registered, KeysAreOfColumns, RowsKeepTheirColumns, NEW name \in Seq(Nat)
  PROVE  /\ KeyOf(name) \in Seq(Nat) /\ KeyOf(name) \notin Used
         /\ KeyOf(name) = name \/ KeyOf(name) \notin Originals
<1> DEFINE L == Len(columns)
           free(n) == Append(name, n) \notin Used \cup Originals
           F == [i \in 1..L |-> IF i <= Len(keys) /\ keys[i] # columns[i] THEN keys[i] ELSE columns[i]]
<1>1. L \in Nat \ {0} /\ Len(keys) \in Nat /\ Len(keys) <= L
      /\ DOMAIN keys = 1..Len(keys) /\ DOMAIN columns = 1..L
  BY LenProperties DEF Registered, KeysAreOfColumns
<1>2. CASE name \notin Used
  BY <1>2 DEF KeyOf
<1>3. CASE name \in Used
  <2>1. ASSUME NEW u \in Used \cup Originals PROVE \E i \in 1..L : F[i] = u
    <3>1. CASE u \in Used
      <4>1. PICK i \in DOMAIN keys : u = keys[i]
        BY <3>1 DEF Used
      <4>2. i \in 1..L /\ F[i] = u
        BY <1>1, <4>1
      <4> QED BY <4>2
    <3>2. CASE u \in Originals
      <4> DEFINE S == {j \in 1..L : columns[j] = u}
      <4>1. S \subseteq Nat /\ S # {}
        BY <1>1, <3>2 DEF Originals
      <4> DEFINE i == CHOOSE j \in S : \A k \in S : j <= k
      <4>2. i \in S /\ \A k \in S : i <= k
        <5> HIDE DEF S
        <5> QED BY <4>1, FirstOfSome
      <4> HIDE DEF i
      <4>3. i \in 1..L /\ columns[i] = u /\ columns[i] \notin {columns[j] : j \in 1..(i - 1)}
        BY <1>1, <4>2
      <4>4. i <= Len(keys) => keys[i] = columns[i]
        BY <1>1, <4>3 DEF RowsKeepTheirColumns
      <4>5. F[i] = u
        BY <4>3, <4>4
      <4> QED BY <4>3, <4>5
    <3> QED BY <3>1, <3>2
  <2>2. \E n \in 1..L : free(n)
    <3> SUFFICES ASSUME \A n \in 1..L : ~free(n) PROVE FALSE
      OBVIOUS
    <3> DEFINE nm(n) == IF n = 0 THEN name ELSE Append(name, n)
               W == [n \in 0..L |-> CHOOSE i \in 1..L : F[i] = nm(n)]
    <3>1. \A n \in 0..L : nm(n) \in Used \cup Originals
      BY <1>1, <1>3
    <3>2. \A n \in 0..L : W[n] \in 1..L /\ F[W[n]] = nm(n)
      <4> SUFFICES ASSUME NEW n \in 0..L PROVE W[n] \in 1..L /\ F[W[n]] = nm(n)
        OBVIOUS
      <4>1. \E i \in 1..L : F[i] = nm(n)
        BY <2>1, <3>1
      <4> HIDE DEF F, nm, L
      <4> QED BY <4>1
    <3>3. W \in [0..L -> 1..L]
      <4> HIDE DEF F, nm, L
      <4> QED BY <3>2
    <3>4. /\ IsFiniteSet(0..L) /\ IsFiniteSet(1..L)
          /\ Cardinality(0..L) = L + 1 /\ Cardinality(1..L) = L
      <4>1. 0 <= L /\ 1 <= L
        BY <1>1
      <4>2. /\ IsFiniteSet(0..L) /\ Cardinality(0..L) = IF 0 > L THEN 0 ELSE L - 0 + 1
            /\ IsFiniteSet(1..L) /\ Cardinality(1..L) = IF 1 > L THEN 0 ELSE L - 1 + 1
        <5>1. L \in Int /\ 0 \in Int /\ 1 \in Int
          BY <1>1
        <5> HIDE DEF L
        <5> QED BY <5>1, FS_Interval
      <4> HIDE DEF L
      <4> QED BY <1>1, <4>1, <4>2
    <3>5. PICK x, y \in 0..L : x # y /\ W[x] = W[y]
      <4> HIDE DEF W, L
      <4>1. Cardinality(1..L) < Cardinality(0..L)
        BY <1>1, <3>4
      <4> QED BY <3>3, <3>4, <4>1, FS_PigeonHole, Zenon
    <3>6. nm(x) = nm(y)
      <4> HIDE DEF nm, W, F
      <4> QED BY <3>2, <3>5
    <3>7. \A n \in 1..L : /\ Append(name, n) # name
                          /\ Append(name, n)[Len(name) + 1] = n
      <4> SUFFICES ASSUME NEW n \in 1..L
                   PROVE  Append(name, n) # name /\ Append(name, n)[Len(name) + 1] = n
        OBVIOUS
      <4>1. n \in Nat /\ Len(name) \in Nat
        BY <1>1
      <4>2. Len(Append(name, n)) = Len(name) + 1 /\ Append(name, n)[Len(name) + 1] = n
        <5> HIDE DEF L
        <5> QED BY <4>1, AppendProperties
      <4> QED BY <4>1, <4>2
    <3>8. (x = 0 \/ x \in 1..L) /\ (y = 0 \/ y \in 1..L)
      BY <1>1
    <3> HIDE DEF L
    <3>9. CASE x = 0
      <4>1. y \in 1..L /\ y # 0
        BY <3>5, <3>8, <3>9
      <4> QED BY <3>6, <3>7, <3>9, <4>1
    <3>10. CASE x # 0 /\ y = 0
      BY <3>6, <3>7, <3>8, <3>10
    <3>11. CASE x # 0 /\ y # 0
      <4>1. Append(name, x) = Append(name, y)
        BY <3>6, <3>11
      <4> QED BY <3>5, <3>7, <3>8, <3>11, <4>1
    <3> QED BY <3>9, <3>10, <3>11
  <2> DEFINE S == {n \in 1..L : free(n)}
             n == CHOOSE k \in 1..L : free(k) /\ \A j \in 1..(k - 1) : ~free(j)
  <2>3. n \in 1..L /\ free(n)
    <3> HIDE DEF free
    <3>1. S \subseteq Nat /\ S # {}
      BY <1>1, <2>2
    <3> DEFINE i == CHOOSE j \in S : \A k \in S : j <= k
    <3>2. i \in S /\ \A k \in S : i <= k
      <4> HIDE DEF S
      <4> QED BY <3>1, FirstOfSome
    <3> HIDE DEF i
    <3>3. i \in 1..L /\ free(i) /\ \A j \in 1..(i - 1) : ~free(j)
      BY <1>1, <3>2
    <3> HIDE DEF L
    <3> QED BY <3>3
  <2>4. KeyOf(name) = Append(name, n)
    BY <1>3 DEF KeyOf
  <2> HIDE DEF n
  <2>5. Append(name, n) \in Seq(Nat)
    BY <1>1, <2>3
  <2> QED BY <2>3, <2>4, <2>5
<1> QED BY <1>2, <1>3

LEMMA PolicyStarts ==
  ASSUME PolicyInit
  PROVE  PolicyInv
<1>1. /\ statement \in Statements /\ introspects \in BOOLEAN
      /\ stage = "new" /\ asked = 0 /\ keys = <<>> /\ effects = {}
  BY DEF PolicyInit
<1>2. columns \in Seq(Seq(Nat)) /\ Len(columns) \in Nat \ {0}
  <2>1. ColumnNames \subseteq Seq(Nat) /\ <<>> \in ColumnNames
    BY DEF ColumnNames
  <2>2. \E n \in Nat \ {0} : columns \in [1..n -> Seq(Nat)]
    <3>1. CASE statement = PlainSelect
      <4>1. columns \in UNION {[1..n -> ColumnNames] : n \in 1..MaxColumns}
        BY <3>1 DEF PolicyInit
      <4>2. PICK n \in 1..MaxColumns : columns \in [1..n -> ColumnNames]
        BY <4>1
      <4>3. n \in Nat \ {0}
        BY <4>2, PolicyAssumption DEF PolicyAssumption
      <4>4. columns \in [1..n -> Seq(Nat)]
        <5> HIDE DEF ColumnNames
        <5> QED BY <2>1, <4>2
      <4> QED BY <4>3, <4>4
    <3>2. CASE statement # PlainSelect
      <4>1. columns = << <<>> >>
        BY <3>2 DEF PolicyInit
      <4> QED BY <2>1, <4>1
    <3> QED BY <3>1, <3>2
  <2>3. PICK n \in Nat \ {0} : columns \in [1..n -> Seq(Nat)]
    BY <2>2
  <2> QED BY <2>3
<1>3. Registered
  BY <1>1, <1>2, RowsAre DEF Registered
<1>4. Asked
  BY <1>1 DEF Asked
<1>5. KeysAreOfColumns
  BY <1>1, <1>2 DEF KeysAreOfColumns
<1>6. QueriesAreReads
  BY <1>1 DEF QueriesAreReads, QueriesOnlyRead, ReadsAreAnswered, RowsKeepTheirColumns
<1> QED BY <1>3, <1>4, <1>5, <1>6 DEF PolicyInv

(* A step that leaves the result alone has only its stage to account for.   *)
LEMMA ResultStays ==
  ASSUME PolicyInv, UNCHANGED <<Statically, keys, effects>>, Asked',
         stage \notin {"rows", "answered"},
         stage' = "rows" \/ stage' \notin {"rows", "answered"},
         stage' = "refused" => ~PlainRead(statement)
  PROVE  PolicyInv'
<1>1. /\ registered' = registered /\ introspects' = introspects /\ statement' = statement
      /\ columns' = columns /\ keys' = keys /\ effects' = effects
  BY DEF Statically
<1>2. Registered'
  BY <1>1 DEF PolicyInv, Registered, ARow
<1>3. KeysAreOfColumns'
  <2>1. keys = <<>> /\ Len(keys) = 0 /\ Len(columns) \in Nat \ {0}
    BY DEF PolicyInv, KeysAreOfColumns, Registered
  <2> QED BY <1>1, <2>1 DEF PolicyInv, KeysAreOfColumns, Originals
<1>4. QueriesAreReads'
  <2>1. QueriesOnlyRead' /\ RowsKeepTheirColumns'
    BY <1>1 DEF PolicyInv, QueriesAreReads, QueriesOnlyRead, RowsKeepTheirColumns
  <2>2. ReadsAreAnswered'
    BY <1>1 DEF ReadsAreAnswered, PlainRead, ReadsOnly
  <2> QED BY <2>1, <2>2 DEF QueriesAreReads
<1> QED BY <1>2, <1>3, <1>4 DEF PolicyInv

LEMMA ValidateKeeps ==
  ASSUME PolicyInv, validate_query
  PROVE  PolicyInv'
<1>1. /\ stage = "new" /\ stage' \in {"valid", "refused"}
      /\ UNCHANGED <<Statically, policy, asked, keys, effects>>
  BY DEF validate_query, Goes
<1>2. Asked'
  BY <1>1 DEF Asked, PolicyInv
<1>3. stage' = "refused" => ~PlainRead(statement)
  BY ReadsAreValid DEF validate_query, Goes, PolicyInv
<1> QED BY <1>1, <1>2, <1>3, ResultStays

LEMMA ConnectionKeeps ==
  ASSUME PolicyInv, for_connection
  PROVE  PolicyInv'
<1>1. /\ stage = "valid" /\ stage' = "open" /\ asked' = asked
      /\ UNCHANGED <<Statically, keys, effects>>
  BY DEF for_connection, Goes
<1>2. policy' = ThePolicy
  BY DEF for_connection, ThePolicy
<1>3. ThePolicy' = ThePolicy
  BY <1>1 DEF ThePolicy, Statically, listed_functions
<1>4. Len(statement.acts) \in Nat \ {0} /\ statement' = statement
  BY <1>1, ActsAre, StatementsAre DEF Statically, PolicyInv, Registered
<1>5. asked = 0
  BY <1>1 DEF PolicyInv, Asked
<1>6. Asked'
  BY <1>1, <1>2, <1>3, <1>4, <1>5 DEF Asked
<1> QED BY <1>1, <1>6, ResultStays

LEMMA PrepareKeeps ==
  ASSUME PolicyInv, Prepare
  PROVE  PolicyInv'
<1> DEFINE a == statement.acts[asked + 1]
<1>1. /\ stage = "open" /\ asked' = asked + 1
      /\ stage' = IF ~query_authorizer(a) THEN "refused"
                  ELSE IF asked + 1 = Len(statement.acts) THEN "prepared" ELSE "open"
      /\ UNCHANGED <<Statically, policy, keys, effects>>
  BY DEF Prepare, Goes
<1>2. /\ asked \in Nat /\ asked < Len(statement.acts) /\ policy = ThePolicy
      /\ \A i \in 1..asked : query_authorizer(statement.acts[i])
  BY <1>1 DEF PolicyInv, Asked
<1>3. /\ Len(statement.acts) \in Nat /\ DOMAIN statement.acts = 1..Len(statement.acts)
      /\ \A i \in DOMAIN statement.acts : AnAct(statement.acts[i])
  BY ActsAre, StatementsAre DEF PolicyInv, Registered
<1>4. asked + 1 \in DOMAIN statement.acts
  BY <1>2, <1>3
<1>5. policy' = policy /\ statement' = statement /\ ThePolicy' = ThePolicy
  BY <1>1 DEF ThePolicy, Statically, listed_functions
<1>6. \A b : query_authorizer(b)' = query_authorizer(b)
  BY <1>5 DEF query_authorizer, is_rtree_shadow
<1>7. stage' \in {"open", "prepared"} => \A i \in 1..asked' : query_authorizer(statement.acts[i])
  <2>1. stage' \in {"open", "prepared"} => query_authorizer(a)
    BY <1>1
  <2>2. \A i \in 1..asked' : i \in 1..asked \/ i = asked + 1
    BY <1>1, <1>2
  <2> QED BY <1>2, <2>1, <2>2
<1>8. Asked'
  <2>1. \A i : query_authorizer(statement.acts[i])' = query_authorizer(statement.acts[i])
    BY <1>5 DEF query_authorizer, is_rtree_shadow
  <2> HIDE DEF a
  <2> QED BY <1>1, <1>2, <1>3, <1>5, <1>7, <2>1 DEF Asked
<1>9. stage' = "refused" => ~PlainRead(statement)
  <2> SUFFICES ASSUME stage' = "refused", PlainRead(statement) PROVE FALSE
    OBVIOUS
  <2>1. AnAct(a) /\ ReadsOnly(a)
    BY <1>3, <1>4 DEF PlainRead
  <2>2. query_authorizer(a)
    <3> HIDE DEF a
    <3> QED BY <1>2, <2>1, ReadsAreAllowed DEF PolicyInv
  <2> QED BY <1>1, <2>2
<1> QED BY <1>1, <1>8, <1>9, ResultStays

LEMMA ExecuteKeeps ==
  ASSUME PolicyInv, Execute
  PROVE  PolicyInv'
<1> DEFINE acts == statement.acts
<1>1. /\ stage = "prepared" /\ stage' \in {"refused", "rows"}
      /\ UNCHANGED <<Statically, policy, asked, keys>>
      /\ stage' = "refused" => \E i \in DOMAIN acts :
           acts[i].act = "write" /\ acts[i].runs /\ statement.verb # "explain"
  BY DEF Execute, Goes
<1>2. /\ policy = ThePolicy /\ asked = Len(acts)
      /\ \A i \in 1..asked : query_authorizer(acts[i])
  BY <1>1 DEF PolicyInv, Asked
<1>3. /\ Len(acts) \in Nat /\ DOMAIN acts = 1..Len(acts)
      /\ \A i \in DOMAIN acts : AnAct(acts[i])
  BY ActsAre, StatementsAre DEF PolicyInv, Registered
<1>4. PICK ran \in [DOMAIN acts -> UNION {Runs(acts[i]) : i \in DOMAIN acts}] :
        /\ \A i \in DOMAIN ran : ran[i] \in Runs(acts[i])
        /\ effects' = UNION {ran[i] : i \in DOMAIN ran}
  BY DEF Execute
<1>5. \A i \in DOMAIN ran : ran[i] = {}
  <2> SUFFICES ASSUME NEW i \in DOMAIN ran PROVE ran[i] = {}
    OBVIOUS
  <2>1. i \in DOMAIN acts /\ ran[i] \in Runs(acts[i])
    BY <1>4
  <2>2. AnAct(acts[i]) /\ query_authorizer(acts[i])
    BY <1>2, <1>3, <2>1
  <2> HIDE DEF acts
  <2> QED BY <1>2, <2>1, <2>2, AllowedIsHarmless DEF PolicyInv
<1>6. effects' = effects
  <2>1. effects' = {}
    BY <1>4, <1>5
  <2> QED BY <2>1 DEF PolicyInv, QueriesAreReads, QueriesOnlyRead
<1>7. ThePolicy' = ThePolicy /\ statement' = statement
  BY <1>1 DEF ThePolicy, Statically, listed_functions
<1>8. Asked'
  BY <1>1, <1>2, <1>7 DEF PolicyInv, Asked
<1>9. stage' = "refused" => ~PlainRead(statement)
  <2> SUFFICES ASSUME NEW i \in DOMAIN acts, acts[i].act = "write", acts[i].runs
               PROVE  ~ReadsOnly(acts[i])
    BY <1>1 DEF PlainRead
  <2> QED BY DEF ReadsOnly
<1> QED BY <1>1, <1>6, <1>8, <1>9, ResultStays

LEMMA KeysKeep ==
  ASSUME PolicyInv, unique_column_keys
  PROVE  PolicyInv'
<1> DEFINE m == Len(keys) + 1
           name == columns[m]
           K == KeyOf(name)
<1>1. /\ stage = "rows" /\ keys' = Append(keys, K)
      /\ stage' \in {"answered", "rows"}
      /\ stage' = "rows" => Len(keys') # Len(columns)
      /\ UNCHANGED <<Statically, policy, asked, effects>>
  BY DEF unique_column_keys, Goes
<1>2. /\ registered' = registered /\ introspects' = introspects /\ statement' = statement
      /\ columns' = columns /\ policy' = policy /\ ThePolicy' = ThePolicy
  BY <1>1 DEF Statically, ThePolicy, listed_functions
<1>3. Registered' /\ Asked'
  BY <1>1, <1>2 DEF PolicyInv, Registered, Asked, ARow
<1>4. /\ columns \in Seq(Seq(Nat)) /\ Len(columns) \in Nat /\ DOMAIN columns = 1..Len(columns)
      /\ keys \in Seq(Seq(Nat)) /\ Len(keys) \in Nat /\ DOMAIN keys = 1..Len(keys)
      /\ Len(keys) < Len(columns)
  BY <1>1, LenProperties DEF PolicyInv, KeysAreOfColumns, Registered
<1>5. m \in DOMAIN columns /\ name \in Seq(Nat) /\ name \in Originals
  <2>1. m \in 1..Len(columns)
    BY <1>4
  <2> HIDE DEF m
  <2> QED BY <1>4, <2>1, ElementOfSeq DEF Originals
<1>6. /\ K \in Seq(Nat) /\ K \notin Used /\ (K = name \/ K \notin Originals)
      /\ name \notin Used => K = name
  <2>1. /\ K \in Seq(Nat) /\ K \notin Used /\ (K = name \/ K \notin Originals)
    <3> HIDE DEF name
    <3> QED BY <1>5, KeyIsFree DEF PolicyInv, QueriesAreReads
  <2> QED BY <2>1 DEF KeyOf
<1> HIDE DEF K
<1>7. /\ keys' \in Seq(Seq(Nat)) /\ Len(keys') = m /\ DOMAIN keys' = 1..m
      /\ \A i \in 1..Len(keys) : keys'[i] = keys[i]
      /\ keys'[m] = K
  <2>1. /\ keys' \in Seq(Seq(Nat)) /\ Len(keys') = Len(keys) + 1
        /\ \A i \in 1..Len(keys) : keys'[i] = keys[i]
        /\ keys'[Len(keys) + 1] = K
    <3>1. /\ Append(keys, K) \in Seq(Seq(Nat)) /\ Len(Append(keys, K)) = Len(keys) + 1
          /\ \A i \in 1..Len(keys) : Append(keys, K)[i] = keys[i]
          /\ Append(keys, K)[Len(keys) + 1] = K
      <4>1. keys \in Seq(Seq(Nat)) /\ K \in Seq(Nat)
        BY <1>4, <1>6
      <4> QED BY <4>1, AppendProperties
    <3>2. keys' = Append(keys, K)
      BY <1>1
    <3> QED BY <3>1, <3>2, Zenon
  <2> QED BY <2>1, LenProperties
<1>8. \A i \in 1..m : i \in 1..Len(keys) \/ i = m
  <2>1. \A k \in Nat : \A i \in 1..(k + 1) : i \in 1..k \/ i = k + 1
    OBVIOUS
  <2>2. Len(keys) \in Nat
    BY <1>4
  <2> QED BY <2>1, <2>2
<1>9. KeysAreOfColumns'
  <2>1. Originals' = Originals
    BY <1>2 DEF Originals
  <2>2. \A i \in 1..m : keys'[i] = columns[i] \/ keys'[i] \notin Originals
    <3> HIDE DEF m
    <3> QED BY <1>4, <1>6, <1>7, <1>8 DEF PolicyInv, KeysAreOfColumns
  <2>3. m <= Len(columns) /\ (stage' = "rows" => m < Len(columns))
    <3>1. stage' = "rows" => m # Len(columns)
      <4> HIDE DEF m
      <4> QED BY <1>1, <1>7, Zenon
    <3>2. m <= Len(columns) /\ m \in Nat /\ Len(columns) \in Nat
      BY <1>4
    <3> HIDE DEF m
    <3>3. m # Len(columns) => m < Len(columns)
      BY <3>2
    <3> QED BY <3>1, <3>2, <3>3, Zenon
  <2> HIDE DEF m
  <2> QED BY <1>1, <1>2, <1>7, <2>1, <2>2, <2>3 DEF KeysAreOfColumns
<1>10. RowsKeepTheirColumns'
  <2>1. \A i \in 1..Len(keys) : keys[i] # K
    BY <1>4, <1>6 DEF Used
  <2>2. \A i, j \in 1..Len(keys) : i # j => keys[i] # keys[j]
    BY <1>4 DEF PolicyInv, QueriesAreReads, RowsKeepTheirColumns
  <2>3. \A i, j \in 1..m : i # j => keys'[i] # keys'[j]
    <3> HIDE DEF m
    <3> SUFFICES ASSUME NEW i \in 1..m, NEW j \in 1..m, i # j PROVE keys'[i] # keys'[j]
      OBVIOUS
    <3>1. /\ i \in 1..Len(keys) => keys'[i] = keys[i]
          /\ j \in 1..Len(keys) => keys'[j] = keys[j]
          /\ i = m => keys'[i] = K
          /\ j = m => keys'[j] = K
      BY <1>7, Zenon
    <3>2. (i \in 1..Len(keys) \/ i = m) /\ (j \in 1..Len(keys) \/ j = m)
      BY <1>8
    <3> QED BY <2>1, <2>2, <3>1, <3>2, Zenon
  <2>4. ASSUME name \notin {columns[j] : j \in 1..(m - 1)} PROVE K = name
    <3> SUFFICES ASSUME NEW i \in DOMAIN keys, keys[i] = name PROVE FALSE
      BY <1>6 DEF Used
    <3>1. keys[i] = columns[i]
      BY <1>5 DEF PolicyInv, KeysAreOfColumns
    <3> QED BY <1>4, <2>4, <3>1
  <2>5. \A i \in 1..m : columns[i] \notin {columns[j] : j \in 1..(i - 1)} => keys'[i] = columns[i]
    <3> SUFFICES ASSUME NEW i \in 1..m, columns[i] \notin {columns[j] : j \in 1..(i - 1)}
                 PROVE  keys'[i] = columns[i]
      OBVIOUS
    <3>1. CASE i \in 1..Len(keys)
      BY <1>4, <1>7, <3>1 DEF PolicyInv, QueriesAreReads, RowsKeepTheirColumns
    <3>2. CASE i = m
      <4>1. K = name
        BY <2>4, <3>2
      <4> QED BY <1>7, <3>2, <4>1
    <3> QED BY <1>8, <3>1, <3>2
  <2> HIDE DEF m
  <2> QED BY <1>2, <1>7, <2>3, <2>5 DEF RowsKeepTheirColumns
<1>11. QueriesOnlyRead' /\ ReadsAreAnswered'
  BY <1>1 DEF PolicyInv, QueriesAreReads, QueriesOnlyRead, ReadsAreAnswered
<1> QED BY <1>3, <1>9, <1>10, <1>11 DEF PolicyInv, QueriesAreReads

LEMMA PolicyInvariant == PolicySpec => []PolicyInv
<1>1. PolicyInv /\ [PolicyNext]_policyVars => PolicyInv'
  <2> SUFFICES ASSUME PolicyInv, [PolicyNext]_policyVars PROVE PolicyInv'
    OBVIOUS
  <2>1. CASE UNCHANGED policyVars
    <3>1. /\ registered' = registered /\ introspects' = introspects /\ statement' = statement
          /\ columns' = columns /\ stage' = stage /\ policy' = policy /\ asked' = asked
          /\ keys' = keys /\ effects' = effects
      BY <2>1 DEF policyVars
    <3>2. Registered'
      BY <3>1 DEF PolicyInv, Registered, ARow
    <3>3. Asked'
      BY <3>1 DEF PolicyInv, Asked, ThePolicy, listed_functions, query_authorizer, is_rtree_shadow
    <3>4. KeysAreOfColumns'
      BY <3>1 DEF PolicyInv, KeysAreOfColumns, Originals
    <3>5. QueriesOnlyRead' /\ RowsKeepTheirColumns'
      BY <3>1 DEF PolicyInv, QueriesAreReads, QueriesOnlyRead, RowsKeepTheirColumns
    <3>6. ReadsAreAnswered'
      BY <3>1 DEF PolicyInv, QueriesAreReads, ReadsAreAnswered, PlainRead, ReadsOnly
    <3> QED BY <3>2, <3>3, <3>4, <3>5, <3>6 DEF PolicyInv, QueriesAreReads
  <2>2. CASE PolicyNext
    BY <2>2, ValidateKeeps, ConnectionKeeps, PrepareKeeps, ExecuteKeeps, KeysKeep DEF PolicyNext
  <2> QED BY <2>1, <2>2
<1> QED BY <1>1, PolicyStarts, PTL DEF PolicySpec

(* What a database tool does reads and nothing else: the phases of a call   *)
(* by DbInv, its statement by PolicyInv.                                    *)
THEOREM DatabaseIsOnlyReadAlways == DbSpec /\ PolicySpec => []DatabaseIsOnlyRead
<1>1. DbInv /\ PolicyInv => DatabaseIsOnlyRead
  BY DEF DbInv, PolicyInv, DatabaseIsOnlyRead
<1> QED BY <1>1, DbInvariant, PolicyInvariant, PTL
=============================================================================
