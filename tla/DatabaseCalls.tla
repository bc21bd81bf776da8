--------------------------- MODULE DatabaseCalls ----------------------------
(***************************************************************************)
(* query_db and introspect db_health: a call takes one of DB_SLOTS and      *)
(* runs on a thread of its own, which outlives a caller that gave up.  The  *)
(* thread checks the schema and then works in phases; a watchdog thread     *)
(* (InterruptGuard) interrupts SQLite at the deadline of each phase.  The   *)
(* application goes on changing the file meanwhile.                         *)
(***************************************************************************)
EXTENDS Integers, Sequences, FiniteSets

CONSTANTS DbCalls,       \* calls of the two tools
          DbSlots,       \* DB_MAX_CONCURRENT
          MaxTables,     \* MAX_DB_HEALTH_TABLES: tables a report lists
          MaxStatements, \* bound: statements a phase runs
          FirstTables    \* the tables of the file at first: a sequence of kinds

ASSUME DatabaseCallsAssumption ==
  /\ IsFiniteSet(DbCalls) /\ DbSlots \in Nat \ {0} /\ MaxTables \in Nat
  /\ MaxStatements \in Nat \ {0}
  /\ FirstTables \in Seq({"ordinary", "virtual"})

VARIABLES tool,      \* per call: "query" or "health"
          caller,    \* per call: "idle", "queued", "waiting", or its answer
          dbQueue, \* calls waiting for a slot, in order
          thread,    \* per call: the phase its thread is in and how that goes
          dogs,      \* per call: watchdog threads
          report,    \* per call: the outcome of the phase before this one
          file,      \* the tables of the database file
          foreign,   \* the host has registered a virtual-table module
          migrated,  \* the application has changed the schema meanwhile
          ranHost    \* code of a module of the host ran in a call
dbVars == <<tool, caller, dbQueue, thread, dogs, report, file, foreign, migrated, ranHost>>
fileVars == <<file, foreign, migrated>>

NoThread == [phase |-> "none", table |-> 0, sql |-> "idle", runs |-> 0, result |-> "none",
             over |-> FALSE, hit |-> FALSE, listed |-> <<>>, cut |-> FALSE]

NoOutcome == [result |-> "none", own |-> FALSE]

DbInit ==
  /\ tool \in [DbCalls -> {"query", "health"}]
  /\ caller = [d \in DbCalls |-> "idle"] /\ dbQueue = <<>>
  /\ thread = [d \in DbCalls |-> NoThread]
  /\ dogs = [d \in DbCalls |-> {}] /\ report = [d \in DbCalls |-> NoOutcome]
  /\ file = FirstTables /\ foreign \in BOOLEAN /\ migrated = FALSE /\ ranHost = FALSE
-----------------------------------------------------------------------------
(* run_blocking_bounded: a slot within the deadline, then the thread, which *)
(* holds the slot until it ends.                                            *)
HasThread(d) == thread[d].phase \notin {"none", "ended"}
Busy == {d \in DbCalls : HasThread(d)}

Ask(d) ==
  /\ caller[d] = "idle"
  /\ caller' = [caller EXCEPT ![d] = "queued"]
  /\ dbQueue' = Append(dbQueue, d)
  /\ UNCHANGED <<tool, thread, dogs, report, fileVars, ranHost>>

FreeSlot == Cardinality(Busy) < DbSlots

(* A guard is armed for the phase, and its time starts.                     *)
Enter(d, phase, table, over, listed, cut) ==
  /\ thread' = [thread EXCEPT ![d] =
       [NoThread EXCEPT !.phase = phase, !.table = table, !.over = over,
                        !.listed = listed, !.cut = cut]]
  /\ dogs' = [dogs EXCEPT ![d] = {g \in @ : g.at # "out"} \cup
       {[of |-> <<phase, table>>, at |-> "parked", done |-> FALSE]}]

GetSlot ==
  /\ dbQueue # <<>> /\ FreeSlot
  /\ LET d == Head(dbQueue) IN
     /\ caller' = [caller EXCEPT ![d] = "waiting"]
     /\ Enter(d, "schema", 0, FALSE, <<>>, FALSE)
  /\ dbQueue' = Tail(dbQueue)
  /\ UNCHANGED <<tool, report, fileVars, ranHost>>

Without(d) ==
  LET i == CHOOSE k \in DOMAIN dbQueue : dbQueue[k] = d
  IN [k \in 1..(Len(dbQueue) - 1) |-> dbQueue[IF k < i THEN k ELSE k + 1]]

(* The deadline of the caller passes: it is answered, its thread goes on.   *)
CallerGivesUp(d) ==
  /\ caller[d] \in {"queued", "waiting"}
  /\ caller' = [caller EXCEPT ![d] = IF @ = "queued" THEN "busy" ELSE "late"]
  /\ dbQueue' = IF caller[d] = "queued" THEN Without(d) ELSE dbQueue
  /\ UNCHANGED <<tool, thread, dogs, report, fileVars, ranHost>>
-----------------------------------------------------------------------------
(* InterruptGuard: the watchdog sleeps until the deadline of its phase or   *)
(* until it is told that the work is done, looks once more, and interrupts. *)
Dog(d) == CHOOSE g \in dogs[d] : g.of = <<thread[d].phase, thread[d].table>>
Becomes(d, g, at) == dogs' = [dogs EXCEPT ![d] = (@ \ {g}) \cup {[g EXCEPT !.at = at]}]

DogWakes(d, g) ==
  /\ g.at = "parked"
  /\ \/ g.done /\ Becomes(d, g, "out")
     \/ ~g.done /\ thread[d].over /\ g = Dog(d) /\ Becomes(d, g, "looks")
  /\ UNCHANGED <<tool, caller, dbQueue, thread, report, fileVars, ranHost>>

DogLooks(d, g) ==
  /\ g.at = "looks" /\ Becomes(d, g, IF g.done THEN "out" ELSE "fires")
  /\ UNCHANGED <<tool, caller, dbQueue, thread, report, fileVars, ranHost>>

(* An interrupt that finds no statement running is forgotten by SQLite.     *)
DogFires(d, g) ==
  /\ g.at = "fires" /\ Becomes(d, g, "out")
  /\ thread' = [thread EXCEPT ![d].hit = @ \/ thread[d].sql = "running"]
  /\ UNCHANGED <<tool, caller, dbQueue, report, fileVars, ranHost>>
-----------------------------------------------------------------------------
(* The work of a phase: statements, until one fails or the last is done.    *)
InPhase(d) == HasThread(d) /\ thread[d].result = "none"

TimeIsUp(d) ==
  /\ HasThread(d) /\ ~thread[d].over
  /\ thread' = [thread EXCEPT ![d].over = TRUE]
  /\ UNCHANGED <<tool, caller, dbQueue, dogs, report, fileVars, ranHost>>

(* Code of a host module runs when a virtual table is counted, or connected *)
(* by a check of the whole database.                                        *)
Whole(d) == thread[d].phase = "check" /\ thread[d].table = 0
RunsHost(d) ==
  /\ foreign
  /\ \/ thread[d].phase = "count" /\ file[thread[d].table] = "virtual"
     \/ Whole(d) /\ \E i \in DOMAIN file : file[i] = "virtual"

Statement(d) ==
  /\ InPhase(d) /\ thread[d].sql = "idle" /\ thread[d].runs < MaxStatements
  /\ thread' = [thread EXCEPT ![d].sql = "running", ![d].runs = @ + 1]
  /\ ranHost' = (ranHost \/ RunsHost(d))
  /\ UNCHANGED <<tool, caller, dbQueue, dogs, report, fileVars>>

(* It ends with what it was for, with an error, interrupted, or stopped by  *)
(* the progress handler, which the check of the schema does not have.       *)
StatementEnds(d, how) ==
  /\ InPhase(d) /\ thread[d].sql = "running"
  /\ how = "interrupted" => thread[d].hit \/ (thread[d].over /\ thread[d].phase # "schema")
  /\ thread' = [thread EXCEPT ![d].sql = "idle", ![d].hit = FALSE,
                              ![d].result = IF how = "ok" THEN @ ELSE how]
  /\ UNCHANGED <<tool, caller, dbQueue, dogs, report, fileVars, ranHost>>

(* The work is done.  A schema passes only when it was read in time.        *)
WorkDone(d) ==
  /\ InPhase(d) /\ thread[d].sql = "idle" /\ thread[d].runs > 0
  /\ thread' = [thread EXCEPT ![d].result =
       IF thread[d].phase = "schema" /\ thread[d].over THEN "refused" ELSE "ok"]
  /\ UNCHANGED <<tool, caller, dbQueue, dogs, report, fileVars, ranHost>>

(* The guard is dropped: the watchdog is told, then joined.                 *)
Disarm(d) ==
  /\ HasThread(d) /\ thread[d].result # "none" /\ ~Dog(d).done
  /\ dogs' = [dogs EXCEPT ![d] = (@ \ {Dog(d)}) \cup {[Dog(d) EXCEPT !.done = TRUE]}]
  /\ UNCHANGED <<tool, caller, dbQueue, thread, report, fileVars, ranHost>>
Joined(d) == HasThread(d) /\ thread[d].result # "none" /\ Dog(d).done /\ Dog(d).at = "out"

Outcome(d) == [result |-> thread[d].result, own |-> thread[d].over]

(* The thread ends: a caller still there has its answer.                    *)
Ends(d, answer) ==
  /\ thread' = [thread EXCEPT ![d] = [NoThread EXCEPT !.phase = "ended"]]
  /\ dogs' = [dogs EXCEPT ![d] = {}]
  /\ caller' = [caller EXCEPT ![d] = IF @ = "waiting" THEN answer ELSE @]

(* The tables after i in the list that are counted.                         *)
Countable(list, i) == {k \in DOMAIN list : k > i /\ list[k] = "ordinary"}
LeastOf(S) == CHOOSE k \in S : \A j \in S : k <= j
(* Phase 2: the whole database, unless it may hold virtual tables and the   *)
(* host has a module: then one table after the other.                       *)
MayHoldVirtual(list, cut) == cut \/ \E k \in DOMAIN list : list[k] # "ordinary"
EnterCheck(d, list, cut) ==
  Enter(d, "check", IF MayHoldVirtual(list, cut) /\ foreign THEN 1 ELSE 0, FALSE, list, cut)

(* The next phase.  A refused schema ends the call, and a report without a  *)
(* table listing is an error.                                               *)
AfterSchema(d) ==
  /\ thread[d].phase = "schema"
  /\ IF thread[d].result # "ok" THEN Ends(d, "error")
     ELSE /\ Enter(d, IF tool[d] = "query" THEN "query" ELSE "meta", 0, FALSE, <<>>, FALSE)
          /\ UNCHANGED caller
AfterQuery(d) ==
  /\ thread[d].phase = "query"
  /\ Ends(d, IF thread[d].result = "ok" THEN "ok" ELSE "error")

(* The listing is cut at its limit.                                         *)
Listed == SubSeq(file, 1, IF Len(file) < MaxTables THEN Len(file) ELSE MaxTables)

(* Counts share one budget: once it is spent the remaining tables are       *)
(* listed without a count.                                                  *)
CountOrCheck(d, list, cut, spent) ==
  LET more == Countable(list, thread[d].table)
  IN /\ IF more = {} \/ spent THEN EnterCheck(d, list, cut)
        ELSE Enter(d, "count", LeastOf(more), FALSE, list, cut)
     /\ UNCHANGED caller
AfterListing(d) ==
  /\ thread[d].phase = "meta"
  /\ IF thread[d].result # "ok" THEN Ends(d, "error")
     ELSE CountOrCheck(d, Listed, Len(file) > MaxTables, FALSE)
AfterCount(d) ==
  /\ thread[d].phase = "count"
  /\ CountOrCheck(d, thread[d].listed, thread[d].cut,
                  thread[d].over \/ thread[d].result = "interrupted")
AfterCheck(d) == thread[d].phase = "check" /\ Ends(d, "ok")

PhaseOver(d) ==
  /\ Joined(d)
  /\ report' = [report EXCEPT ![d] = Outcome(d)]
  /\ \/ AfterSchema(d) \/ AfterQuery(d) \/ AfterListing(d) \/ AfterCount(d) \/ AfterCheck(d)
  /\ UNCHANGED <<tool, dbQueue, fileVars, ranHost>>

(* The application changes its schema while calls are under way.            *)
AppMigrates ==
  /\ ~migrated /\ Busy # {}
  /\ migrated' = TRUE
  /\ \/ file' = Append(file, "virtual")
     \/ \E i \in DOMAIN file : file' = [file EXCEPT ![i] = "virtual"]
  /\ UNCHANGED <<tool, caller, dbQueue, thread, dogs, report, foreign, ranHost>>

DbNext ==
  \/ GetSlot \/ AppMigrates
  \/ \E d \in DbCalls :
       \/ Ask(d) \/ CallerGivesUp(d) \/ TimeIsUp(d) \/ Statement(d) \/ WorkDone(d)
       \/ Disarm(d) \/ PhaseOver(d)
       \/ \E how \in {"ok", "error", "interrupted"} : StatementEnds(d, how)
       \/ \E g \in dogs[d] : DogWakes(d, g) \/ DogLooks(d, g) \/ DogFires(d, g)

DbSpec == DbInit /\ [][DbNext]_dbVars
-----------------------------------------------------------------------------
(* A phase is reported as out of time only when its own time was up: no     *)
(* interrupt and no deadline of an earlier phase, however late its watchdog *)
(* ran, stops the phases that follow on the same connection.                *)
PhasesStandAlone ==
  \A d \in DbCalls : report[d].result = "interrupted" => report[d].own

(* A health report runs no code of a virtual-table module of the host: such *)
(* tables are not counted and not connected by the check, those beyond the  *)
(* end of the list included.  What the application adds to the schema       *)
(* between the listing and the check is excepted.                           *)
HostModulesDoNotRun == ranHost => migrated
-----------------------------------------------------------------------------
(***************************************************************************)
(* What a query_db statement may do.  The text is judged first              *)
(* (validate_query), then a policy is computed from the connection and      *)
(* SQLite asks it about every act of the statement (query_authorizer); the  *)
(* rows are returned under keys of their own (unique_column_keys).  The     *)
(* application may have registered functions on every connection, under     *)
(* names of SQLite's too.                                                   *)
(***************************************************************************)

CONSTANTS MaxRows,    \* bound: functions the application registers
          MaxColumns  \* bound: columns of a result

ASSUME PolicyAssumption == MaxRows \in Nat /\ MaxColumns \in Nat

(***************************************************************************)
(* Function names by what they stand for: SQLite's own, its extensions',    *)
(* the extension function that writes, the one that loads code, and one of  *)
(* the application.                                                         *)
(***************************************************************************)
SQLITE_BUILTIN_FUNCTIONS == {"abs", "load_extension"}
SQLITE_EXTENSION_FUNCTIONS == {"match"}
DENIED_FUNCTIONS == {"load_extension"}
FunctionNames ==
  SQLITE_BUILTIN_FUNCTIONS \cup SQLITE_EXTENSION_FUNCTIONS \cup {"optimize", "mine"}

(***************************************************************************)
(* PRAGMAs: one that lists a table's columns, one that reads or, given a    *)
(* value, writes, and one that writes as it is.                             *)
(***************************************************************************)
SAFE_PRAGMAS == {"table_info", "user_version"}
READ_PRAGMAS_WITH_ARG == {"table_info"}
Pragmas == SAFE_PRAGMAS \cup {"wal_checkpoint"}

VARIABLES registered, \* rows of pragma_function_list, in its order
          introspects,\* the connection can list its functions
          statement,  \* the query
          columns,    \* the names of its result's columns
          stage,      \* "new", "valid", "open", "prepared", "refused", "answered"
          policy,     \* the functions and the shadow tables the connection allows
          asked,      \* acts SQLite has asked about
          keys,       \* the keys of the result
          effects     \* what running the statement changed
policyVars == <<registered, introspects, statement, columns, stage, policy, asked, keys, effects>>

(***************************************************************************)
(* A row of the list: SQLite's own functions come first, the application's  *)
(* in any order.  Without introspection the fallback cannot see what the    *)
(* application overrides, so there it overrides nothing.                    *)
(***************************************************************************)
Row(name, builtin, deterministic, app) ==
  [name |-> name, builtin |-> builtin, deterministic |-> deterministic, app |-> app]
OwnRows == << Row("abs", TRUE, TRUE, FALSE), Row("load_extension", TRUE, FALSE, FALSE),
              Row("match", FALSE, FALSE, FALSE), Row("optimize", FALSE, FALSE, FALSE) >>
AppRows(lists) ==
  {Row(n, FALSE, d, TRUE) : n \in IF lists THEN {"abs", "mine"} ELSE {"mine"}, d \in BOOLEAN}

(***************************************************************************)
(* The acts SQLite asks about, and whether running the statement runs them  *)
(* (an R-Tree prepares its writes when it connects, and a read runs none).  *)
(***************************************************************************)
Function(name) == [act |-> "function", what |-> name, value |-> FALSE, main |-> TRUE, runs |-> TRUE]
PragmaAct(name, value) ==
  [act |-> "pragma", what |-> name, value |-> value, main |-> TRUE, runs |-> TRUE]
Write(table, main, runs) ==
  [act |-> "write", what |-> table, value |-> FALSE, main |-> main, runs |-> runs]
Read == [act |-> "read", what |-> "table", value |-> FALSE, main |-> TRUE, runs |-> TRUE]

Acts ==
  {<<Read>>} \cup {<<Function(f)>> : f \in FunctionNames}
  \cup {<<Function("abs"), Function(f)>> : f \in FunctionNames}
  \cup {<<PragmaAct(p, v)>> : p \in Pragmas, v \in BOOLEAN}
  \cup {<<Write("rtree_node", m, FALSE), Read>> : m \in BOOLEAN}
  \cup {<<Write(t, TRUE, TRUE)>> : t \in {"rtree_node", "table"}}

(***************************************************************************)
(* The text of a PRAGMA, token by token: a schema it may name, quoted or    *)
(* not, its name, and an argument or a value.  "'" opens and closes quotes. *)
(***************************************************************************)
Schemas == {<<>>, <<"main", ".">>, <<"'", "main", "'", ".">>}
Arguments == {<<>>, <<"(", "t", ")">>, <<"(", "main", ".", "t", ")">>,
              <<"(", "'", "t", "=", "u", "'", ")">>, <<"=", "t">>}
Words == Pragmas \cup {"main", "t", "u"}

PlainSelect == [verb |-> "select", text |-> <<>>, acts |-> <<Read>>, count |-> 1, fits |-> TRUE]
Statements ==
  {[verb |-> v, text |-> <<>>, acts |-> a, count |-> 1, fits |-> TRUE] :
     v \in {"select", "with", "explain", "insert"}, a \in Acts}
  \cup {[verb |-> "pragma", text |-> s \o <<p>> \o g, count |-> 1, fits |-> TRUE,
         acts |-> <<PragmaAct(p, g # <<>>)>>] : s \in Schemas, p \in Pragmas, g \in Arguments}
  \cup {[PlainSelect EXCEPT !.count = 2], [PlainSelect EXCEPT !.fits = FALSE]}

(***************************************************************************)
(* Column names: "a" is <<>>, "a:1" is <<1>>, "a:1:1" is <<1, 1>>.          *)
(***************************************************************************)
ColumnNames == {<<>>, <<1>>, <<2>>, <<1, 1>>}

PolicyInit ==
  /\ introspects \in BOOLEAN
  /\ \E n \in 0..MaxRows : \E more \in [1..n -> AppRows(introspects)] :
       registered \in {OwnRows \o more, more \o OwnRows}
  /\ statement \in Statements
  /\ columns \in IF statement = PlainSelect
                THEN UNION {[1..n -> ColumnNames] : n \in 1..MaxColumns} ELSE {<< <<>> >>}
  /\ stage = "new" /\ policy = [functions |-> {}, shadows |-> {}]
  /\ asked = 0 /\ keys = <<>> /\ effects = {}

Goes(to) == stage' = to
Statically == <<registered, introspects, statement, columns>>

-----------------------------------------------------------------------------
(***************************************************************************)
(* validate_query reads the text.  Masked leaves out what stands in quotes; *)
(* the name of a PRAGMA is the first token that is no quote, after the      *)
(* first dot when only words, quoted or not, stand before it.               *)
(***************************************************************************)
Quoted(t, i) == Cardinality({j \in 1..i : t[j] = "'"}) % 2 = 1
Masked(t) == {t[i] : i \in {j \in DOMAIN t : ~Quoted(t, j)}}
is_pragma_write(s) == s.verb = "pragma" /\ "=" \in Masked(s.text)

FirstDot(t) ==
  LET dots == {i \in DOMAIN t : t[i] = "."}
  IN IF dots = {} THEN 0 ELSE CHOOSE i \in dots : \A j \in dots : i <= j
Unquoted(t, from) ==
  t[CHOOSE i \in from..Len(t) : t[i] # "'" /\ \A j \in from..(i - 1) : t[j] = "'"]
NamesSchema(t) ==
  /\ \E i \in 1..(FirstDot(t) - 1) : t[i] \in Words
  /\ \A i \in 1..(FirstDot(t) - 1) : t[i] \in Words \cup {"'"}
pragma_name(t) == Unquoted(t, IF NamesSchema(t) THEN FirstDot(t) + 1 ELSE 1)
is_disallowed_pragma(s) == s.verb = "pragma" /\ pragma_name(s.text) \notin SAFE_PRAGMAS

is_read_only(s) == s.verb \in {"select", "with", "explain", "pragma"}

validate_query ==
  /\ stage = "new"
  /\ Goes(IF /\ statement.fits /\ is_read_only(statement) /\ ~is_pragma_write(statement)
             /\ ~is_disallowed_pragma(statement) /\ statement.count = 1
          THEN "valid" ELSE "refused")
  /\ UNCHANGED <<Statically, policy, asked, keys, effects>>

(***************************************************************************)
(* The policy of the connection: a name is allowed when every function      *)
(* under it is built in, deterministic or an extension's.  The application  *)
(* cannot be asked which of its functions a call would run.                 *)
(***************************************************************************)
Harmless(row) == row.builtin \/ row.deterministic \/ row.name \in SQLITE_EXTENSION_FUNCTIONS
(* A mistaken list: a later function under a name decides for it. *)
LastOneDecides ==
  {registered[i].name : i \in {j \in DOMAIN registered :
     /\ Harmless(registered[j])
     /\ \A k \in DOMAIN registered : k > j => registered[k].name # registered[j].name}}
listed_functions ==
  {f \in FunctionNames : /\ \E i \in DOMAIN registered : registered[i].name = f
                         /\ \A i \in DOMAIN registered :
                              registered[i].name = f => Harmless(registered[i])}

for_connection ==
  /\ stage = "valid"
  /\ LET functions == IF introspects THEN listed_functions
                      ELSE SQLITE_BUILTIN_FUNCTIONS \cup SQLITE_EXTENSION_FUNCTIONS
     IN policy' = [functions |-> functions \ DENIED_FUNCTIONS, shadows |-> {"rtree_node"}]
  /\ Goes("open")
  /\ UNCHANGED <<Statically, asked, keys, effects>>

(***************************************************************************)
(* SQLite asks about one act after the other while it prepares.             *)
(***************************************************************************)
is_rtree_shadow(a) == a.main /\ a.what \in policy.shadows
query_authorizer(a) ==
  \/ a.act = "read"
  \/ a.act = "function" /\ a.what \in policy.functions
  \/ a.act = "write" /\ is_rtree_shadow(a)
  \/ /\ a.act = "pragma" /\ a.what \in SAFE_PRAGMAS
     /\ a.value => a.what \in READ_PRAGMAS_WITH_ARG

Prepare ==
  /\ stage = "open"
  /\ LET a == statement.acts[asked + 1]
     IN /\ asked' = asked + 1
        /\ Goes(IF ~query_authorizer(a) THEN "refused"
                ELSE IF asked + 1 = Len(statement.acts) THEN "prepared" ELSE "open")
  /\ UNCHANGED <<Statically, policy, keys, effects>>

(***************************************************************************)
(* A prepared statement runs on a connection opened read-only: a write      *)
(* fails it.  A call runs any of the functions under its name (which one    *)
(* depends on its arguments); EXPLAIN runs nothing.                         *)
(***************************************************************************)
Runs(a) ==
  IF ~a.runs \/ statement.verb = "explain" THEN {{}}
  ELSE CASE a.act = "function" ->
              {IF (row.app /\ ~row.deterministic) \/ row.name \in {"load_extension", "optimize"}
               THEN {row} ELSE {} : row \in {registered[i] : i \in
                                              {j \in DOMAIN registered : registered[j].name = a.what}}
                                       \cup (IF introspects THEN {} ELSE {OwnRows[1]})}
         [] a.act = "pragma" ->
              {IF a.what \notin SAFE_PRAGMAS \/ (a.value /\ a.what \notin READ_PRAGMAS_WITH_ARG)
               THEN {a} ELSE {}}
         [] OTHER -> {{}}

Execute ==
  /\ stage = "prepared"
  /\ \E ran \in [DOMAIN statement.acts -> UNION {Runs(statement.acts[i]) : i \in DOMAIN statement.acts}] :
       /\ \A i \in DOMAIN ran : ran[i] \in Runs(statement.acts[i])
       /\ effects' = UNION {ran[i] : i \in DOMAIN ran}
  /\ Goes(IF \E i \in DOMAIN statement.acts :
                statement.acts[i].act = "write" /\ statement.acts[i].runs /\ statement.verb # "explain"
          THEN "refused" ELSE "rows")
  /\ UNCHANGED <<Statically, policy, asked, keys>>

(***************************************************************************)
(* The keys of the row objects: a name already used gets the first ":n"     *)
(* that is neither used nor the name of a column.                           *)
(***************************************************************************)
Originals == {columns[i] : i \in DOMAIN columns}
Used == {keys[i] : i \in DOMAIN keys}
KeyOf(name) ==
  IF name \notin Used THEN name
  ELSE LET free(n) == Append(name, n) \notin Used \cup Originals
       IN Append(name, CHOOSE n \in 1..Len(columns) : free(n) /\ \A k \in 1..(n - 1) : ~free(k))

unique_column_keys ==
  /\ stage = "rows"
  /\ keys' = Append(keys, KeyOf(columns[Len(keys) + 1]))
  /\ Goes(IF Len(keys') = Len(columns) THEN "answered" ELSE "rows")
  /\ UNCHANGED <<Statically, policy, asked, effects>>

PolicyNext == validate_query \/ for_connection \/ Prepare \/ Execute \/ unique_column_keys

PolicySpec == PolicyInit /\ [][PolicyNext]_policyVars

-----------------------------------------------------------------------------
QueriesOnlyRead == effects = {}

(***************************************************************************)
(* A statement that only reads: functions of SQLite that write nothing and  *)
(* that no function with effects replaces, deterministic ones of the        *)
(* application when they can be told, PRAGMAs that read, tables.            *)
(***************************************************************************)
ReadsOnly(a) ==
  CASE a.act = "read" -> TRUE
    [] a.act = "function" ->
         /\ a.what \in {"abs", "match"} \/ (a.what = "mine" /\ introspects)
         /\ \E i \in DOMAIN registered : registered[i].name = a.what
         /\ \A i \in DOMAIN registered :
              registered[i].name = a.what /\ registered[i].app => registered[i].deterministic
    [] a.act = "write" -> a.main /\ a.what = "rtree_node" /\ ~a.runs
    [] OTHER -> a.what \in SAFE_PRAGMAS /\ (a.value => a.what \in READ_PRAGMAS_WITH_ARG)
PlainRead(s) ==
  /\ s.verb # "insert" /\ s.count = 1 /\ s.fits /\ "=" \notin Masked(s.text)
  /\ \A i \in DOMAIN s.acts : ReadsOnly(s.acts[i])

ReadsAreAnswered == stage = "refused" => ~PlainRead(statement)

RowsKeepTheirColumns ==
  /\ \A i, j \in DOMAIN keys : i # j => keys[i] # keys[j]
  /\ \A i \in DOMAIN keys : columns[i] \notin {columns[j] : j \in 1..(i - 1)} => keys[i] = columns[i]

(***************************************************************************)
(* query_db reads and nothing else: no statement that gets past both        *)
(* judgements changes anything, whatever the application registered under   *)
(* whichever name, no statement that only reads is refused, and no column   *)
(* of a row is lost to another of its name.                                 *)
(***************************************************************************)
QueriesAreReads == QueriesOnlyRead /\ ReadsAreAnswered /\ RowsKeepTheirColumns

(* query_db and db_health read and never write: no phase shares a thread   *)
(* or a deadline with another, no virtual table of the application runs    *)
(* its code, and the policy lets through what reads and nothing else.      *)
DatabaseIsOnlyRead == PhasesStandAlone /\ HostModulesDoNotRun /\ QueriesAreReads
==============================================================================
