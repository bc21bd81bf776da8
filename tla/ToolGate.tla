------------------------------ MODULE ToolGate ------------------------------
(***************************************************************************)
(* What a tool call may do: the central gate in front of every handler     *)
(* (mcp/authz.rs, privacy.rs, VictauriMcpHandler::execute_tool and         *)
(* call_tool), the checks each handler makes again by itself, and the four *)
(* paths on which a call runs commands of the application (invoke_command, *)
(* verify_state, contract_record and contract_check, recording replay),    *)
(* with the fault rules and contract baselines they use.                   *)
(*                                                                         *)
(* A capability name is a tuple: <<"css", "inject">> is "css.inject", and  *)
(* <<"fill">> a tool or an older name.  A handler is what it requires of   *)
(* the configuration and the kinds of effect it has; how the effects come  *)
(* about is the subject of other modules.  The handlers that run a command *)
(* the caller names are walked statement by statement, because what they   *)
(* ask for and what they do alternate.                                     *)
(***************************************************************************)
EXTENDS Integers, Sequences, FiniteSets, SequencesExt

CONSTANTS Commands,      \* commands of the application
          Disableable,   \* sets of names an operator may have put in disabled_tools
          Lists,         \* [allow, block]: the operator's lists of commands
          Misshapen,     \* tools whose calls are also written in odd ways
          Agents,        \* clients with a call in progress
          MaxFaultRules, \* MAX_FAULT_RULES
          MaxBaselines,  \* MAX_CONTRACT_BASELINES
          NoCommand

ASSUME ToolGateAssumption ==
  MaxFaultRules \in Nat \ {0} /\ MaxBaselines \in Nat \ {0} /\ NoCommand \notin Commands

VARIABLES config,     \* PrivacyConfig
          recorded,   \* the commands a replay of the recorder's session re-runs
          baselines,  \* ContractStore, least recently recorded first
          faults,     \* FaultRegistry, oldest injection first
          busy,       \* what each agent's call is doing
          doing       \* effects and verdict of the step a handler is in

gateVars == <<config, recorded, baselines, faults, busy, doing>>

-----------------------------------------------------------------------------
(* Names.                                                                  *)

COMPOUND_ACTIONS == [
  interact |-> {"click", "double_click", "hover", "focus", "scroll_into_view", "select_option"},
  input |-> {"fill", "type_text", "press_key"},
  window |-> {"get_state", "list", "manage", "resize", "move_to", "set_title",
              "introspectability"},
  storage |-> {"get", "set", "delete", "get_cookies"},
  navigate |-> {"go_to", "go_back", "get_history", "set_dialog_response", "get_dialog_log"},
  recording |-> {"start", "stop", "checkpoint", "list_checkpoints", "get_events",
                 "events_between", "get_replay", "export", "import", "replay", "flush"},
  inspect |-> {"get_styles", "get_bounding_boxes", "highlight", "clear_highlights",
               "audit_accessibility", "get_performance"},
  css |-> {"inject", "remove"},
  route |-> {"add", "list", "clear", "clear_all", "matches"},
  trace |-> {"start", "stop", "status", "frames"},
  animation |-> {"list", "scrub", "sample"},
  logs |-> {"console", "network", "ipc", "navigation", "dialogs", "events", "slow_ipc",
            "clear", "backend", "backend_digest", "stdout"},
  introspect |-> {"command_timings", "coverage", "command_catalog", "contract_record",
                  "contract_check", "contract_list", "contract_clear", "startup_timing",
                  "capabilities", "db_health", "plugin_state", "processes", "plugin_tasks",
                  "event_bus", "event_bus_clear"},
  fault |-> {"inject", "list", "clear", "clear_all"},
  explain |-> {"summary", "last_action", "diff"}]

COMPOUND_TOOLS == DOMAIN COMPOUND_ACTIONS

STANDALONE_TOOLS ==
  {"eval_js", "dom_snapshot", "find_elements", "invoke_command", "screenshot",
   "verify_state", "detect_ghost_commands", "check_ipc_integrity", "wait_for",
   "assert_semantic", "resolve_command", "get_registry", "app_state",
   "get_memory_stats", "get_plugin_info", "get_diagnostics", "app_info",
   "list_app_dir", "read_app_file", "query_db"}

(* Capability ids that differ from tool.action, and every other spelling.  *)
CAPABILITY_ALIASES ==
  {<<<<"inspect", "styles">>, <<"inspect", "get_styles">>>>,
   <<<<"inspect", "bounds">>, <<"inspect", "get_bounding_boxes">>>>,
   <<<<"inspect", "audit_a11y">>, <<"inspect", "audit_accessibility">>>>,
   <<<<"inspect", "performance">>, <<"inspect", "get_performance">>>>,
   <<<<"storage", "get">>, <<"get_storage">>>>,
   <<<<"storage", "get_cookies">>, <<"get_cookies">>>>,
   <<<<"window", "get_state">>, <<"get_window_state">>>>,
   <<<<"window", "list">>, <<"list_windows">>>>}

capability_alias(name) ==
  {p[2] : p \in {q \in CAPABILITY_ALIASES : q[1] = name}}
    \cup {p[1] : p \in {q \in CAPABILITY_ALIASES : q[2] = name}}

(* Only inspect's actions have capability ids of another spelling. *)
action_capability(tool, action) ==
  IF tool = "inspect" /\ capability_alias(<<tool, action>>) # {}
    THEN CHOOSE n \in capability_alias(<<tool, action>>) : TRUE
    ELSE <<tool, action>>

(***************************************************************************)
(* A call: its tool, its action (for a standalone tool, the variant its    *)
(* parameters ask for), how the arguments are written, its command.        *)
(*   "object"      the action is a string the tool knows                   *)
(*   "unknown"     the action is missing or a string no action has         *)
(*   "tagged"      the action is an object, {"go_to": null}                *)
(*   "positional"  the arguments are an array                              *)
(* serde parses the last two as the action they name.                      *)
(***************************************************************************)
Compound(tool) == tool \in COMPOUND_TOOLS

(* A mistaken resolve_capability: what is not a string is the bare tool.   *)
ResolveLaxly(call) ==
  IF ~Compound(call.tool) \/ call.shape # "object"
    THEN {<<call.tool>>}
    ELSE {action_capability(call.tool, call.action)}

(* The capability to gate on, or none: the call is refused as malformed.   *)
resolve_capability(call) ==
  CASE call.shape = "positional" -> {}
    [] call.shape = "tagged" /\ Compound(call.tool) -> {}
    [] call.shape = "object" /\ Compound(call.tool) ->
         {action_capability(call.tool, call.action)}
    [] OTHER -> {<<call.tool>>}

parse_args(call) == ~(Compound(call.tool) /\ call.shape = "unknown")

-----------------------------------------------------------------------------
(* The privacy configuration.                                              *)

Named(tool, actions) == {<<tool>>} \cup {<<tool, a>> : a \in actions}
Bare(names) == {<<n>> : n \in names}

ObserveAllows ==
  Bare({"dom_snapshot", "find_elements", "get_registry", "get_memory_stats",
        "get_plugin_info", "get_diagnostics", "detect_ghost_commands",
        "check_ipc_integrity", "resolve_command", "app_state", "list_windows",
        "get_window_state", "wait_for"})
  \cup Named("logs", COMPOUND_ACTIONS.logs \ {"clear"})
  \cup Named("inspect", {"styles", "bounds", "audit_a11y", "performance"})
  \cup Named("window", {"get_state", "list", "introspectability"})

TestAllows ==
  ObserveAllows
  \cup Bare({"fill", "type_text", "set_storage", "delete_storage", "get_storage",
             "get_cookies"})
  \cup Named("interact", COMPOUND_ACTIONS.interact)
  \cup Named("input", COMPOUND_ACTIONS.input)
  \cup Named("storage", COMPOUND_ACTIONS.storage)
  \cup Named("recording", COMPOUND_ACTIONS.recording \ {"replay", "flush"})
  \cup Named("logs", {"clear"})
  \cup Named("inspect", {"highlight", "clear_highlights"})
  \cup Named("navigate", {"go_back", "get_history", "get_dialog_log"})

is_allowed_by_profile(name) ==
  CASE config.profile = "FullControl" -> TRUE
    [] config.profile = "Test" -> name \in TestAllows
    [] config.profile = "Observe" -> name \in ObserveAllows

(* allow is a set of at most one allowlist: {} is None. *)
is_command_allowed(c) ==
  c \notin config.block /\ \A allow \in config.allow : c \in allow

test_profile_allowlists_commands ==
  config.profile = "Test" /\ \E allow \in config.allow : allow # {}

is_disabled(name) == ({name} \cup capability_alias(name)) \cap config.disabled # {}

is_tool_enabled(name) ==
  /\ ~is_disabled(name)
  /\ \/ is_allowed_by_profile(name)
     \/ name = <<"invoke_command">> /\ test_profile_allowlists_commands

is_call_allowed(tool, name) == <<tool>> \notin config.disabled /\ is_tool_enabled(name)

is_invoke_allowed(c) ==
  /\ <<"invoke_command">> \notin config.disabled
  /\ CASE config.profile = "FullControl" -> TRUE
       [] config.profile = "Test" -> \E allow \in config.allow : c \in allow
       [] config.profile = "Observe" -> FALSE

MayRun(c) == is_invoke_allowed(c) /\ is_command_allowed(c)

-----------------------------------------------------------------------------
(***************************************************************************)
(* The handlers.  needs: the capabilities a handler itself insists on       *)
(* before it does anything (more is the parameter that asks for more: logs  *)
(* with the answer, a backend command, captured frames); does: its effects. *)
(***************************************************************************)
Does(needs, effects) == [needs |-> needs, does |-> effects]
Reads == Does({}, {"read"})

eval_js == Does({<<"eval_js">>}, {"code"})
dom_snapshot == Reads
find_elements == Reads
screenshot == Does({<<"screenshot">>}, {"pixels"})
assert_semantic == Does({<<"eval_js">>}, {"code"})
detect_ghost_commands == Reads
check_ipc_integrity == Reads
resolve_command == Reads
get_registry == Reads
app_state == Reads
get_memory_stats == Reads
get_plugin_info == Reads
get_diagnostics == Reads
app_info == Does({}, {"files"})
list_app_dir == Does({}, {"files"})
read_app_file == Does({}, {"files"})
query_db == Does({}, {"files"})

wait_for_expression == Does({<<"eval_js">>}, {"code"})
wait_for_log == Does({<<"logs">>, <<"logs", "backend">>}, {"logs"})

(* The event is awaited in any case; its payload is for who may read it. *)
wait_for_event ==
  Does({}, IF is_call_allowed("introspect", <<"introspect", "event_bus">>)
             THEN {"read", "events"} ELSE {"read"})

wait_for(condition) ==
  CASE condition = "expression" -> wait_for_expression
    [] condition = "event" -> wait_for_event
    [] condition = "log" -> wait_for_log
    [] OTHER -> Reads

interact(a) == Does({<<"interact">>, <<"interact", a>>}, {"page"})

input(a) == Does({IF a = "press_key" THEN <<"input", a>> ELSE <<a>>}, {"page"})

window(a) ==
  IF a \in {"get_state", "list", "introspectability"}
    THEN Reads ELSE Does({<<"window", a>>}, {"window"})

storage(a) ==
  CASE a = "set" -> Does({<<"set_storage">>}, {"storage"})
    [] a = "delete" -> Does({<<"delete_storage">>}, {"storage"})
    [] OTHER -> Reads

navigate(a) ==
  CASE a = "go_to" -> Does({<<"navigate">>}, {"navigate"})
    [] a = "go_back" -> Does({}, {"back"})
    [] a = "set_dialog_response" -> Does({<<"set_dialog_response">>}, {"dialogs"})
    [] OTHER -> Reads

recording_session == {"recorder"}     \* start, stop, checkpoint
recording_transfer == {"recorder"}    \* import, flush
recording_reads == {"read"}
recording_replay == {"invoke"}

recordingTool(a) ==
  Does({<<"recording">>},
       CASE a \in {"start", "stop", "checkpoint"} -> recording_session
         [] a \in {"import", "flush"} -> recording_transfer
         [] a = "replay" -> recording_replay
         [] OTHER -> recording_reads)

inspect(a) ==
  IF a \in {"highlight", "clear_highlights"}
    THEN Does({<<"inspect", a>>}, {"page"}) ELSE Reads

css(a) == Does({IF a = "inject" THEN <<"inject_css">> ELSE <<"css", a>>}, {"css"})

route(a) ==
  CASE a = "add" -> Does({<<"route", a>>}, {"routes"})
    [] a \in {"clear", "clear_all"} -> Does({}, {"routes"})
    [] OTHER -> Reads

trace(a) ==
  Does({<<"trace">>, <<"screenshot">>},
       CASE a = "start" -> {"pixels", "recorder"}
         [] a = "stop" -> {"recorder"}
         [] a = "frames" -> {"pixels"}
         [] OTHER -> {"read"})

animation(a, more) ==
  CASE a = "scrub" /\ more -> Does({<<"animation">>, <<"screenshot">>}, {"page", "pixels"})
    [] a = "list" -> Does({<<"animation">>}, {"read"})
    [] OTHER -> Does({<<"animation">>}, {"page"})

logs(a) ==
  CASE a = "clear" -> Does({<<"logs", a>>}, {"erase"})
    [] a = "backend" -> Does({}, {"logs"})
    [] OTHER -> Reads

introspect_commands == {"read"}     \* timings, coverage, catalog
contract_check == {"invoke"}
introspect_app == {"read"}          \* startup, capabilities, databases, processes, tasks
introspect_bus == {"events"}

introspect(a) ==
  Does({<<"introspect">>},
       CASE a \in {"command_timings", "coverage", "command_catalog"} -> introspect_commands
         [] a = "contract_check" -> contract_check
         [] a = "contract_clear" -> {"contracts"}
         [] a = "event_bus" -> introspect_bus
         [] a = "event_bus_clear" -> {"erase"}
         [] OTHER -> introspect_app)

fault(a) == Does({<<"fault">>}, IF a = "list" THEN {"read"} ELSE {"faults"})

explain_summary == {"read"}
explain_last_action == {"read"}
explain_diff == {"read"}

explain(a) ==
  Does({<<"explain">>},
       CASE a = "summary" -> explain_summary
         [] a = "last_action" -> explain_last_action
         [] a = "diff" -> explain_diff)

(***************************************************************************)
(* The handlers that run the command they are given, as the statements they *)
(* go through in the order of the code.  Those that ask: "lists" (may this  *)
(* command be run), "logs", "eval_js", "introspect" (is that capability     *)
(* on).  Those that act: "fault" looks the rule up and spends it, "run"     *)
(* sends the command and waits, "attach" adds the backend logs, "code"      *)
(* evaluates the caller's expression, "store" keeps the baseline.           *)
(***************************************************************************)
(* A mistaken invoke_command: the logs are asked for when they are read.    *)
LogsAskedLate(more) ==
  IF more THEN <<"lists", "fault", "logs", "run", "attach">>
          ELSE <<"lists", "fault", "run">>

invoke_command(more) ==
  IF more THEN <<"lists", "logs", "fault", "run", "attach">>
          ELSE <<"lists", "fault", "run">>

(* more: the state to compare with comes from a command of the backend.     *)
verify_state(more) ==
  IF more THEN <<"eval_js", "code", "lists", "run">> ELSE <<"eval_js", "code">>

contract_record == <<"introspect", "lists", "run", "store">>

Stepwise(call) ==
  call.tool \in {"invoke_command", "verify_state"} \/ call.action = "contract_record"

Path(call) ==
  CASE call.tool = "invoke_command" -> invoke_command(call.more)
    [] call.tool = "verify_state" -> verify_state(call.more)
    [] OTHER -> contract_record

Checks == {"lists", "logs", "eval_js", "introspect"}

Allowed(check, c) ==
  CASE check = "lists" -> MayRun(c)
    [] check = "logs" -> is_call_allowed("logs", <<"logs", "backend">>)
    [] check = "eval_js" -> is_tool_enabled(<<"eval_js">>)
    [] check = "introspect" -> is_tool_enabled(<<"introspect">>)

dispatch_tool(call) ==
  CASE call.tool = "eval_js" -> eval_js
    [] call.tool = "dom_snapshot" -> dom_snapshot
    [] call.tool = "find_elements" -> find_elements
    [] call.tool = "screenshot" -> screenshot
    [] call.tool = "detect_ghost_commands" -> detect_ghost_commands
    [] call.tool = "check_ipc_integrity" -> check_ipc_integrity
    [] call.tool = "wait_for" -> wait_for(call.action)
    [] call.tool = "assert_semantic" -> assert_semantic
    [] call.tool = "resolve_command" -> resolve_command
    [] call.tool = "get_registry" -> get_registry
    [] call.tool = "app_state" -> app_state
    [] call.tool = "get_memory_stats" -> get_memory_stats
    [] call.tool = "get_plugin_info" -> get_plugin_info
    [] call.tool = "get_diagnostics" -> get_diagnostics
    [] call.tool = "app_info" -> app_info
    [] call.tool = "list_app_dir" -> list_app_dir
    [] call.tool = "read_app_file" -> read_app_file
    [] call.tool = "query_db" -> query_db
    [] call.tool = "interact" -> interact(call.action)
    [] call.tool = "input" -> input(call.action)
    [] call.tool = "window" -> window(call.action)
    [] call.tool = "storage" -> storage(call.action)
    [] call.tool = "navigate" -> navigate(call.action)
    [] call.tool = "recording" -> recordingTool(call.action)
    [] call.tool = "inspect" -> inspect(call.action)
    [] call.tool = "css" -> css(call.action)
    [] call.tool = "route" -> route(call.action)
    [] call.tool = "trace" -> trace(call.action)
    [] call.tool = "animation" -> animation(call.action, call.more)
    [] call.tool = "logs" -> logs(call.action)
    [] call.tool = "introspect" -> introspect(call.action)
    [] call.tool = "fault" -> fault(call.action)
    [] call.tool = "explain" -> explain(call.action)

-----------------------------------------------------------------------------
(***************************************************************************)
(* The fault rules and the contract baselines.                             *)
(***************************************************************************)
(* An error, a dropped answer and a delay that outlasts the call are sent    *)
(* instead of the command; a shorter delay and a corrupted answer are not.   *)
FaultKinds == {"instead", "around"}

(* The entries but that of a command: there is at most one.                 *)
Others(map, c) ==
  IF \E i \in DOMAIN map : map[i].command = c
    THEN RemoveAt(map, CHOOSE i \in DOMAIN map : map[i].command = c) ELSE map

(* Puts an entry for a command at the end of an ordered map of that cap.   *)
Put(map, entry, cap) ==
  LET rest == Others(map, entry.command)
  IN Append(IF Len(rest) = Len(map) /\ Len(map) >= cap THEN Tail(rest) ELSE rest, entry)

inject_fault(c, kind, max) ==
  faults' = Put(faults, [command |-> c, kind |-> kind, count |-> 0, max |-> max],
                MaxFaultRules)

should_trigger(r) == r.max = 0 \/ r.count < r.max

Striking(c) == {i \in DOMAIN faults : faults[i].command = c /\ should_trigger(faults[i])}

(* The trigger is counted with the lookup, under one lock.                 *)
check_and_trigger(c) ==
  faults' = [i \in DOMAIN faults |->
               IF i \in Striking(c) /\ faults[i].max > 0
                 THEN [faults[i] EXCEPT !.count = @ + 1] ELSE faults[i]]

(* FAULT_TTL passes for the oldest rule.  It is taken out of the map by the *)
(* next injection or listing, before either looks at the map, and is inert  *)
(* until then: to every call it is as good as gone.                         *)
FaultExpires ==
  /\ faults # <<>>
  /\ faults' = Tail(faults)
  /\ UNCHANGED <<config, recorded, baselines, busy, doing>>

record_baseline(c) == baselines' = Put(baselines, [command |-> c], MaxBaselines)

-----------------------------------------------------------------------------
(***************************************************************************)
(* Calls.  A call whose handler runs no command is done in one step.  One   *)
(* that runs the command it was given is at a statement of its path.  A     *)
(* replay and a contract check keep the commands they still have to run.    *)
(* did: what a call has changed outside of itself so far.                   *)
(***************************************************************************)
Quiet == [does |-> {}, refused |-> FALSE, did |-> {}]
Free == [path |-> <<>>, at |-> 1, command |-> NoCommand, todo |-> {}, running |-> NoCommand,
         did |-> {}]

Standalone(tools, actions, mores, commands) ==
  [tool : tools, action : actions, more : mores, command : commands, kind : {"none"}, max : {0},
   shape : {"object"}]

(* A fault is injected once or for ever; a misshapen call names its action in another way. *)
CompoundCalls(t, a) ==
  [tool : {t}, action : {a},
   more : IF a = "scrub" THEN BOOLEAN ELSE {FALSE},
   command : IF a = "contract_record" \/ t = "fault" THEN Commands ELSE {NoCommand},
   kind : IF t = "fault" /\ a = "inject" THEN FaultKinds ELSE {"none"},
   max : IF t = "fault" /\ a = "inject" THEN {0, 1} ELSE {0},
   shape : IF t \in Misshapen THEN {"object", "unknown", "tagged", "positional"} ELSE {"object"}]

Calls ==
  Standalone(STANDALONE_TOOLS \ {"wait_for", "invoke_command", "verify_state"},
             {"plain"}, {FALSE}, {NoCommand})
  \cup Standalone({"wait_for"}, {"expression", "event", "log", "page"}, {FALSE}, {NoCommand})
  \cup Standalone({"invoke_command", "verify_state"}, {"plain"}, BOOLEAN, Commands)
  \cup UNION {UNION {CompoundCalls(t, a) : a \in COMPOUND_ACTIONS[t]} : t \in COMPOUND_TOOLS}

(* The gate: a disabled tool, malformed arguments, a capability that is not *)
(* allowed, a typed parse that fails.                                       *)
PassesGate(call) ==
  /\ <<call.tool>> \notin config.disabled
  /\ \E capability \in resolve_capability(call) : is_call_allowed(call.tool, capability)
  /\ parse_args(call)

(* What the handler refuses before it does anything.                        *)
PassesHandler(call) == \A name \in dispatch_tool(call).needs : is_tool_enabled(name)

Refused(call) == ~(PassesGate(call) /\ (Stepwise(call) \/ PassesHandler(call)))

Refuse(g, call) ==
  /\ Refused(call)
  /\ doing' = [Quiet EXCEPT !.refused = TRUE]
  /\ UNCHANGED <<config, recorded, baselines, faults, busy>>

Following(path) == [Free EXCEPT !.path = path]

Begin(g, call) ==
  /\ Stepwise(call) /\ ~Refused(call)
  /\ busy' = [busy EXCEPT ![g] = [Following(Path(call)) EXCEPT !.command = call.command]]
  /\ UNCHANGED <<config, recorded, baselines, faults, doing>>

Perform(g, call, todo) ==
  /\ ~Stepwise(call) /\ ~Refused(call)
  /\ doing' = [Quiet EXCEPT !.does = dispatch_tool(call).does \ {"invoke"}]
  /\ busy' = [busy EXCEPT ![g] = [Free EXCEPT !.todo = todo]]

Replay(g, call) ==
  /\ call.tool = "recording" /\ call.action = "replay"
  /\ Perform(g, call, recorded)
  /\ UNCHANGED <<config, recorded, baselines, faults>>

Contract(g, call) ==
  /\ call.tool = "introspect" /\ call.action = "contract_check"
  /\ Perform(g, call, {baselines[i].command : i \in DOMAIN baselines})
  /\ UNCHANGED <<config, recorded, baselines, faults>>

(* A session starts empty, or is imported with whatever calls it claims.    *)
SessionChange(g, call) ==
  /\ call.tool = "recording" /\ call.action \in {"start", "import"}
  /\ Perform(g, call, {})
  /\ recorded' \in (IF call.action = "start" THEN {{}} ELSE SUBSET Commands)
  /\ UNCHANGED <<config, baselines, faults>>

FaultChange(g, call) ==
  /\ call.tool = "fault"
  /\ Perform(g, call, {})
  /\ CASE call.action = "inject" -> inject_fault(call.command, call.kind, call.max)
       [] call.action = "list" -> UNCHANGED faults
       [] call.action = "clear" -> faults' = Others(faults, call.command)
       [] call.action = "clear_all" -> faults' = <<>>
  /\ UNCHANGED <<config, recorded, baselines>>

ContractClear(g, call) ==
  /\ call.tool = "introspect" /\ call.action = "contract_clear"
  /\ Perform(g, call, {})
  /\ baselines' = <<>>
  /\ UNCHANGED <<config, recorded, faults>>

OtherCall(g, call) ==
  /\ call.tool # "fault"
  /\ ~(call.tool = "recording" /\ call.action \in {"start", "import", "replay"})
  /\ call.action \notin {"contract_check", "contract_clear"}
  /\ Perform(g, call, {})
  /\ UNCHANGED <<config, recorded, baselines, faults>>

execute_tool(g, call) ==
  /\ doing = Quiet /\ busy[g] = Free
  /\ \/ Refuse(g, call) \/ Begin(g, call) \/ Replay(g, call)
     \/ Contract(g, call) \/ SessionChange(g, call) \/ FaultChange(g, call)
     \/ ContractClear(g, call) \/ OtherCall(g, call)

-----------------------------------------------------------------------------
(* Along the path of a handler.                                            *)

NextIs(g, statement) ==
  doing = Quiet /\ busy[g].running = NoCommand
    /\ busy[g].at <= Len(busy[g].path) /\ busy[g].path[busy[g].at] = statement

(* The call at its n-th next statement, or answered.                        *)
Onward(b, n) == IF b.at + n > Len(b.path) THEN Free ELSE [b EXCEPT !.at = @ + n]
Having(b, what) == [b EXCEPT !.did = @ \cup {what}]
Running(b, c) == [b EXCEPT !.running = c]

BusyIs(g, b) == busy' = [busy EXCEPT ![g] = b]

Asks(g, check) ==
  /\ NextIs(g, check)
  /\ IF Allowed(check, busy[g].command)
       THEN BusyIs(g, Onward(busy[g], 1)) /\ UNCHANGED doing
       ELSE /\ doing' = [Quiet EXCEPT !.refused = TRUE, !.did = busy[g].did]
            /\ BusyIs(g, Free)
  /\ UNCHANGED <<config, recorded, baselines, faults>>

(* An expression that fails, or whose value is not JSON, ends the call.     *)
Evaluates(g, ok) ==
  /\ NextIs(g, "code")
  /\ doing' = [Quiet EXCEPT !.does = {"code"}]
  /\ BusyIs(g, IF ok THEN Onward(Having(busy[g], "code"), 1) ELSE Free)
  /\ UNCHANGED <<config, recorded, baselines, faults>>

(* A rule that answers instead of the command: on to what follows "run".    *)
MeetsFault(g) ==
  /\ NextIs(g, "fault")
  /\ check_and_trigger(busy[g].command)
  /\ LET struck == Striking(busy[g].command)
         b == IF struck = {} THEN busy[g] ELSE Having(busy[g], "spent")
     IN BusyIs(g, IF \E i \in struck : faults[i].kind = "instead" THEN Onward(b, 2)
                                                               ELSE Onward(b, 1))
  /\ UNCHANGED <<config, recorded, baselines, doing>>

SendsCommand(g) ==
  /\ NextIs(g, "run")
  /\ BusyIs(g, Running(Having(busy[g], "ran"), busy[g].command))
  /\ doing' = [Quiet EXCEPT !.does = {"invoke"}]
  /\ UNCHANGED <<config, recorded, baselines, faults>>

Attaches(g) ==
  /\ NextIs(g, "attach")
  /\ doing' = [Quiet EXCEPT !.does = {"logs"}]
  /\ BusyIs(g, Onward(busy[g], 1))
  /\ UNCHANGED <<config, recorded, baselines, faults>>

Stores(g) ==
  /\ NextIs(g, "store")
  /\ record_baseline(busy[g].command)
  /\ doing' = [Quiet EXCEPT !.does = {"contracts"}]
  /\ BusyIs(g, Onward(Having(busy[g], "stored"), 1))
  /\ UNCHANGED <<config, recorded, faults>>

(* A replay and a contract check ask for each command just before it runs.  *)
RunCommand(g, c) ==
  /\ doing = Quiet /\ busy[g].running = NoCommand /\ c \in busy[g].todo
  /\ MayRun(c)
  /\ BusyIs(g, [Running(busy[g], c) EXCEPT !.todo = @ \ {c}])
  /\ doing' = [Quiet EXCEPT !.does = {"invoke"}]
  /\ UNCHANGED <<config, recorded, baselines, faults>>

SkipCommand(g, c) ==
  /\ doing = Quiet /\ busy[g].running = NoCommand /\ c \in busy[g].todo
  /\ ~MayRun(c)
  /\ BusyIs(g, [busy[g] EXCEPT !.todo = @ \ {c}])
  /\ UNCHANGED <<config, recorded, baselines, faults, doing>>

(* The command's answer.  After a failure only invoke_command has more to   *)
(* do: it attaches the logs to the error as well.                           *)
CommandAnswers(g, ok) ==
  /\ busy[g].running # NoCommand
  /\ LET b == Running(busy[g], NoCommand)
     IN BusyIs(g, CASE b.path = <<>> -> b
                  [] b.path # <<>> /\ (ok \/ b.path[Len(b.path)] = "attach") -> Onward(b, 1)
                  [] OTHER -> Free)
  /\ UNCHANGED <<config, recorded, baselines, faults, doing>>

build_privacy_config(profile, d, l) ==
  [profile |-> profile, disabled |-> d, allow |-> l.allow, block |-> l.block]

GateInit ==
  /\ \E profile \in {"Observe", "Test", "FullControl"}, d \in Disableable, l \in Lists :
       config = build_privacy_config(profile, d, l)
  /\ recorded = {} /\ baselines = <<>> /\ faults = <<>>
  /\ busy = [g \in Agents |-> Free]
  /\ doing = Quiet

(* The step of the handler is over; nothing of it is left but its changes.  *)
StepEnds ==
  /\ doing # Quiet
  /\ doing' = Quiet
  /\ UNCHANGED <<config, recorded, baselines, faults, busy>>

GateNext ==
  \/ StepEnds
  \/ FaultExpires
  \/ \E g \in Agents :
       \/ \E call \in Calls : execute_tool(g, call)
       \/ \E check \in Checks : Asks(g, check)
       \/ MeetsFault(g) \/ SendsCommand(g) \/ Attaches(g) \/ Stores(g)
       \/ \E c \in Commands : RunCommand(g, c) \/ SkipCommand(g, c)
       \/ \E ok \in BOOLEAN : Evaluates(g, ok) \/ CommandAnswers(g, ok)

GateSpec == GateInit /\ [][GateNext]_gateVars

-----------------------------------------------------------------------------
(* What each profile is documented to grant (privacy.rs, PrivacyProfile).   *)
Granted ==
  CASE config.profile = "Observe" -> {"read", "logs"}
    [] config.profile = "Test" ->
         {"read", "logs", "page", "storage", "recorder", "erase", "back", "invoke"}
    [] config.profile = "FullControl" ->
         {"read", "logs", "page", "storage", "recorder", "erase", "back", "invoke",
          "code", "pixels", "css", "navigate", "dialogs", "window", "routes", "faults",
          "contracts", "events", "files"}

(* The names that, disabled, are to rule an effect out on every path.       *)
Doors(effect) ==
  CASE effect = "code" -> {<<"eval_js">>}
    [] effect = "pixels" -> {<<"screenshot">>}
    [] effect = "invoke" -> {<<"invoke_command">>}
    [] effect = "logs" -> {<<"logs">>, <<"logs", "backend">>}
    [] effect = "events" -> {<<"introspect">>, <<"introspect", "event_bus">>}
    [] effect = "navigate" -> {<<"navigate">>, <<"navigate", "go_to">>}
    [] effect = "css" -> {<<"css">>}
    [] effect = "storage" -> {<<"storage">>}
    [] OTHER -> {}

(* Whatever the tool and however its arguments are written, a call only has *)
(* effects the profile grants and none that the operator ruled out under    *)
(* the name of another tool: no code when eval_js is off, no pixels when    *)
(* screenshot is off, and no command runs, by invocation, verification,     *)
(* replay or contract, that the operator's lists refuse.                    *)
NoSideDoors ==
  /\ \A e \in doing.does : e \in Granted /\ Doors(e) \cap config.disabled = {}
  /\ \A g \in Agents : busy[g].running # NoCommand =>
       /\ busy[g].running \notin config.block
       /\ \A allow \in config.allow : busy[g].running \in allow
       /\ config.profile = "Test" => config.allow # {}

(* A call that is answered as refused has spent no fault, run no command    *)
(* and stored no baseline on its way to the check that refused it: only     *)
(* verify_state asks for its command after it has evaluated its expression. *)
(* So a rule is only ever spent by commands the operator's lists admit, a   *)
(* contract is only kept of such a command, and whoever fills the two maps  *)
(* in whatever order, neither outgrows its cap or holds a command twice.    *)
RefusalsComeFirst ==
  /\ doing.refused => doing.did \subseteq {"code"}
  /\ \A i \in DOMAIN faults : faults[i].count > 0 => MayRun(faults[i].command)
  /\ \A i \in DOMAIN baselines : MayRun(baselines[i].command)
  /\ Len(faults) <= MaxFaultRules /\ Len(baselines) <= MaxBaselines
  /\ \A map \in {faults, baselines} : \A i, j \in DOMAIN map :
       map[i].command = map[j].command => i = j
=============================================================================
