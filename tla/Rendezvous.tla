----------------------------- MODULE Rendezvous -----------------------------
(***************************************************************************)
(* How a test client finds an application and stays with it.  Applications  *)
(* bind a port and publish token, port and identity in a directory named    *)
(* after their process id, one file after the other; a killed one leaves    *)
(* the directory behind.  The client scans the directories, shakes hands,   *)
(* remembers which application it reached, and on a refused connection or   *)
(* token looks for that same application again and sends the call again.    *)
(* Which roots it reads, and what it uses of them, is DiscoveryRoots'.       *)
(***************************************************************************)
EXTENDS Integers, FiniteSets, Sequences, DiscoveryRoots

CONSTANTS Pids,        \* process ids
          Ids,         \* identities of applications
          Ports,       \* ports, in the order an application tries them
          Reuse,       \* who may get the id of a killed process whose directory is
                       \* still there: "other" processes, an "app"
          Explicit,    \* VICTAURI_PORT names the first port
          MaxStarts,   \* bound: applications started
          MaxCalls,    \* bound: tool calls made
          None

ASSUME RendezvousAssumption ==
  /\ IsFiniteSet(Pids) /\ IsFiniteSet(Ids) /\ Ports \in SUBSET (Nat \ {0}) /\ Ports # {}
  /\ Reuse \subseteq {"other", "app"} /\ Explicit \in BOOLEAN
  /\ MaxStarts \in Nat /\ MaxCalls \in Nat /\ None \notin Pids /\ None \notin Ids

VARIABLES procs,   \* per process id: the process that has it
          entry,   \* per process id: the files of its directory
          starts,  \* applications started so far: the last token minted
          client,  \* the client and what it is doing
          ran      \* the calls that reached a handler, in order, and where
rvVars == <<procs, entry, starts, client, ran>>

Gone == [at |-> "gone", id |-> None, port |-> 0, token |-> 0]
NoFiles == [port |-> 0, token |-> 0, id |-> None]
NotRead == [port |-> 0, token |-> 0, of |-> 0]
Lowest(S) == CHOOSE p \in S : \A q \in S : p <= q
Asked == Lowest(Ports)

NewClient == [at |-> "new", why |-> "discover", port |-> 0, token |-> 0, id |-> None,
              left |-> {}, reading |-> None, found |-> NotRead, seen |-> {},
              call |-> 0, calls |-> 0, refused |-> FALSE, denied |-> FALSE]

RvInit ==
  /\ procs = [p \in Pids |-> Gone] /\ entry = [p \in Pids |-> NoFiles]
  /\ starts = 0 /\ client = NewClient /\ ran = <<>>
-----------------------------------------------------------------------------
(* An application: try_bind takes the first free port, then the token, the  *)
(* port and the identity are written, in this order.                        *)
Held == {procs[p].port : p \in Pids} \ {0}
StartApp(p, id) ==
  /\ procs[p].at = "gone" /\ starts < MaxStarts /\ Ports \ Held # {}
  /\ entry[p] # NoFiles => "app" \in Reuse
  /\ \A q \in Pids : procs[q].id # id
  /\ starts' = starts + 1
  /\ procs' = [procs EXCEPT ![p] = [at |-> "bound", id |-> id, port |-> Lowest(Ports \ Held),
                                    token |-> starts + 1]]
  /\ UNCHANGED <<entry, client, ran>>

(* The order in which the files are written.  The first is a mistaken       *)
(* version, in which clients find the port before the token is there.       *)
PortFirst(at) == CASE at = "bound" -> "port" [] at = "port" -> "token" [] at = "token" -> "id"
NextFile(at) == CASE at = "bound" -> "token" [] at = "token" -> "port" [] at = "port" -> "id"
WriteFile(p) ==
  /\ procs[p].at \in {"bound", "token", "port"}
  /\ LET f == NextFile(procs[p].at) IN
     /\ entry' = [entry EXCEPT ![p] =
          CASE f = "token" -> [@ EXCEPT !.token = procs[p].token]
            [] f = "port" -> [@ EXCEPT !.port = procs[p].port]
            [] f = "id" -> [@ EXCEPT !.id = procs[p].id]]
     /\ procs' = [procs EXCEPT ![p].at = IF f = NextFile("port") THEN "up" ELSE f]
  /\ UNCHANGED <<starts, client, ran>>

(* Shutdown removes the directory, and later the process ends; a killed     *)
(* process leaves everything behind.                                        *)
Shutdown(p) ==
  /\ procs[p].at = "up"
  /\ procs' = [procs EXCEPT ![p].at = "closing"] /\ entry' = [entry EXCEPT ![p] = NoFiles]
  /\ UNCHANGED <<starts, client, ran>>
ProcessEnds(p) ==
  /\ procs[p].at # "gone"
  /\ procs' = [procs EXCEPT ![p] = Gone]
  /\ UNCHANGED <<entry, starts, client, ran>>
OtherProcess(p) ==
  /\ procs[p].at = "gone" /\ entry[p] # NoFiles /\ "other" \in Reuse
  /\ procs' = [procs EXCEPT ![p].at = "other"]
  /\ UNCHANGED <<entry, starts, client, ran>>
-----------------------------------------------------------------------------
(* Whoever listens on a port.                                               *)
Listens(p, port) == port # 0 /\ procs[p].port = port
reachable(port) == \E p \in Pids : Listens(p, port)
Server(port) == CHOOSE p \in Pids : Listens(p, port)
Accepts(port, token) == reachable(port) /\ procs[Server(port)].token = token

(* find_live_servers: one directory after the other.  That of a dead        *)
(* process is deleted; that of a live one whose port does not answer is     *)
(* passed over and kept.                                                    *)
Scan(why, c) == [c EXCEPT !.at = "scans", !.why = why, !.left = Pids, !.seen = {}]
Deletes(p) == procs[p].at = "gone"
ScanEntry(p) ==
  /\ client.at = "scans" /\ client.reading = None /\ p \in client.left
  /\ entry' = [entry EXCEPT ![p] = IF Deletes(p) THEN NoFiles ELSE @]
  /\ client' = IF procs[p].at # "gone" /\ entry[p].port # 0 /\ reachable(entry[p].port)
               THEN [client EXCEPT !.reading = p, !.left = @ \ {p},
                                   !.found = [NotRead EXCEPT !.port = entry[p].port,
                                                             !.of = procs[p].token]]
               ELSE [client EXCEPT !.left = @ \ {p}]
  /\ UNCHANGED <<procs, starts, ran>>
(* The token of the entry is read, and then its identity; `of' only         *)
(* remembers which start of the application published the port.             *)
ReadEntry ==
  /\ client.at = "scans" /\ client.reading # None
  /\ LET e == entry[client.reading] IN
     client' = IF client.found.token = 0 /\ e.token # 0
               THEN [client EXCEPT !.found.token = e.token]
               ELSE [client EXCEPT !.reading = None, !.found = NotRead,
                       !.seen = @ \cup {[pid |-> client.reading, port |-> client.found.port,
                                         token |-> client.found.token, id |-> e.id,
                                         of |-> client.found.of]}]
  /\ UNCHANGED <<procs, entry, starts, ran>>

(* settle_port_claims: where several claim a port its server is asked, with *)
(* each token; when it accepts none, or does not answer, all stay.          *)
Settled(seen) ==
  {s \in seen :
     LET rivals == {r \in seen : r.port = s.port}
     IN Cardinality(rivals) > 1 /\ (\E r \in rivals : Accepts(r.port, r.token)) =>
          s.pid = Server(s.port)}

(* resolve_from and select_for_identity: the one entry that fits, or none.  *)
(* A named port goes with the token of its one entry, unless that entry is  *)
(* known to be of another application.                                      *)
OnAsked(servers) == {s \in servers : s.port = Asked}
Fitting(servers, id) == {s \in servers : id = None \/ s.id = id}
Chosen(servers, id) ==
  IF Explicit
  THEN IF Cardinality(OnAsked(servers)) # 1 THEN {[port |-> Asked, token |-> 0]}
       ELSE {[port |-> s.port, token |-> s.token] :
               s \in {x \in OnAsked(servers) : id = None \/ x.id \in {None, id}}}
  ELSE IF Cardinality(Fitting(servers, id)) # 1 THEN {}
       ELSE {[port |-> s.port, token |-> s.token] : s \in Fitting(servers, id)}

(* A scan that finds nothing: the call fails, reconnect looks again.        *)
Nothing == [client EXCEPT !.at = CASE client.why = "discover" -> "new"
                                   [] client.why = "rpc" -> "idle"
                                   [] client.why = "reconnect" -> "waits",
                          !.call = 0]
Choose(servers) ==
  /\ client.at = "scans" /\ client.reading = None /\ client.left = {}
  /\ \E s \in {Chosen(servers, client.id)} :
       client' = IF s = {} THEN Nothing
                 ELSE [client EXCEPT !.at = "shakes", !.seen = {},
                                     !.port = (CHOOSE x \in s : TRUE).port,
                                     !.token = (CHOOSE x \in s : TRUE).token]
  /\ UNCHANGED <<procs, entry, starts, ran>>

(* perform_handshake: refused, denied, or done.                             *)
Handshake ==
  /\ client.at = "shakes"
  /\ client' = IF Accepts(client.port, client.token) THEN [client EXCEPT !.at = "asks"]
               ELSE [Nothing EXCEPT !.seen = {}]
  /\ UNCHANGED <<procs, entry, starts, ran>>

(* The identity of whoever was reached: remembered by the first contact,    *)
(* checked by every later one.  A server that does not answer is taken for  *)
(* the application its discovery entry names, and passes the check.         *)
identifier_for_port(port) ==
  LET on == {p \in Pids : procs[p].at # "gone" /\ entry[p].port = port /\ reachable(port)}
  IN IF Cardinality(on) = 1 THEN entry[CHOOSE p \in on : TRUE].id ELSE None
verify_identity(id) == client.id = None \/ id \in {None, client.id}
Identify ==
  /\ client.at = "asks"
  /\ LET id == IF Accepts(client.port, client.token) THEN procs[Server(client.port)].id ELSE None
     IN client' = IF ~verify_identity(id) THEN Nothing
                  ELSE [client EXCEPT !.at = IF client.call = 0 THEN "idle" ELSE "sends",
                          !.id = IF client.why # "discover" THEN @
                                 ELSE IF id # None THEN id ELSE identifier_for_port(client.port)]
  /\ UNCHANGED <<procs, entry, starts, ran>>
-----------------------------------------------------------------------------
(* discover, call_tool and reconnect, as the test asks for them.            *)
Discover ==
  /\ client.at = "new"
  /\ client' = Scan("discover", client)
  /\ UNCHANGED <<procs, entry, starts, ran>>
CallTool ==
  /\ client.at = "idle" /\ client.calls < MaxCalls
  /\ client' = [client EXCEPT !.at = "sends", !.why = "rpc", !.call = client.calls + 1,
                              !.calls = @ + 1, !.refused = FALSE, !.denied = FALSE]
  /\ UNCHANGED <<procs, entry, starts, ran>>
Reconnect ==
  /\ client.at \in {"idle", "waits"} /\ client.id # None
  /\ client' = Scan("reconnect", client)
  /\ UNCHANGED <<procs, entry, starts, ran>>

(* rpc: one refused connection and one denied token are each followed by a  *)
(* new search and handshake; whatever may have reached a handler is not     *)
(* sent again.                                                              *)
Again(outcome) == outcome \in {"refused", "denied"}
Done == [client EXCEPT !.at = "idle", !.call = 0]
Send(outcome) ==
  /\ client.at = "sends"
  /\ outcome = "refused" => ~reachable(client.port)
  /\ outcome = "denied" => reachable(client.port) /\ ~Accepts(client.port, client.token)
  /\ outcome \in {"answered", "lost"} => Accepts(client.port, client.token)
  /\ ran' = IF outcome \in {"answered", "lost"}
            THEN Append(ran, [call |-> client.call, id |-> procs[Server(client.port)].id,
                              whose |-> client.id])
            ELSE ran
  /\ client' = IF Again(outcome) /\ ~(outcome = "refused" /\ client.refused)
                                 /\ ~(outcome = "denied" /\ client.denied)
                                 /\ ~(outcome = "lost" /\ client.refused)
               THEN Scan("rpc", [client EXCEPT !.refused = @ \/ outcome # "denied",
                                               !.denied = @ \/ outcome = "denied"])
               ELSE Done
  /\ UNCHANGED <<procs, entry, starts>>

RvNext ==
  \/ \E p \in Pids :
       \/ \E id \in Ids : StartApp(p, id)
       \/ WriteFile(p) \/ Shutdown(p) \/ ProcessEnds(p) \/ OtherProcess(p) \/ ScanEntry(p)
  \/ ReadEntry \/ Choose(Settled(client.seen)) \/ Choose(client.seen) \/ Handshake \/ Identify
  \/ Discover \/ CallTool \/ Reconnect
  \/ \E outcome \in {"refused", "denied", "answered", "lost"} : Send(outcome)

RvSpec == RvInit /\ [][RvNext]_rvVars
-----------------------------------------------------------------------------
(* Every call runs in the application the client first found, however the   *)
(* applications restart and whoever takes over their ports and process ids. *)
CallsStayWithTheApp ==
  \A i \in DOMAIN ran : ran[i].whose # None => ran[i].id = ran[i].whose

(* A call that may have reached a handler is not sent a second time.        *)
CallsRunOnce == \A i, j \in DOMAIN ran : ran[i].call = ran[j].call => i = j

(* The entry of an application that is up stays complete for as long as it  *)
(* is up: no scan removes it, busy and half-started ones included.          *)
LiveAppsStayDiscoverable ==
  \A p \in Pids : procs[p].at = "up" =>
    entry[p] = [port |-> procs[p].port, token |-> procs[p].token, id |-> procs[p].id]

(* A client that has read the entry of an application that still runs has   *)
(* the token that goes with the port: it is not turned away because the     *)
(* application was just starting.                                           *)
PortsComeWithTheirToken ==
  \A s \in client.seen :
    /\ procs[s.pid].token = s.of /\ procs[s.pid].at # "closing"
    /\ s.port = procs[s.pid].port
    => s.token = s.of

(* Together: whatever applications start, end and take over, a call runs    *)
(* once and in the application the client was made for, and what a client   *)
(* needs to find an application is there while the application is.          *)
CallsReachTheirApp ==
  CallsStayWithTheApp /\ CallsRunOnce /\ LiveAppsStayDiscoverable /\ PortsComeWithTheirToken

(* A client finds its application among those of other accounts and those   *)
(* that restart, and every call it makes runs there, once.                  *)
ClientsFindTheirApp == CallsReachTheirApp /\ EntriesAreOurs
=============================================================================
