--------------------------- MODULE DiscoveryRoots ---------------------------
(***************************************************************************)
(* Where a starting app registers and where the readers look.  The plugin  *)
(* (mcp/server.rs) picks one root directory that is its account's own,     *)
(* makes <root>/<pid>/ in it and writes the token and the port there.  The *)
(* test client, the CLI bridge and the watchdog scan every root it may     *)
(* have picked and use an entry only while both directories are their      *)
(* account's and the process is alive and theirs (victauri-test            *)
(* discovery.rs, process.rs; victauri-watchdog main.rs, process.rs).       *)
(*                                                                         *)
(* Another account of the machine shares the temporary directory and may   *)
(* make any directory there first; a pid may pass to another process.      *)
(***************************************************************************)
EXTENDS Naturals, Sequences, FiniteSets

CONSTANTS NoDir,
          MaxForeign    \* bound: directories the other account makes

ASSUME RootsAssumption ==
    LET Dirs == [owner : {"me", "admins", "other"}, mode : {"private", "readable", "open"}, real : BOOLEAN]
        Writers == {NoDir, "app", "other"} IN
    /\ NoDir \notin {"app", "other", "client", "bridge", "watchdog"}
    /\ NoDir \notin Dirs /\ NoDir \notin [dir : Dirs, token : Writers, port : Writers]

VARIABLES setting,      \* the platform, the environment, what the readers can run
          root,         \* per root, its directory
          listing,      \* per root, <root>/<pid>/
          app,          \* the plugin: where it is, the root it picked, whether a write was refused
          holder,       \* who has the pid now
          foreign,      \* how much the other account has done
          reader        \* a scan: its kind, the roots left, what it found

rootVars == <<setting, root, listing, app, holder, foreign, reader>>

Roots == {"runtime", "temp", "home", "legacy"}
Unix == setting.platform = "unix"

(* A directory: whose, how open to others, and whether it really is one (not a link). *)
Dir(owner, mode) == [owner |-> owner, mode |-> mode, real |-> TRUE]
Link(owner) == [owner |-> owner, mode |-> "private", real |-> FALSE]
Mine == {Dir("me", m) : m \in {"private", "readable", "open"}}

(* XDG_RUNTIME_DIR private, or of no use; the parent of the home root one that only this *)
(* account writes to, or not; a kill or a shell to ask with, a /proc to look in; on      *)
(* Windows an app or a reader that is elevated, in an account that is an administrator.  *)
Settings ==
    [platform : {"unix"}, runtime : BOOLEAN, home : BOOLEAN, kill : BOOLEAN, proc : BOOLEAN,
     member : {FALSE}, elevated : {FALSE}, above : {FALSE}]
    \cup {s \in [platform : {"windows"}, runtime : {FALSE}, home : {FALSE}, kill : {TRUE}, proc : {TRUE},
                 member : BOOLEAN, elevated : BOOLEAN, above : BOOLEAN] :
          s.elevated \/ s.above => s.member}

(* What may be there before the app starts: nothing, a directory of an earlier run, of an *)
(* earlier elevated run, or something of ours that is no directory.                       *)
Before(s, r) ==
    {NoDir} \cup
    (IF s.platform = "windows"
     THEN IF r # "legacy" THEN {}
          ELSE {Dir("me", "private")} \cup (IF s.member THEN {Dir("admins", "private")} ELSE {})
     ELSE IF (r = "runtime" /\ ~s.runtime) \/ (r = "home" /\ ~s.home) THEN {}
     ELSE Mine \cup {Link("me")})

RootsInit ==
    /\ setting \in Settings
    /\ root \in {f \in [Roots -> Mine \cup {NoDir, Link("me"), Dir("admins", "private")}] :
                    \A r \in Roots : f[r] \in Before(setting, r)}
    /\ listing = [r \in Roots |-> NoDir]
    /\ app = [at |-> "choose", root |-> NoDir, refused |-> FALSE]
    /\ holder = "app"
    /\ foreign = 0
    /\ reader = [kind |-> NoDir, left |-> <<>>, found |-> {}, gone |-> FALSE, registered |-> FALSE]

----------------------------------------------------------------------------
(* The other account: makes a root in the shared temporary directory, which a sticky bit *)
(* keeps there, or an entry in a root it may write to.                                   *)
ForeignRoot(r, d) ==
    /\ foreign < MaxForeign
    /\ r \in (IF Unix THEN {"temp", "legacy"} ELSE {"legacy"})
    /\ root[r] = NoDir
    /\ root' = [root EXCEPT ![r] = d]
    /\ foreign' = foreign + 1
    /\ UNCHANGED <<setting, listing, app, holder, reader>>

ForeignEntry(r) ==
    /\ foreign < MaxForeign
    /\ root[r] # NoDir
    /\ root[r].owner = "other" \/ root[r].mode = "open"
    /\ listing[r] = NoDir
    /\ listing' = [listing EXCEPT ![r] = [dir |-> Dir("other", "readable"), token |-> "other", port |-> "other"]]
    /\ foreign' = foreign + 1
    /\ UNCHANGED <<setting, root, app, holder, reader>>

(* The app ends without cleaning up; its pid may then be another process's. *)
PidPasses(to) ==
    /\ <<holder, to>> \in {<<"app", "nobody">>, <<"app", "zombie">>, <<"zombie", "nobody">>,
                          <<"nobody", "ours">>, <<"nobody", "other">>}
    /\ to = "zombie" => Unix
    /\ holder' = to
    /\ UNCHANGED <<setting, root, listing, app, foreign, reader>>

----------------------------------------------------------------------------
(* acceptable_owner_sids: the user, and the Administrators group for one of its members. *)
AcceptableOwners == {"me"} \cup (IF setting.member THEN {"admins"} ELSE {})

Creates == IF setting.elevated THEN {"me", "admins"} ELSE {"me"}

(* ensure_unix_private_dir, ensure_windows_private_dir: whether d can be, or be made, a    *)
(* private directory of ours, and what it then is.                                         *)
CanBeOurs(d) == d = NoDir \/ (d.real /\ d.owner \in AcceptableOwners)
MadeOurs(d, owner) == Dir(IF d = NoDir THEN owner ELSE d.owner, "private")

(* discovery_root_from, and the home state root behind it.  A root is decided once. *)
Primary == IF ~Unix THEN "legacy" ELSE IF setting.runtime THEN "runtime" ELSE "temp"

FallsBack == Unix /\ ~CanBeOurs(root[Primary]) /\ setting.home /\ CanBeOurs(root["home"])

ChooseRoot ==
    /\ holder = "app"
    /\ app.at = "choose"
    /\ LET r == IF FallsBack THEN "home" ELSE Primary IN
       /\ app' = [app EXCEPT !.at = "token", !.root = r]
       /\ root' = IF Unix /\ CanBeOurs(root[r]) THEN [root EXCEPT ![r] = MadeOurs(@, "me")] ELSE root
    /\ UNCHANGED <<setting, listing, holder, foreign, reader>>

(* ensure_private_dir: the root first, then the entry; an entry on Windows that is not ours, *)
(* or whose access list cannot be set (fails), is removed and refused.                       *)
EnsureDirs(owner, fails) ==
    LET r == app.root
        rootOurs == CanBeOurs(root[r]) /\ fails # "root"
        d == IF listing[r] = NoDir THEN NoDir ELSE listing[r].dir
        ours == rootOurs /\ CanBeOurs(d) /\ fails # "entry"
    IN  /\ root' = IF rootOurs THEN [root EXCEPT ![r] = MadeOurs(@, owner)] ELSE root
        /\ listing' = IF ours
                      THEN [listing EXCEPT ![r] = [dir |-> MadeOurs(d, owner),
                                                   token |-> IF @ = NoDir THEN NoDir ELSE @.token,
                                                   port |-> IF @ = NoDir THEN NoDir ELSE @.port]]
                      ELSE IF rootOurs /\ ~Unix THEN [listing EXCEPT ![r] = NoDir] ELSE listing
        /\ app' = [app EXCEPT !.refused = @ \/ ~ours,
                              !.at = CASE ours -> (IF app.at = "token" THEN "write_token" ELSE "write_port")
                                     [] ~ours /\ app.at = "token" -> "port"
                                     [] OTHER -> "up"]

Ensure ==
    /\ holder = "app"
    /\ app.at \in {"token", "port"}
    /\ \E owner \in Creates, fails \in (IF Unix THEN {"none"} ELSE {"none", "root", "entry"}) :
         EnsureDirs(owner, fails)
    /\ UNCHANGED <<setting, holder, foreign, reader>>

(* write_private_file: a fresh file, the old one unlinked. *)
RegisterFile ==
    /\ holder = "app"
    /\ \/ /\ app.at = "write_token"
          /\ listing' = [listing EXCEPT ![app.root].token = "app"]
          /\ app' = [app EXCEPT !.at = "port"]
       \/ /\ app.at = "write_port"
          /\ listing' = [listing EXCEPT ![app.root].port = "app"]
          /\ app' = [app EXCEPT !.at = "up"]
    /\ UNCHANGED <<setting, root, holder, foreign, reader>>

(* remove_port_file at an orderly end: not through directories that are not private (Unix). *)
Trusted(d) == d # NoDir /\ d.real /\ d.owner = "me" /\ d.mode = "private"

ShutDown ==
    /\ holder = "app"
    /\ app.at = "up"
    /\ app' = [app EXCEPT !.at = "down"]
    /\ listing' = IF listing[app.root] # NoDir
                     /\ (Unix => Trusted(root[app.root]) /\ Trusted(listing[app.root].dir))
                     /\ listing[app.root].dir.owner # "other"
                  THEN [listing EXCEPT ![app.root] = NoDir] ELSE listing
    /\ UNCHANGED <<setting, root, holder, foreign, reader>>

----------------------------------------------------------------------------
(* real_discovery_roots, most specific first. *)
Scanned ==
    IF Unix THEN (IF setting.runtime THEN <<"runtime">> ELSE <<>>) \o <<"temp", "home", "legacy">>
    ELSE <<"legacy">>

LookIn == Scanned

(* dir_is_trusted: a real directory of ours that others cannot write to. *)
ReaderTrusts(d) ==
    /\ d # NoDir /\ d.real
    /\ IF Unix THEN d.owner = "me" /\ d.mode # "open" ELSE d.owner \in AcceptableOwners

(* What `kill -0` says: it could be run or not, and it succeeds for a process of ours, *)
(* a zombie included.                                                                  *)
Signalled == {"none"} \cup (IF setting.kill THEN {IF holder \in {"app", "ours", "zombie"} THEN "yes" ELSE "no"}
                            ELSE {})

(* What /proc says: nothing when there is none. *)
ProcOwner ==
    IF ~setting.proc THEN "none"
    ELSE IF holder \in {"app", "ours", "zombie"} THEN "ours"
    ELSE IF holder = "other" THEN "other" ELSE "missing"

(* liveness_with on Unix. *)
Liveness(signalled) ==
    CASE signalled = "yes" -> "Own"
      [] signalled = "no" -> IF ProcOwner \in {"missing", "none"} THEN "Dead" ELSE "OtherUser"
      [] OTHER -> CASE ProcOwner = "ours" -> "Own"
                    [] ProcOwner = "other" -> "OtherUser"
                    [] ProcOwner = "missing" -> "Dead"
                    [] OTHER -> "Unknown"

(* liveness on Windows: a process above the reader, or another account's, may not be opened, *)
(* or its token not be read.                                                                 *)
LivenessOnWindows ==
    CASE holder = "nobody" -> {"Dead"}
      [] holder = "app" -> IF setting.elevated /\ ~setting.above THEN {"Unverified", "Own"} ELSE {"Own"}
      [] holder = "ours" -> {"Own", "Unverified"}
      [] OTHER -> {"OtherUser", "Unverified", "Unknown"}

Verdicts == IF Unix THEN {Liveness(s) : s \in Signalled} ELSE LivenessOnWindows

StartScan(kind) ==
    /\ reader.kind = NoDir
    /\ reader' = [kind |-> kind, left |-> LookIn, found |-> {}, gone |-> FALSE,
                  registered |-> app.at = "up" /\ ~app.refused]
    /\ UNCHANGED <<setting, root, listing, app, holder, foreign>>

(* Both directories are trusted, so what is in them was written by this account. *)
Seen(r) == ReaderTrusts(root[r]) /\ listing[r] # NoDir /\ ReaderTrusts(listing[r].dir)

(* An entry of a live process of ours is used, in the first root that has one for the bridge; *)
(* the watchdog follows whatever is not known to be gone (discover_in, may_be_alive).         *)
Uses(r, v) ==
    /\ Seen(r) /\ listing[r].port # NoDir
    /\ reader.kind = "bridge" => reader.found = {}
    /\ IF reader.kind = "watchdog" THEN v \notin {"Dead", "OtherUser"} ELSE v = "Own"

(* find_live_servers_in: the test client also removes the entry of a dead process. *)
ScanRoot ==
    /\ reader.left # <<>>
    /\ LET r == Head(reader.left) IN
       \E v \in Verdicts :
          /\ reader' = [reader EXCEPT !.left = Tail(@),
                                      !.found = @ \cup (IF Uses(r, v) THEN {listing[r].port, listing[r].token} ELSE {}),
                                      !.gone = @ \/ (Seen(r) /\ v \in {"Dead", "OtherUser"})]
          /\ listing' = IF Seen(r) /\ v = "Dead" /\ reader.kind = "client"
                        THEN [listing EXCEPT ![r] = NoDir] ELSE listing
    /\ UNCHANGED <<setting, root, app, holder, foreign>>

RootsNext ==
    \/ \E r \in {"temp", "legacy"} : \E d \in {Dir("other", "readable"), Link("other")} : ForeignRoot(r, d)
    \/ \E r \in Roots : ForeignEntry(r)
    \/ \E to \in {"nobody", "zombie", "ours", "other"} : PidPasses(to)
    \/ ChooseRoot \/ Ensure \/ RegisterFile \/ ShutDown
    \/ \E kind \in {"client", "bridge", "watchdog"} : StartScan(kind)
    \/ ScanRoot

RootsSpec == RootsInit /\ [][RootsNext]_rootVars

----------------------------------------------------------------------------
(* An app that is up is registered, token and port, wherever anything would have let it,  *)
(* even with its first root taken by another account.                                     *)
AppsRegister ==
    app.at = "up" /\ holder = "app" =>
        \/ listing[app.root] # NoDir /\ listing[app.root].port = "app" /\ listing[app.root].token = "app"
        \/ ~Unix /\ app.refused
        \/ app.refused /\ listing[app.root] # NoDir   \* something stands in its place
        \/ ~CanBeOurs(root[Primary]) /\ ~(setting.home /\ CanBeOurs(root["home"]))

(* A scan begun after that finds it, where the reader can tell whose the process is. *)
RegisteredIsFound ==
    reader.kind # NoDir /\ reader.left = <<>> /\ reader.registered /\ app.at = "up" /\ holder = "app" =>
        "app" \in reader.found \/ (reader.kind # "watchdog" /\ Verdicts # {"Own"})

(* Nothing another account has written is ever used: neither its port nor its token. *)
OnlyOwnIsUsed == "other" \notin reader.found

(* A running app is never taken for gone, whatever the check could or could not run: its *)
(* entry, which it writes once, stays (victauri-test process.rs and discovery.rs,        *)
(* victauri-watchdog main.rs).                                                           *)
LiveIsNotGone ==
    /\ reader.gone => holder # "app"
    /\ app.at = "up" /\ ~app.refused /\ holder = "app" => listing[app.root] # NoDir

(* Discovery by directory holds between any two accounts, writers and readers: what is   *)
(* registered is found, what another account wrote is not used, and what lives stays.    *)
EntriesAreOurs == AppsRegister /\ RegisteredIsFound /\ OnlyOwnIsUsed /\ LiveIsNotGone
============================================================================
