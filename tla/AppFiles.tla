------------------------------ MODULE AppFiles ------------------------------
(***************************************************************************)
(* The tools that read the application's own files: app_info and            *)
(* list_app_dir tell of them, query_db, db_health and read_app_file open    *)
(* them, by a path the agent was told, by one it made up, or, for a         *)
(* database, by choosing the one most likely the application's.  Files come *)
(* and go between the calls; directories and files may be reached through   *)
(* symbolic links.  A path is the sequence of its names.                    *)
(***************************************************************************)
EXTENDS Integers, Sequences, FiniteSets
LOCAL INSTANCE SequencesExt

CONSTANTS
  Names,        \* names of directories and files, as a sequence: the order of sorting
  AppDirs,      \* the application's directories: data, config, local, log
  Links,        \* choices of the symbolic links: path -> the path it leads to
  Slots,        \* where files may be, as paths without links
  EngineFiles,  \* those of them the web engine writes
  Searches,     \* choices of db_search_paths: sequences of [absolute, path]
  Anchors,      \* directories a relative search path may be meant from
  Subdirs,      \* relative directories list_app_dir is asked for
  Requests,     \* paths made up by the agent: [absolute, path]
  Contents,     \* of files: [head, size]; head is "sqlite", "empty" or "other"
  Depths,       \* values of max_depth
  MaxFiles, MaxEntries, MaxFileChanges  \* bounds

WEBVIEW_DB_BASENAMES == {"hsts"}
WEBVIEW_DIR_NAMES == {"webkit"}
WEBVIEW_ROOT_DIR_NAMES == {"databases"}
DatabaseNames == {"a.db", "b.db", "hsts"}

VARIABLES links, files, configured,
          forward,   \* directories list their entries in the order of Names, or backwards
          told,      \* what the last listing told of: [tool, base, path, at]
          selected,  \* the database app_info said query_db would choose
          opened,    \* what the last call opened
          changes    \* counter of the bound
fileSpecVars == <<links, files, configured, forward, told, selected, opened, changes>>

Nothing == <<>>   \* no file
NoCallYet == [how |-> "none", at |-> Nothing, gone |-> FALSE, result |-> Nothing]

(***************************************************************************)
(* The file system.  At most one link lies on a path.                       *)
(***************************************************************************)
Canon(p) ==
  LET at == {k \in 1..Len(p) : SubSeq(p, 1, k) \in DOMAIN links}
  IN IF at = {} THEN p
     ELSE LET k == CHOOSE k \in at : TRUE IN links[SubSeq(p, 1, k)] \o SubSeq(p, k + 1, Len(p))
IsFile(p) == Canon(p) \in DOMAIN files
IsDir(p) == \E f \in DOMAIN files : IsStrictPrefix(Canon(p), f)
Exists(p) == IsFile(p) \/ IsDir(p)
safe_within(base, p) == Exists(base) /\ Exists(p) /\ IsPrefix(Canon(base), Canon(p))

(***************************************************************************)
(* The entries below a directory, down to a depth: links are left out, and  *)
(* so is what lies elsewhere.                                               *)
(***************************************************************************)
Kept(base, p) == Exists(p) /\ p \notin DOMAIN links /\ safe_within(base, p)
Walk(dir, base, depth) ==
  LET level[k \in 0..(depth + 1)] ==
        IF k = 0 THEN {dir}
        ELSE {p \in {Append(q, n) : q \in level[k - 1], n \in Range(Names)} : Kept(base, p)}
  IN UNION {level[k] : k \in 1..(depth + 1)}

Rank(n) == CHOOSE k \in DOMAIN Names : Names[k] = n
Comes(p, q, ahead) ==
  \E k \in DOMAIN p \cap DOMAIN q :
     /\ SubSeq(p, 1, k - 1) = SubSeq(q, 1, k - 1) /\ p[k] # q[k]
     /\ (Rank(p[k]) < Rank(q[k])) <=> ahead

(***************************************************************************)
(* Relative search paths are tried from every anchor.                       *)
(***************************************************************************)
Sorted(S) ==
  SetToSortSeq(S, LAMBDA p, q : Comes(p, q, TRUE) \/ IsStrictPrefix(p, q))
resolve_db_search_paths(asked) ==
  Sorted(UNION {IF s.absolute THEN {IF Exists(s.path) THEN Canon(s.path) ELSE s.path}
                ELSE {Canon(a \o s.path) : a \in {b \in Anchors : IsDir(b \o s.path)}}
                : s \in Range(asked)})

Linked(p) == \E k \in DOMAIN p : SubSeq(p, 1, k) \in DOMAIN links

FilesInit ==
  /\ links \in Links /\ forward \in BOOLEAN
  /\ \E there \in SUBSET Slots :
       /\ Cardinality(there) <= MaxFiles
       /\ \A p \in there : ~Linked(p)
       /\ files \in [there -> Contents]
  /\ \E asked \in Searches : configured = resolve_db_search_paths(asked)
  /\ told = {} /\ selected = Nothing /\ opened = NoCallYet /\ changes = 0

-----------------------------------------------------------------------------
(***************************************************************************)
(* Candidates: files with a database's name that begin as one, each found   *)
(* from the first directory that leads to it, and whether they look like    *)
(* the engine's.  Names are judged below the directory searched.            *)
(***************************************************************************)
discover_databases(dir) == {p \in Walk(dir, dir, 2) : IsFile(p) /\ Last(p) \in DatabaseNames}
(* A mistaken judgement: every directory on the path counts. *)
JudgesTheWholePath(p, root) ==
  \/ Last(p) \in WEBVIEW_DB_BASENAMES
  \/ \E k \in 1..(Len(p) - 1) : p[k] \in WEBVIEW_DIR_NAMES
  \/ Len(p) > Len(root) + 1 /\ p[Len(root) + 1] \in WEBVIEW_ROOT_DIR_NAMES
is_webview_internal(p, root) ==
  \/ Last(p) \in WEBVIEW_DB_BASENAMES
  \/ \E k \in (Len(root) + 1)..(Len(p) - 1) : p[k] \in WEBVIEW_DIR_NAMES
  \/ Len(p) > Len(root) + 1 /\ p[Len(root) + 1] \in WEBVIEW_ROOT_DIR_NAMES
has_sqlite_header(p) == files[Canon(p)].head \in {"sqlite", "empty"}

classify_databases(dirs) ==
  UNION {{[path |-> p, dir |-> i, size |-> files[Canon(p)].size,
           internal |-> is_webview_internal(p, dirs[i])] :
            p \in {q \in discover_databases(dirs[i]) :
                     /\ has_sqlite_header(q)
                     /\ \A j \in 1..(i - 1) : \A r \in discover_databases(dirs[j]) :
                          Canon(r) # Canon(q)}} : i \in DOMAIN dirs}

Better(c, d) ==
  \/ c.size > d.size
  \/ c.size = d.size /\ c.dir < d.dir
  \/ c.size = d.size /\ c.dir = d.dir /\ Comes(c.path, d.path, forward)
select_app_database(dirs) ==
  LET apps == {c \in classify_databases(dirs) : ~c.internal}
  IN IF apps = {} THEN Nothing
     ELSE (CHOOSE c \in apps : \A d \in apps \ {c} : Better(c, d)).path

db_roots ==
  LET all == configured \o <<AppDirs.data, AppDirs.config, AppDirs.local, AppDirs.log>>
      first(i) == \A j \in 1..(i - 1) : all[j] # all[i]
      kept == {i \in DOMAIN all : first(i)}
  IN [k \in 1..Cardinality(kept) |->
        all[CHOOSE i \in kept : Cardinality({j \in kept : j <= i}) = k]]
ReportDirs == configured \o <<AppDirs.data, AppDirs.config, AppDirs.log, AppDirs.local>>
select_dirs(all) == IF configured = <<>> THEN all ELSE configured

app_info ==
  /\ told' = {[tool |-> "query_db", base |-> Nothing, path |-> c.path, at |-> Canon(c.path)] :
                          c \in classify_databases(ReportDirs)}
  /\ selected' = select_app_database(select_dirs(ReportDirs))
  /\ opened' = NoCallYet
  /\ UNCHANGED <<links, files, configured, forward, changes>>

(***************************************************************************)
(* Which file a path given to query_db or db_health names.                  *)
(***************************************************************************)
Climbs(path) == \E k \in DOMAIN path : path[k] = ".."
LexicallyInside(roots, path) ==
  \E r \in Range(roots) : IsPrefix(r, path) \/ (Exists(r) /\ IsPrefix(Canon(r), path))

resolve_existing_db_path(roots, asked) ==
  IF Climbs(asked.path) THEN Nothing
  ELSE IF asked.absolute
  THEN IF /\ LexicallyInside(roots, asked.path)
          /\ \E r \in Range(roots) : safe_within(r, asked.path)
       THEN Canon(asked.path) ELSE Nothing
  ELSE LET fits == {i \in DOMAIN roots : safe_within(roots[i], roots[i] \o asked.path)}
       IN IF fits = {} THEN Nothing
          ELSE Canon(roots[CHOOSE i \in fits : \A j \in fits : i <= j] \o asked.path)

Opens(how, at, p) ==
  opened' = [how |-> how, at |-> at, gone |-> at \notin DOMAIN files,
             result |-> IF p # Nothing /\ IsFile(p) THEN p ELSE Nothing]

QueryByPath ==
  /\ \/ \E t \in {u \in told : u.tool = "query_db"} :
          Opens("told", t.at, resolve_existing_db_path(db_roots, [absolute |-> TRUE, path |-> t.path]))
     \/ \E r \in Requests : Opens("made up", Nothing, resolve_existing_db_path(db_roots, r))
  /\ UNCHANGED <<links, files, configured, forward, told, selected, changes>>
QueryByChoice ==
  /\ LET p == select_app_database(select_dirs(db_roots))
     IN Opens("chosen", Nothing, IF p = Nothing THEN p ELSE Canon(p))
  /\ UNCHANGED <<links, files, configured, forward, told, selected, changes>>

(***************************************************************************)
(* Listing a directory and reading a file.  A path through a link that      *)
(* leads out is refused whether or not anything is there.                   *)
(***************************************************************************)
contained(base, target) ==
  LET there == {k \in 0..Len(target) : Exists(SubSeq(target, 1, k))}
      deepest == CHOOSE k \in there : \A j \in there : j <= k
  IN Exists(base) /\ there # {} /\ IsPrefix(Canon(base), Canon(SubSeq(target, 1, deepest)))

list_app_dir ==
  /\ \E d \in DOMAIN AppDirs, sub \in Subdirs, depth \in Depths :
       LET base == AppDirs[d]
           all == IF contained(base, base \o sub) THEN Walk(base \o sub, base, depth) ELSE {}
       IN \E some \in SUBSET all :
            /\ Cardinality(some) = MaxEntries \/ (some = all /\ Cardinality(all) <= MaxEntries)
            /\ told' = {[tool |-> "read_app_file", base |-> base, at |-> Canon(p),
                                   path |-> SubSeq(p, Len(base) + 1, Len(p))] :
                                    p \in {q \in some : IsFile(q)}}
  /\ selected' = Nothing /\ opened' = NoCallYet
  /\ UNCHANGED <<links, files, configured, forward, changes>>

ReadFile(base, path) ==
  IF ~Climbs(path) /\ contained(base, base \o path) /\ safe_within(base, base \o path)
  THEN Canon(base \o path) ELSE Nothing
read_app_file ==
  /\ \/ \E t \in {u \in told : u.tool = "read_app_file"} :
          Opens("told", t.at, ReadFile(t.base, t.path))
     \/ \E r \in Requests, d \in DOMAIN AppDirs :
          ~r.absolute /\ Opens("made up", Nothing, ReadFile(AppDirs[d], r.path))
  /\ UNCHANGED <<links, files, configured, forward, told, selected, changes>>

(***************************************************************************)
(* A file is removed or written anew.  Before a listing that only makes     *)
(* another initial state.                                                   *)
(***************************************************************************)
FileChanges ==
  /\ told # {} /\ changes < MaxFileChanges /\ changes' = changes + 1
  /\ \E p \in Slots :
       /\ ~Linked(p)
       /\ files' = IF p \in DOMAIN files
                   THEN [q \in DOMAIN files \ {p} |-> files[q]]
                   ELSE [q \in DOMAIN files \cup {p} |->
                           IF q = p THEN [head |-> "sqlite", size |-> 2] ELSE files[q]]
  /\ selected' = Nothing /\ opened' = NoCallYet
  /\ UNCHANGED <<links, configured, forward, told>>

(***************************************************************************)
(* A listing, changes, a call that opens.  A call that opens leaves all as  *)
(* it was, and a listing replaces what was told, so longer sequences reach  *)
(* nothing more.                                                            *)
(***************************************************************************)
FilesNext ==
  /\ opened = NoCallYet
  /\ \/ told = {} /\ (app_info \/ list_app_dir)
     \/ QueryByPath \/ QueryByChoice \/ read_app_file \/ FileChanges

-----------------------------------------------------------------------------
(***************************************************************************)
(* A file the agent was told of opens by the path it was told, whichever    *)
(* directory it was found from and however that is linked, as long as it is *)
(* there; and it is that file.                                              *)
(***************************************************************************)
ListedCanBeOpened ==
  opened.how = "told" => opened.result = IF opened.gone THEN Nothing ELSE opened.at

(***************************************************************************)
(* Nothing outside the directories of the application and those registered  *)
(* is opened, however the path is written.                                  *)
(***************************************************************************)
OpenedIsInside ==
  opened.result # Nothing =>
    \E r \in Range(db_roots) : IsPrefix(Canon(r), opened.result)

(***************************************************************************)
(* The database chosen is the application's and its largest, whatever the   *)
(* web engine keeps next to it; none is chosen only when there is none, and *)
(* registered directories are the only ones searched.                       *)
(***************************************************************************)
Ours(p) ==
  /\ files[p].head # "other" /\ Last(p) \in DatabaseNames
  /\ p \notin EngineFiles \/ Front(p) \in Range(configured)
  /\ \E r \in Range(select_dirs(db_roots)) :
       IsStrictPrefix(Canon(r), p) /\ Len(p) - Len(Canon(r)) <= 3
ChosenIsTheApps ==
  opened.how = "chosen" =>
    IF opened.result = Nothing THEN ~\E p \in DOMAIN files : Ours(p)
    ELSE Ours(opened.result) /\ \A p \in DOMAIN files : Ours(p) => files[p].size <= files[opened.result].size

FilesAreTheApps == ListedCanBeOpened /\ OpenedIsInside /\ ChosenIsTheApps

=============================================================================
