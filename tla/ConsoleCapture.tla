--------------------------- MODULE ConsoleCapture ---------------------------
(***************************************************************************)
(* The console capture of `victauri run`: the launcher appends what the    *)
(* application prints to <name>.jsonl, renames a full file to .jsonl.1 and *)
(* starts a new one, and ends with a record of how the application ended.  *)
(* A reader (the plugin's `logs {action:"stdout"}`, or `victauri logs      *)
(* --follow`) opens the two names one after the other while that goes on,  *)
(* and reads on from a cursor that names the file as well as the place.    *)
(***************************************************************************)
EXTENDS Naturals, Sequences, FiniteSets

CONSTANTS NoFile,      \* a name without a file, a cursor without a tag
          FileCapacity,    \* records a file holds (MAX_CAPTURE_BYTES)
          Window,      \* records one read takes (CONSOLE_READ_WINDOW, MAX_READ)
          AnswerLimit,       \* lines one answer of the plugin holds
          ReaderKinds,       \* readers to explore: "plugin", "cli"
          MaxRecords,  \* bound: records the launcher writes
          MaxFiles,    \* bound: files it starts
          MaxFaults    \* bound: renames and opens that fail

(* A client that follows asks for a page of lines, and a read takes some.  *)
ASSUME ConsoleAssumption ==
    /\ Window \in Nat \ {0} /\ AnswerLimit \in Nat \ {0} /\ MaxFiles \in Nat \ {0}
    /\ NoFile \notin Nat \ {0} /\ ReaderKinds \subseteq {"plugin", "cli"}

VARIABLES
    disk,       \* path, old: the files the names <name>.jsonl and .jsonl.1 have
    content,    \* per file, the records in it; numbered in the order written
    file,       \* the file the launcher has open
    writer,   \* state, pc, what it is about to write; stopped; faults so far
    exitRecord, \* the number of the exit record, 0 before it
    reader      \* the reader and, for the properties, what it got

consoleVars == <<disk, content, file, writer, exitRecord, reader>>

Files == 1..MaxFiles
Started == {f \in Files : content[f] # <<>>}
Captured == UNION {{f} \X DOMAIN content[f] : f \in Files}
Written == Cardinality(Captured)

ConsoleInit ==
    /\ disk = [path |-> 1, old |-> NoFile]
    /\ content = [f \in Files |-> <<>>]
    /\ file = 1
    /\ writer = [state |-> "running", pc |-> "idle", exit |-> FALSE,
                 stopped |-> FALSE, faults |-> 0, last |-> 1]
    /\ exitRecord = 0
    /\ \E kind \in ReaderKinds :
         reader = [kind |-> kind, pc |-> "new", tag |-> NoFile, offset |-> 0,
                   cur |-> NoFile, curTag |-> NoFile, old |-> NoFile, oldTag |-> NoFile,
                   dead |-> FALSE, ended |-> "no",
                   after |-> 0, got |-> <<>>, excused |-> {}, blind |-> FALSE]
-----------------------------------------------------------------------------
(* The launcher.  The two pumps and the exit record share one lock. *)

Put(f) == content' = [content EXCEPT ![f] = Append(@, Written + 1)]

(* feed, record, record_exit: a line once capturing has stopped is dropped. *)
WriteRecord(exit) ==
    /\ writer.state = "running" /\ writer.pc = "idle"
    /\ Written < MaxRecords
    /\ exit \/ ~writer.stopped
    /\ writer' = [writer EXCEPT !.exit = exit,
                    !.pc = IF Len(content[file]) + 1 > FileCapacity THEN "remove" ELSE "write"]
    /\ UNCHANGED <<disk, content, file, exitRecord, reader>>

(* rotate: the previous rotated file goes first. *)
RemoveCapture ==
    /\ writer.state = "running" /\ writer.pc = "remove"
    /\ disk' = [disk EXCEPT !.old = NoFile]
    /\ writer' = [writer EXCEPT !.pc = "rename"]
    /\ UNCHANGED <<content, file, exitRecord, reader>>

(* The path is renamed to .jsonl.1, or else to a timestamped name no reader
   looks at; a rename that fails twice ends the rotation.                  *)
Rename ==
    /\ writer.state = "running" /\ writer.pc = "rename"
    /\ \/ /\ disk.path # NoFile
          /\ \/ /\ disk' = [path |-> NoFile, old |-> disk.path]
                /\ writer' = [writer EXCEPT !.pc = "open"]
             \/ /\ writer.faults < MaxFaults
                /\ disk' = [disk EXCEPT !.path = NoFile]
                /\ writer' = [writer EXCEPT !.pc = "open", !.faults = @ + 1]
          /\ reader' = [reader EXCEPT !.blind = @ \/ (reader.pc # "new" /\ reader.tag = NoFile)]
       \/ /\ disk.path = NoFile
          /\ writer' = [writer EXCEPT !.pc = "refused"]
          /\ UNCHANGED <<disk, reader>>
       \/ /\ writer.faults < MaxFaults
          /\ writer' = [writer EXCEPT !.pc = "refused", !.faults = @ + 1]
          /\ UNCHANGED <<disk, reader>>
    /\ UNCHANGED <<content, file, exitRecord>>

(* open_private of the new file; when it fails the old handle stays. *)
Open ==
    /\ writer.state = "running" /\ writer.pc = "open"
    /\ \/ /\ writer.last < MaxFiles
          /\ file' = writer.last + 1
          /\ disk' = [disk EXCEPT !.path = writer.last + 1]
          /\ writer' = [writer EXCEPT !.pc = "write", !.last = @ + 1]
       \/ /\ writer.faults < MaxFaults
          /\ writer' = [writer EXCEPT !.pc = "refused", !.faults = @ + 1]
          /\ UNCHANGED <<file, disk>>
    /\ UNCHANGED <<content, exitRecord, reader>>

(* Could not rotate: a note that capturing stops takes the line's place; the
   exit record still goes in.                                              *)
Refused ==
    /\ writer.state = "running" /\ writer.pc = "refused"
    /\ Put(file)
    /\ writer' = [writer EXCEPT !.pc = "idle", !.stopped = @ \/ ~writer.exit,
                    !.state = IF writer.exit THEN "done" ELSE @]
    /\ exitRecord' = IF writer.exit THEN Written + 1 ELSE exitRecord
    /\ UNCHANGED <<disk, file, reader>>

Write ==
    /\ writer.state = "running" /\ writer.pc = "write"
    /\ Put(file)
    /\ writer' = [writer EXCEPT !.pc = "idle",
                    !.state = IF writer.exit THEN "done" ELSE @]
    /\ exitRecord' = IF writer.exit THEN Written + 1 ELSE exitRecord
    /\ UNCHANGED <<disk, file, reader>>

(* SIGKILL, between any two steps. *)
Killed ==
    /\ writer.state = "running"
    /\ writer' = [writer EXCEPT !.state = "killed"]
    /\ UNCHANGED <<disk, content, file, exitRecord, reader>>

WriterStep == RemoveCapture \/ Rename \/ Open \/ Refused \/ Write \/ \E exit \in BOOLEAN : WriteRecord(exit)
-----------------------------------------------------------------------------
(* Reading one open file. *)

(* file_tag: its first record names a file. *)
Tag(f) == IF f \in Started THEN f ELSE NoFile

(* read_open_capture: from an offset, at most a window; an offset past the end
   starts over.                                                            *)
ReadOpen(f, offset) ==
    LET len == Len(content[f])
        start == IF offset > len THEN 0 ELSE offset
        end == IF len < start + Window THEN len ELSE start + Window
    IN  [lines |-> SubSeq(content[f], start + 1, end), next |-> end, more |-> end < len]

(* page_console_lines: the plugin's cursor read stops at the first line that
   does not fit the answer.                                                *)
PluginPage(read) ==
    LET all == Len(read.lines)
        n == IF all > AnswerLimit THEN AnswerLimit ELSE all
    IN  [lines |-> SubSeq(read.lines, 1, n), next |-> read.next - (all - n),
         more |-> read.more \/ n < all]

(* The CLI has its own read_open_capture, and prints all it read. *)
CliPage(f, offset) == ReadOpen(f, offset)

Page(f, offset) ==
    IF reader.kind = "plugin" THEN PluginPage(ReadOpen(f, offset)) ELSE CliPage(f, offset)

(* Mutant: a launcher that writes nothing passes for dead. *)
Silent == writer.pc = "idle"

(* process_is_dead, dead_launcher. *)
Dead == writer.state # "running"
Has(n) == \E k \in DOMAIN reader.got : reader.got[k] = n
HasExit(f) == \E k \in DOMAIN content[f] : content[f][k] = exitRecord

(* follow_stdout_via_app: the plugin's client reads on while there is more. *)
PluginThen(more) == IF more THEN "idle" ELSE "quiet"

(* follow_capture reads at its interval, and looks for the launcher only when it
   read nothing; the read after that is its last.                          *)
CliThen(lines) ==
    IF reader.dead THEN "last" ELSE IF lines = <<>> THEN "quiet" ELSE "idle"

Then(lines, more) == IF reader.kind = "plugin" THEN PluginThen(more) ELSE CliThen(lines)

(* What a read does to the cursor, and what the reader now has. *)
DeliverLines(tag, page, more) ==
    reader' = [reader EXCEPT
        !.pc = Then(page.lines, more \/ page.more),
        !.tag = tag, !.offset = page.next, !.got = @ \o page.lines,
        !.cur = NoFile, !.curTag = NoFile, !.old = NoFile, !.oldTag = NoFile]
-----------------------------------------------------------------------------
(* The reader. *)

(* The first read, the newest records: its cursor is the end of the file. *)
FirstRead ==
    /\ reader.pc = "new"
    /\ disk.path # NoFile
    /\ reader' = [reader EXCEPT !.pc = "idle", !.tag = Tag(disk.path),
                    !.offset = Len(content[disk.path]), !.after = Written]
    /\ UNCHANGED <<disk, content, file, writer, exitRecord>>

(* open_capture_head: so do its first bytes. *)
FileHead(f) == Tag(f)

(* The path is opened first, and asked for its tag. *)
OpenPath ==
    /\ reader.pc = "idle"
    /\ reader' = [reader EXCEPT !.pc = "opened", !.cur = disk.path,
                    !.curTag = IF reader.kind = "cli" THEN FileHead(disk.path) ELSE Tag(disk.path)]
    /\ UNCHANGED <<disk, content, file, writer, exitRecord>>

(* Mutant: a length check, which a new file grown past the cursor passes. *)
LongEnough ==
    reader.tag = NoFile \/ (reader.cur # NoFile /\ reader.offset <= Len(content[reader.cur]))

SameFile == reader.tag = NoFile \/ reader.curTag = reader.tag

(* Still the cursor's file (or a cursor without a tag, which fits any). *)
ReadSame ==
    LET page == Page(reader.cur, reader.offset) IN
    /\ reader.pc = "opened"
    /\ reader.cur # NoFile /\ SameFile
    /\ DeliverLines(IF reader.kind = "cli" /\ reader.tag = NoFile THEN reader.curTag
                    ELSE IF page.next = 0 THEN NoFile ELSE Tag(reader.cur), page, FALSE)
    /\ UNCHANGED <<disk, content, file, writer, exitRecord>>

(* No file under the name for an instant: the CLI reads nothing, a bare cursor
   of the plugin is an error the client may repeat.                        *)
PathMissing ==
    /\ reader.pc = "opened"
    /\ reader.cur = NoFile /\ (reader.kind = "cli" \/ reader.tag = NoFile)
    /\ reader' = [reader EXCEPT !.pc = IF reader.kind = "cli" THEN Then(<<>>, FALSE) ELSE "idle"]
    /\ UNCHANGED <<disk, content, file, writer, exitRecord>>

OpenRotated ==
    /\ reader.pc = "opened"
    /\ ~SameFile
    /\ reader.kind = "plugin" \/ reader.cur # NoFile
    /\ reader' = [reader EXCEPT !.pc = "both", !.old = disk.old, !.oldTag = Tag(disk.old)]
    /\ UNCHANGED <<disk, content, file, writer, exitRecord>>

(* The tail of the cursor's own file comes first. *)
ReadRotated ==
    LET page == Page(reader.old, reader.offset) IN
    /\ reader.pc = "both"
    /\ reader.oldTag = reader.tag
    /\ ReadOpen(reader.old, reader.offset).next # reader.offset
    /\ DeliverLines(reader.tag, page, reader.kind = "plugin")
    /\ UNCHANGED <<disk, content, file, writer, exitRecord>>

(* The tag of the new file: the plugin asks again, the CLI has its head from
   when it opened it.                                                      *)
NewTag == IF reader.kind = "plugin" THEN Tag(reader.cur) ELSE reader.curTag

Exhausted == reader.oldTag = reader.tag /\ ReadOpen(reader.old, reader.offset).next = reader.offset

(* Drained, or gone, and the new file has no record yet: wait with the cursor
   of the old file, where the next rotation still shows.                   *)
WaitForNew ==
    /\ reader.pc = "both"
    /\ Exhausted \/ reader.oldTag # reader.tag
    /\ NewTag = NoFile
    /\ reader' = [reader EXCEPT !.pc = Then(<<>>, FALSE), !.cur = NoFile, !.curTag = NoFile,
                    !.old = NoFile, !.oldTag = NoFile]
    /\ UNCHANGED <<disk, content, file, writer, exitRecord>>

(* The new file from its start; a cursor whose file neither name has is lost,
   and the answer says so ("gap").                                         *)
ReadNew ==
    LET page == Page(reader.cur, 0)
        lost == reader.oldTag # reader.tag
    IN
    /\ reader.pc = "both"
    /\ Exhausted \/ lost
    /\ NewTag # NoFile
    /\ reader' = [reader EXCEPT
         !.pc = Then(page.lines, page.more),
         !.tag = NewTag, !.offset = page.next, !.got = @ \o page.lines,
         !.excused = IF lost THEN 1..(content[reader.cur][1] - 1) ELSE @,
         !.cur = NoFile, !.curTag = NoFile, !.old = NoFile, !.oldTag = NoFile]
    /\ UNCHANGED <<disk, content, file, writer, exitRecord>>

(* Nothing more to read for now: read again later (of a --capture file the
   plugin has no launcher to ask for, and the CLI asks every two seconds).   *)
Poll ==
    /\ reader.pc = "quiet"
    /\ reader' = [reader EXCEPT !.pc = "idle"]
    /\ UNCHANGED <<disk, content, file, writer, exitRecord>>

(* launcher_gone asks for the process after the read, then looks for the exit
   record; a capture that cannot be opened says nothing.                   *)
PluginAsksForLauncher ==
    /\ reader.kind = "plugin" /\ reader.pc = "quiet"
    /\ Dead
    /\ reader' = [reader EXCEPT !.pc = "last"]
    /\ UNCHANGED <<disk, content, file, writer, exitRecord>>

(* The answer says that the launcher was killed, and following ends. *)
LauncherGone ==
    /\ reader.kind = "plugin" /\ reader.pc = "last"
    /\ reader' = IF disk.path # NoFile /\ ~HasExit(disk.path)
                 THEN [reader EXCEPT !.pc = "end", !.ended = "killed"]
                 ELSE [reader EXCEPT !.pc = "idle"]
    /\ UNCHANGED <<disk, content, file, writer, exitRecord>>

(* dead_launcher is asked of a file that exists; then the last read. *)
CliAsksForLauncher ==
    /\ reader.kind = "cli" /\ reader.pc = "quiet"
    /\ Dead /\ disk.path # NoFile
    /\ reader' = [reader EXCEPT !.dead = TRUE, !.pc = "idle"]
    /\ UNCHANGED <<disk, content, file, writer, exitRecord>>

(* unknown_exit: said unless the exit record was just read or is in the file. *)
UnknownExit ==
    /\ reader.kind = "cli" /\ reader.pc = "last"
    /\ reader' = [reader EXCEPT !.pc = "end",
         !.ended = IF Has(exitRecord) \/ HasExit(disk.path) THEN "exit" ELSE "killed"]
    /\ UNCHANGED <<disk, content, file, writer, exitRecord>>

Reader ==
    \/ FirstRead \/ OpenPath \/ ReadSame \/ PathMissing \/ OpenRotated
    \/ ReadRotated \/ WaitForNew \/ ReadNew
    \/ Poll \/ PluginAsksForLauncher \/ LauncherGone \/ CliAsksForLauncher \/ UnknownExit
-----------------------------------------------------------------------------
ConsoleNext == WriterStep \/ Killed \/ Reader

ConsoleSpec == ConsoleInit /\ [][ConsoleNext]_consoleVars
-----------------------------------------------------------------------------
Told(n) == Has(n) \/ n \in reader.excused

(* A reader that goes on from the cursor it was given gets every record of the
   capture once and in order, or is told that lines are gone, whatever renames
   happen between its two opens and whatever the window and the limit cut off.
   Excepted is a rotation behind a cursor taken before the first record, which
   has no file to name.                                                    *)
FollowedWithoutGaps ==
    LET n == Len(reader.got) IN
    /\ \A k \in 1..(n - 1) : reader.got[k] < reader.got[k + 1]
    /\ n > 0 /\ ~reader.blind => \A m \in (reader.after + 1)..reader.got[n] : Told(m)

(* "exit unknown" and launcher_gone are said only of a launcher that was killed
   before it could write how the application ended.                        *)
UnknownExitIsTrue == reader.ended = "killed" => writer.state = "killed" /\ exitRecord = 0

(* The capture can be followed across rotations, renames that fail and the
   launcher's death: no gap goes untold and no exit is called unknown that is
   not.                                                                    *)
CaptureIsFollowed == FollowedWithoutGaps /\ UnknownExitIsTrue
=============================================================================
