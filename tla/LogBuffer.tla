----------------------------- MODULE LogBuffer -----------------------------
(***************************************************************************)
(* The backend log: application threads and the panic hook push entries    *)
(* into one bounded ring and wake the waiters; agents wait for a matching  *)
(* entry, page through the ring by cursor, and symbolise the backtraces of *)
(* captured panics.  The ring's lock is a std mutex, so a thread that logs *)
(* while it holds it, from a panic hook, would wait for itself.            *)
(***************************************************************************)
EXTENDS Naturals, Sequences, FiniteSets

CONSTANTS Threads,        \* threads of the application
          Waiters,        \* wait_for {condition: "log"} calls
          NoThread,       \* nobody holds the ring
          NoCursor,       \* a read without since_seq
          RingCapacity,       \* entries the ring keeps
          PageLimit,          \* entries of a page
          MaxBacktraces,  \* MAX_PANIC_BACKTRACES
          MaxLogs         \* bound: log calls and panics

ASSUME LogAssumption ==
    /\ RingCapacity \in Nat \ {0} /\ PageLimit \in Nat \ {0}
    /\ MaxBacktraces \in Nat /\ MaxLogs \in Nat
    /\ NoThread \notin Threads

VARIABLES
    ring,      \* entries, next_seq
    holder,    \* who holds the ring's lock
    thread,    \* what each application thread is doing
    logs,      \* log calls and panics so far
    taken,     \* BACKTRACES_TAKEN
    backtraces,   \* pending_backtraces: the ids, and which are resolved
    symbolising,   \* a reader holds std's backtrace lock
    redacting,     \* whether the privacy profile redacts
    client,    \* the agent of this behaviour waits, or pages: neither changes the
               \* ring, so what one sees does not depend on the other
    waiter,    \* the wait_for calls
    pager,    \* a client that pages with since_seq = the next_seq it was given
              \* (seen: the entries its reads went through, history)
    checked    \* per waiter: entries its predicate has seen (history)

logVars == <<ring, holder, thread, logs, taken, backtraces, symbolising, redacting,
             client, waiter, pager, checked>>

(* What an entry is to the filters in use: it matches ("hit"), it matches only
   before redaction ("secret"), or not at all; a panic never matches.  An
   "internal" record (victauri, rmcp, tokio, below the level) is not captured. *)
Records == {"hit", "secret", "noise", "internal"}
ThreadIdle == [pc |-> "idle"]
NotWaiting == [pc |-> "none"]

LogInit ==
    /\ ring = [entries |-> <<>>, next |-> 0]
    /\ holder = NoThread
    /\ thread = [t \in Threads |-> ThreadIdle]
    /\ logs = 0
    /\ taken = 0
    /\ backtraces = [ids |-> {}, resolved |-> {}]
    /\ symbolising = FALSE
    /\ redacting \in BOOLEAN
    /\ client \in {"waits", "pages"}
    /\ waiter = [w \in Waiters |-> NotWaiting]
    /\ pager = [cursor |-> NoCursor, start |-> 0, got |-> {}, seen |-> {}, gap |-> FALSE]
    /\ checked = [w \in Waiters |-> {}]
-----------------------------------------------------------------------------
(* The ring, under its lock. *)

Oldest == IF ring.entries = <<>> THEN ring.next ELSE ring.entries[1].seq

(* index_of: sequence numbers in the ring are contiguous. *)
From(seq) == SelectSeq(ring.entries, LAMBDA e : e.seq >= seq)

EvictedSince(from) == IF Oldest > from THEN Oldest - from ELSE 0

PushLocked(e) ==
    LET all == Append(ring.entries, [e EXCEPT !.seq = ring.next])
    IN  ring' = [entries |-> IF Len(all) > RingCapacity THEN Tail(all) ELSE all,
                 next |-> ring.next + 1]

Entry(kind, trace) == [seq |-> 0, kind |-> kind, trace |-> trace]
-----------------------------------------------------------------------------
(* Application threads. *)

Emit(t, kind) ==
    /\ thread[t] = ThreadIdle
    /\ logs < MaxLogs
    /\ IF kind = "internal"
       THEN UNCHANGED <<logs, thread>>
       ELSE /\ logs' = logs + 1
            /\ thread' = [thread EXCEPT ![t] = [pc |-> "lock", entry |-> Entry(kind, {})]]
    /\ UNCHANGED <<ring, holder, taken, backtraces, symbolising, redacting, client, waiter, pager, checked>>

(* Records of the infrastructure and below the capture level return at once,
   whether they come as tracing events or through the log facade.          *)
OnEvent(t, kind) == Emit(t, kind)
LogRecord(t, kind) == Emit(t, kind)

(* The panic hook: no backtrace is captured while a reader symbolises one. *)
Panic(t) ==
    /\ thread[t] = ThreadIdle
    /\ logs < MaxLogs
    /\ logs' = logs + 1
    /\ IF symbolising
       THEN /\ thread' = [thread EXCEPT ![t] = [pc |-> "lock", entry |-> Entry("panic", {})]]
            /\ UNCHANGED taken
       ELSE /\ thread' = [thread EXCEPT ![t] =
                            IF taken < MaxBacktraces
                            THEN [pc |-> "backtrace", id |-> taken]
                            ELSE [pc |-> "lock", entry |-> Entry("panic", {})]]
            /\ taken' = taken + 1
    /\ UNCHANGED <<ring, holder, backtraces, symbolising, redacting, client, waiter, pager, checked>>

(* force_capture waits for std's lock; a contended map leaves the entry
   without its id.                                                         *)
TakeBacktrace(t) ==
    /\ thread[t].pc = "backtrace"
    /\ ~symbolising
    /\ \/ /\ backtraces' = [backtraces EXCEPT !.ids = @ \cup {thread[t].id}]
          /\ thread' = [thread EXCEPT ![t] = [pc |-> "lock", entry |-> Entry("panic", {@.id})]]
       \/ /\ UNCHANGED backtraces
          /\ thread' = [thread EXCEPT ![t] = [pc |-> "lock", entry |-> Entry("panic", {})]]
    /\ UNCHANGED <<ring, holder, logs, taken, symbolising, redacting, client, waiter, pager, checked>>

(* push, try_push: dropped on a thread that holds the ring already (its guard
   then goes with the unwinding), otherwise it waits for the lock.         *)
Acquire(t) ==
    /\ thread[t].pc = "lock"
    /\ \/ /\ holder = t
          /\ holder' = NoThread
          /\ thread' = [thread EXCEPT ![t] = ThreadIdle]
       \/ /\ holder = NoThread
          /\ holder' = t
          /\ thread' = [thread EXCEPT ![t].pc = "holding"]
    /\ UNCHANGED <<ring, logs, taken, backtraces, symbolising, redacting, client, waiter, pager, checked>>

PushEntry(t) ==
    /\ thread[t].pc = "holding"
    /\ PushLocked(thread[t].entry)
    /\ holder' = NoThread
    /\ thread' = [thread EXCEPT ![t] = [pc |-> "pushed"]]
    /\ UNCHANGED <<logs, taken, backtraces, symbolising, redacting, client, waiter, pager, checked>>

(* A panic under the lock runs the hooks on the thread that holds it. *)
PanicHolding(t) ==
    /\ thread[t].pc = "holding"
    /\ logs < MaxLogs
    /\ logs' = logs + 1
    /\ thread' = [thread EXCEPT ![t] = [pc |-> "lock", entry |-> Entry("panic", {})]]
    /\ UNCHANGED <<ring, holder, taken, backtraces, symbolising, redacting, client, waiter, pager, checked>>

(* Mutant: interest is registered only when the waiter goes to sleep. *)
RegisteredLate(w) == waiter[w].pc = "asleep"

(* Notified::enable comes before the scan. *)
Registered(w) == waiter[w].pc \in {"registered", "scanned", "asleep"}

(* wake_waiters: notify_waiters reaches who has registered by now. *)
Wake(t) ==
    /\ thread[t].pc = "pushed"
    /\ thread' = [thread EXCEPT ![t] = ThreadIdle]
    /\ waiter' = [w \in Waiters |-> IF Registered(w) THEN [waiter[w] EXCEPT !.notified = TRUE]
                                                     ELSE waiter[w]]
    /\ UNCHANGED <<ring, holder, logs, taken, backtraces, symbolising, redacting, client, pager, checked>>

Thread(t) == TakeBacktrace(t) \/ Acquire(t) \/ PushEntry(t) \/ Wake(t)
-----------------------------------------------------------------------------
(* Waiting for an entry. *)

FilterMatches(e) == e.kind = "hit" \/ (e.kind = "secret" /\ ~redacting)

(* wait_for_log: an explicit cursor, "from now on", or what was captured in
   the last seconds.                                                       *)
StartWait(w) ==
    /\ waiter[w] = NotWaiting
    /\ client = "waits"
    /\ \E from \in 0..ring.next :
         waiter' = [waiter EXCEPT ![w] =
            [pc |-> "start", from |-> from, scanned |-> from, missed |-> 0,
             notified |-> FALSE, found |-> FALSE]]
    /\ UNCHANGED <<ring, holder, thread, logs, taken, backtraces, symbolising, redacting, client, pager, checked>>

Register(w) ==
    /\ waiter[w].pc = "start"
    /\ waiter' = [waiter EXCEPT ![w].pc = "registered", ![w].notified = FALSE]
    /\ UNCHANGED <<ring, holder, thread, logs, taken, backtraces, symbolising, redacting, client, pager, checked>>

(* What was not checked yet is copied under the lock, what is gone counted. *)
Scan(w) ==
    LET fresh == From(waiter[w].scanned)
        hits == {k \in DOMAIN fresh : FilterMatches(fresh[k])}
    IN
    /\ waiter[w].pc = "registered"
    /\ holder = NoThread
    /\ waiter' = [waiter EXCEPT
         ![w].missed = @ + EvictedSince(waiter[w].scanned),
         ![w].scanned = IF ring.next > @ THEN ring.next ELSE @,
         ![w].found = hits # {},
         ![w].pc = "scanned"]
    /\ checked' = [checked EXCEPT ![w] = @ \cup {fresh[k].seq : k \in DOMAIN fresh}]
    /\ UNCHANGED <<ring, holder, thread, logs, taken, backtraces, symbolising, redacting, client, pager>>

(* The predicate runs on the copy, with the ring unlocked. *)
Sleep(w) ==
    /\ waiter[w].pc = "scanned"
    /\ waiter' = [waiter EXCEPT ![w].pc = IF waiter[w].found THEN "done" ELSE "asleep"]
    /\ UNCHANGED <<ring, holder, thread, logs, taken, backtraces, symbolising, redacting, client, pager, checked>>

Woken(w) ==
    /\ waiter[w].pc = "asleep"
    /\ waiter[w].notified
    /\ waiter' = [waiter EXCEPT ![w].pc = "start"]
    /\ UNCHANGED <<ring, holder, thread, logs, taken, backtraces, symbolising, redacting, client, pager, checked>>

(* timeout_at looks at the notification first. *)
Timeout(w) ==
    /\ waiter[w].pc = "asleep"
    /\ ~waiter[w].notified
    /\ waiter' = [waiter EXCEPT ![w].pc = "done"]
    /\ UNCHANGED <<ring, holder, thread, logs, taken, backtraces, symbolising, redacting, client, pager, checked>>

Waiter(w) == Register(w) \/ Scan(w) \/ Sleep(w) \/ Woken(w)
-----------------------------------------------------------------------------
(* Reading by cursor. *)

OldestPage(s) == SubSeq(s, 1, IF Len(s) < PageLimit THEN Len(s) ELSE PageLimit)
NewestPage(s) == SubSeq(s, IF Len(s) > PageLimit THEN Len(s) - PageLimit + 1 ELSE 1, Len(s))

(* page_next_seq of a cursor read (Limit > 0, so a cut page is not empty). *)
PageNextSeq(truncated, page) ==
    IF truncated THEN page[Len(page)].seq + 1 ELSE ring.next

(* logs_backend, by query or, under a redacting profile, query_visible: a cursor read keeps the
   oldest matches and goes on after them, a plain read keeps the newest.   *)
Query ==
    /\ client = "pages"
    /\ holder = NoThread
    /\ IF pager.cursor = NoCursor
       THEN pager' = [cursor |-> ring.next, start |-> ring.next, gap |-> FALSE, seen |-> {},
                      got |-> LET s == NewestPage(SelectSeq(ring.entries, FilterMatches))
                              IN  {s[k].seq : k \in DOMAIN s}]
       ELSE LET matched == SelectSeq(From(pager.cursor), FilterMatches)
                page == OldestPage(matched)
                truncated == Len(matched) > PageLimit
            IN  pager' = [pager EXCEPT
                    !.cursor = PageNextSeq(truncated, page),
                    !.got = @ \cup {page[k].seq : k \in DOMAIN page},
                    !.seen = @ \cup {From(pager.cursor)[k].seq : k \in DOMAIN From(pager.cursor)},
                    !.gap = @ \/ EvictedSince(pager.cursor) > 0]
    /\ UNCHANGED <<ring, holder, thread, logs, taken, backtraces, symbolising, redacting, client, waiter, checked>>

(* resolve_backtraces: std's lock is held for as long as it takes; a backtrace
   that is resolved is not symbolised again.                               *)
Symbolise ==
    /\ ~symbolising
    /\ \E id \in backtraces.ids \ backtraces.resolved :
         /\ \E k \in DOMAIN ring.entries : id \in ring.entries[k].trace
         /\ backtraces' = [backtraces EXCEPT !.resolved = @ \cup {id}]
    /\ symbolising' = TRUE
    /\ UNCHANGED <<ring, holder, thread, logs, taken, redacting, client, waiter, pager, checked>>

Symbolised ==
    /\ symbolising
    /\ symbolising' = FALSE
    /\ UNCHANGED <<ring, holder, thread, logs, taken, backtraces, redacting, client, waiter, pager, checked>>
-----------------------------------------------------------------------------
LogNext ==
    \/ \E t \in Threads : Panic(t) \/ PanicHolding(t) \/ Thread(t)
    \/ \E t \in Threads, kind \in Records : OnEvent(t, kind) \/ LogRecord(t, kind)
    \/ \E w \in Waiters : StartWait(w) \/ Waiter(w) \/ Timeout(w)
    \/ Query \/ Symbolise \/ Symbolised

(* Threads are scheduled, tasks polled, and a symbolisation ends; nothing
   obliges a deadline to pass.                                             *)
LogFairness ==
    /\ \A t \in Threads : WF_logVars(Thread(t))
    /\ \A w \in Waiters : WF_logVars(Waiter(w))
    /\ WF_logVars(Symbolised)

LogSpec == LogInit /\ [][LogNext]_logVars /\ LogFairness
-----------------------------------------------------------------------------
(* "(no lost wake-up)": a waiter sleeps past an entry it has not checked only
   while the thread that pushed it, or a later one, is about to wake it.    *)
SleepersAreWoken ==
    \A w \in Waiters :
        waiter[w].pc = "asleep" /\ ring.next > waiter[w].scanned =>
            waiter[w].notified \/ \E t \in Threads : thread[t].pc = "pushed"

(* A wait that gives up has checked every entry since its cursor, except for
   exactly the number it reports as evicted unseen.                        *)
MissedIsExact ==
    \A w \in Waiters :
        waiter[w].pc \in {"asleep", "done"} =>
            waiter[w].missed =
                Cardinality((waiter[w].from..(waiter[w].scanned - 1)) \ checked[w])

(* A client that reads on from the next_seq it was given gets every matching
   entry that is still in the ring, in spite of the limit, and is told of a
   gap if any entry was evicted before it came to it; a redacting profile
   never lets a hidden match show.                                         *)
PagesAreComplete ==
    /\ \A k \in DOMAIN ring.entries :
         LET e == ring.entries[k] IN
         /\ pager.cursor # NoCursor /\ e.seq \in pager.start..(pager.cursor - 1) /\ FilterMatches(e)
              => e.seq \in pager.got
         /\ redacting /\ e.kind = "secret" => e.seq \notin pager.got
    /\ pager.cursor # NoCursor /\ ~((pager.start..(pager.cursor - 1)) \subseteq pager.seen)
         => pager.gap

(* The ring can be followed: a sleeper is woken for what it has not seen, what
   was missed is told exactly, and pages leave no match out.                *)
LogIsFollowed == SleepersAreWoken /\ MissedIsExact /\ PagesAreComplete

(* No thread of the application hangs in a log call or in the panic hook: not
   when it panics with the ring locked, not when an agent symbolises.       *)
LoggersReturn ==
    \A t \in Threads : []<>(thread[t] = ThreadIdle)
=============================================================================
