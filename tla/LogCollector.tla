---------------------------- MODULE LogCollector ----------------------------
(***************************************************************************)
(* The copy of the machine's logs into the database, once a minute:        *)
(* collectServerLogs in internal/web/events.go, with the cursors and the   *)
(* events of internal/store/server_events.go.                              *)
(*                                                                         *)
(* Meanwhile programs append to the files, logrotate renames them, and     *)
(* somebody empties one.  A line is a number, whole lines only; offsets    *)
(* count lines.  Batches are below collectMaxEvents, beyond which the code *)
(* keeps the end of a batch and a note of how many it dropped.             *)
(***************************************************************************)
EXTENDS Integers, Sequences

CONSTANTS
    Path,          \* the files read
    First,         \* collectFirstBytes: how far back a new file is read
    MaxRead,       \* collectMaxBytes: the most read of one file in one minute
    MaxLines,      \* bound: lines ever written to a file
    MaxRotations,  \* bound: rotations and emptyings
    MaxBreaks      \* bound: deaths of the panel and transactions that fail

VARIABLES
    cur, old,      \* the file at each path and at path.1: inode and lines
    written,       \* the lines ever written to each path
    cursor,        \* log_cursors: inode and offset; inode 0 is no row
    at,            \* "idle", "visit", "old", "read", "save", "record"
    path, todo,    \* the file the collector is at, and those still to come
    stat,          \* what stat said of each file and its rotated copy
    start, got,    \* where the file is read from, and the lines of it read
    batch,         \* per path, the lines read in this minute
    events,        \* per path, the lines in server_events
    first,         \* history: the line each path was first read from
    emptied,       \* history: the paths emptied since their last visit
    lossy,         \* history: the paths something happened to that loses lines
    rotations, breaks

LogsAssumption ==
    /\ Path # {} /\ First \in Nat /\ MaxRead \in Nat
    /\ MaxLines \in Nat /\ MaxRotations \in Nat /\ MaxBreaks \in Nat

files == <<cur, old, written>>
work == <<at, path, todo, stat, start, got, batch>>
vars == <<cur, old, written, cursor, at, path, todo, stat, start, got, batch,
          events, first, emptied, lossy, rotations, breaks>>

NoFile == [ino |-> 0, lines |-> <<>>]
NoCursor == [ino |-> 0, off |-> 0]
Anywhere == CHOOSE p \in Path : TRUE

TypeOK ==
    /\ \A p \in Path : /\ cur[p].ino \in Nat /\ old[p].ino \in Nat
                       /\ cur[p].lines \in Seq(Nat) /\ events[p] \in Seq(Nat)
                       /\ cursor[p].off \in Nat /\ batch[p] \in Seq(Nat)
    /\ at \in {"idle", "visit", "old", "read", "save", "record"}
    /\ path \in Path /\ todo \subseteq Path
    /\ emptied \subseteq Path /\ lossy \subseteq Path
    /\ rotations \in 0..MaxRotations /\ breaks \in 0..MaxBreaks

Nothing == [p \in Path |-> <<>>]
NoStat == [p \in Path |-> [ino |-> 0, size |-> 0, oldIno |-> 0, oldSize |-> 0]]

\* Some lines were there before the panel was.
Init ==
    /\ \E n \in {0, First + 1} :
         /\ cur = [p \in Path |-> [ino |-> 1, lines |-> [i \in 1..n |-> i]]]
         /\ written = [p \in Path |-> n]
    /\ old = [p \in Path |-> NoFile]
    /\ cursor = [p \in Path |-> NoCursor]
    /\ at = "idle" /\ path = Anywhere /\ todo = {} /\ stat = NoStat
    /\ start = 0 /\ got = <<>> /\ batch = Nothing
    /\ events = Nothing /\ first = [p \in Path |-> 0]
    /\ emptied = {} /\ lossy = {}
    /\ rotations = 0 /\ breaks = 0

From(lines, k) == SubSeq(lines, k + 1, Len(lines))
Smaller(a, b) == IF a < b THEN a ELSE b

---------------------------------------------------------------------------
(* The programs that write, and logrotate.                                 *)

\* A file that was emptied and has grown back to the cursor looks untouched.
Append1(p) ==
    /\ written[p] < MaxLines
    /\ written' = [written EXCEPT ![p] = @ + 1]
    /\ cur' = [cur EXCEPT ![p].lines = Append(@, written'[p])]
    /\ lossy' = IF p \in emptied /\ Len(cur'[p].lines) >= cursor[p].off
                THEN lossy \cup {p} ELSE lossy
    /\ UNCHANGED <<old, cursor, work, events, first, emptied, rotations, breaks>>

\* Rotating twice between two visits loses what was not read of the first, and
\* rotating under the collector makes it read one file for another.
Rotate(p) ==
    /\ rotations < MaxRotations /\ rotations' = rotations + 1
    /\ old' = [old EXCEPT ![p] = cur[p]]
    /\ cur' = [cur EXCEPT ![p] = [ino |-> @.ino + 1, lines |-> <<>>]]
    /\ lossy' = IF at # "idle" \/ cursor[p].ino \notin {0, cur[p].ino} \/ p \in emptied
                THEN lossy \cup {p} ELSE lossy
    /\ UNCHANGED <<written, cursor, work, events, first, emptied, breaks>>

\* Emptying a file loses what was not read of it.
Empty(p) ==
    /\ rotations < MaxRotations /\ rotations' = rotations + 1
    /\ cur[p].lines # <<>>
    /\ cur' = [cur EXCEPT ![p].lines = <<>>]
    /\ emptied' = emptied \cup {p}
    /\ lossy' = IF \/ at # "idle" \/ p \in emptied
                   \/ cursor[p] # [ino |-> cur[p].ino, off |-> Len(cur[p].lines)]
                THEN lossy \cup {p} ELSE lossy
    /\ UNCHANGED <<old, written, cursor, work, events, first, breaks>>

---------------------------------------------------------------------------
(* One minute's copy.  TryLock: there is only ever one.                    *)

Begin ==
    /\ at = "idle"
    /\ at' = "visit" /\ todo' = Path /\ batch' = Nothing
    /\ stat' = [p \in Path |-> [ino |-> cur[p].ino, size |-> Len(cur[p].lines),
                                oldIno |-> old[p].ino, oldSize |-> Len(old[p].lines)]]
    /\ UNCHANGED <<files, cursor, path, start, got, events, first, emptied, lossy,
                   rotations, breaks>>

Rotated(p) == cursor[p].ino # 0 /\ cursor[p].ino # stat[p].ino

\* The next file: its cursor, and whether the rotated copy is read first.
Visit(p) ==
    LET c == cursor[p]
        offset == IF Rotated(p) THEN 0 ELSE c.off
        begin == IF c.ino = 0
                   THEN IF stat[p].size > First THEN stat[p].size - First ELSE 0
                 ELSE IF stat[p].size < offset THEN 0 ELSE offset
    IN
    /\ at = "visit" /\ p \in todo
    /\ path' = p /\ todo' = todo \ {p}
    /\ start' = begin /\ got' = <<>>
    /\ first' = IF c.ino = 0 THEN [first EXCEPT ![p] = written[p] - Len(cur[p].lines) + begin]
                ELSE first
    /\ at' = IF Rotated(p) /\ stat[p].oldIno = c.ino /\ stat[p].oldSize > c.off
             THEN "old" ELSE IF stat[p].size = begin THEN "save" ELSE "read"
    /\ UNCHANGED <<files, cursor, stat, batch, events, emptied, lossy, rotations, breaks>>

\* The lines of a file in (k, size], no more than MaxRead of them.
Read(lines, k, size) ==
    SubSeq(lines, k + 1, Smaller(Smaller(size, k + MaxRead), Len(lines)))

\* The rest of the rotated file, through the same cap; what is over it is lost.
ReadOld ==
    LET p == path  off == cursor[p].off IN
    /\ at = "old"
    /\ batch' = [batch EXCEPT ![p] = @ \o Read(old[p].lines, off, stat[p].oldSize)]
    /\ lossy' = IF stat[p].oldSize - off > MaxRead THEN lossy \cup {p} ELSE lossy
    /\ at' = IF stat[p].size = start THEN "save" ELSE "read"
    /\ UNCHANGED <<files, cursor, path, todo, stat, start, got, events, first,
                   emptied, rotations, breaks>>

\* A variant that saves where the file ended.
SetLogCursorAtEnd ==
    /\ at = "save"
    /\ cursor' = [cursor EXCEPT ![path] = [ino |-> stat[path].ino, off |-> stat[path].size]]
    /\ emptied' = emptied \ {path}
    /\ at' = IF todo = {} THEN "record" ELSE "visit"
    /\ UNCHANGED <<files, path, todo, stat, start, got, batch, events, first, lossy,
                   rotations, breaks>>

ReadCurrent ==
    /\ at = "read"
    /\ got' = Read(cur[path].lines, start, stat[path].size)
    /\ batch' = [batch EXCEPT ![path] = @ \o got']
    /\ at' = "save"
    /\ UNCHANGED <<files, cursor, path, todo, stat, start, events, first, emptied,
                   lossy, rotations, breaks>>

SetLogCursor ==
    /\ at = "save"
    /\ cursor' = [cursor EXCEPT ![path] = [ino |-> stat[path].ino, off |-> start + Len(got)]]
    /\ emptied' = emptied \ {path}
    /\ at' = IF todo = {} THEN "record" ELSE "visit"
    /\ UNCHANGED <<files, path, todo, stat, start, got, batch, events, first, lossy,
                   rotations, breaks>>

Rest ==
    /\ at' = "idle" /\ path' = Anywhere /\ todo' = {} /\ stat' = NoStat
    /\ start' = 0 /\ got' = <<>> /\ batch' = Nothing

\* All the files' lines in one transaction.
RecordServerEvents ==
    /\ at = "record"
    /\ events' = [p \in Path |-> events[p] \o batch[p]]
    /\ Rest
    /\ UNCHANGED <<files, cursor, first, emptied, lossy, rotations, breaks>>

\* The transaction fails, with a line in the panel's log; or the panel dies.
\* The cursors saved are ahead of the lines: those are not read again.
Break ==
    /\ breaks < MaxBreaks /\ breaks' = breaks + 1
    /\ at # "idle"
    /\ lossy' = lossy \cup {p \in Path : /\ batch[p] # <<>>
                                        /\ p = path => at \in {"visit", "record"}}
    /\ Rest
    /\ UNCHANGED <<files, cursor, events, first, emptied, rotations>>

Next ==
    \/ \E p \in Path : Append1(p) \/ Rotate(p) \/ Empty(p) \/ Visit(p)
    \/ Begin \/ ReadOld \/ ReadCurrent \/ SetLogCursor \/ RecordServerEvents \/ Break

Spec == Init /\ [][Next]_vars

---------------------------------------------------------------------------
\* What the next minutes will read of p, from its cursor on.
Unread(p) ==
    LET c == cursor[p] IN
    IF c.ino = cur[p].ino
      THEN IF Len(cur[p].lines) < c.off THEN cur[p].lines ELSE From(cur[p].lines, c.off)
      ELSE (IF old[p].ino = c.ino THEN From(old[p].lines, c.off) ELSE <<>>) \o cur[p].lines

\* events.go:22, "It reads each file from where it stopped last time": between
\* two minutes, the lines kept of a file and those it will read are all the
\* lines written since the file was first seen, each once and in their order,
\* across rotations, emptyings, lines written during the copy and minutes cut
\* short; except for the files something lossy happened to.
EveryLineOnce ==
    at = "idle" =>
      \A p \in Path \ lossy :
        cursor[p].ino # 0 =>
          events[p] \o Unread(p) = [i \in 1..(written[p] - first[p]) |-> first[p] + i]
=============================================================================
