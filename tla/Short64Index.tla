---------------------------- MODULE Short64Index ----------------------------
(***************************************************************************)
(* FileShort64Index (oprow/short64/index.py): a snapshot file that every   *)
(* add_reference reads whole, extends in memory and replaces, by way of a  *)
(* temporary file of a fixed name.  The class says that it is no           *)
(* concurrent database, and several processes may still open one file.     *)
(* A snapshot holds one bucket of the index here.  Its rows are sorted     *)
(* (models.py, to_canonical), so a row stands for its place in that order. *)
(***************************************************************************)
EXTENDS Integers, Sequences, SequencesExt, TextFile

CONSTANTS
  Writers,     \* processes that open the index
  Rows,        \* index references, numbered in the order of manifest key and
               \* document bytes
  MaxCrashes   \* bound on processes that die

ASSUME CrashesAssumption == MaxCrashes \in Nat
ASSUME RowsAssumption    == Rows \subseteq Nat

VARIABLES
  path, tmp,   \* the two files; a snapshot is a sequence of rows
  pc, job,     \* where each process is, and the row it adds
  mem,         \* the MemoryShort64Index it holds
  fd,          \* which name its open file has by now
  acked,       \* history: rows whose add_reference returned
  overlap,     \* history: two processes had the index open at the same time
  crashes

vars == <<path, tmp, pc, job, mem, fd, acked, overlap, crashes>>

NoRow == -1

TypeOK ==
  /\ path \in FileOf(Seq(Rows)) /\ tmp \in FileOf(Seq(Rows))
  /\ pc \in [Writers -> {"down", "ready", "read", "open", "write", "rename"}]
  /\ job \in [Writers -> Rows \cup {NoRow}]
  /\ mem \in [Writers -> Seq(Rows)]
  /\ fd \in [Writers -> {"closed", "tmp", "path", "unlinked"}]
  /\ acked \subseteq Rows
  /\ overlap \in BOOLEAN
  /\ crashes \in 0..MaxCrashes

Init ==
  /\ path = Absent /\ tmp = Absent
  /\ pc = [w \in Writers |-> "down"]
  /\ job = [w \in Writers |-> NoRow]
  /\ mem = [w \in Writers |-> <<>>]
  /\ fd = [w \in Writers |-> "closed"]
  /\ acked = {}
  /\ overlap = FALSE
  /\ crashes = 0

Goto(w, l) == pc' = [pc EXCEPT ![w] = l]

\* __post_init__: an index that is not there is written empty.
Construct(w) ==
  /\ pc[w] = "down"
  /\ Goto(w, IF Exists(path) THEN "ready" ELSE "open")
  /\ mem' = [mem EXCEPT ![w] = <<>>]
  /\ job' = [job EXCEPT ![w] = NoRow]
  /\ overlap' = (overlap \/ \E v \in Writers : pc[v] # "down")
  /\ UNCHANGED <<path, tmp, fd, acked, crashes>>

AddReference(w, r) ==
  /\ pc[w] = "ready"
  /\ job' = [job EXCEPT ![w] = r]
  /\ Goto(w, "read")
  /\ UNCHANGED <<path, tmp, mem, fd, acked, overlap, crashes>>

\* The places in rows where r is sorted in: behind the first k rows.
Places(rows, r) ==
  {k \in 0..Len(rows) : /\ \A i \in 1..k : rows[i] <= r
                        /\ \A i \in k + 1..Len(rows) : r < rows[i]}

\* Mutant of Inserted: room is made for the row and not filled.
InsertedGap(rows, r, k) ==
  [i \in 1..Len(rows) + 1 |->
     IF i <= k THEN rows[i] ELSE IF i = k + 1 THEN NoRow ELSE rows[i - 1]]

Inserted(rows, r, k) ==
  [i \in 1..Len(rows) + 1 |->
     IF i <= k THEN rows[i] ELSE IF i = k + 1 THEN r ELSE rows[i - 1]]

\* Mutant of WithRow: a row is added without looking for it.
WithRowAgain(rows, r) == {Inserted(rows, r, k) : k \in Places(rows, r)}

\* MemoryShort64Index.add_reference: the one bucket that rows and r make, as
\* the next snapshot will list it.
WithRow(rows, r) ==
  IF r \in ToSet(rows) THEN {rows}
  ELSE {Inserted(rows, r, k) : k \in Places(rows, r)}

\* Mutant of ReadMemory: the memory starts empty.
ReadNothing(w) ==
  /\ pc[w] = "read"
  /\ mem' = [mem EXCEPT ![w] = <<job[w]>>]
  /\ Goto(w, "open")
  /\ UNCHANGED <<path, tmp, job, fd, acked, overlap, crashes>>

\* _read_memory raises unless the file holds a snapshot.
ReadMemory(w) ==
  /\ pc[w] = "read"
  /\ \/ /\ Parses(path)
        /\ \E new \in WithRow(path.val, job[w]) : mem' = [mem EXCEPT ![w] = new]
        /\ Goto(w, "open")
     \/ /\ ~Parses(path)
        /\ mem' = mem
        /\ Goto(w, "ready")
  /\ UNCHANGED <<path, tmp, job, fd, acked, overlap, crashes>>

\* Mutant of OpenTmp: the snapshot itself is opened for writing.
OpenInPlace(w) ==
  /\ pc[w] = "open"
  /\ path' = Empty
  /\ fd' = [fd EXCEPT ![w] = "path"]
  /\ Goto(w, "write")
  /\ UNCHANGED <<tmp, job, mem, acked, overlap, crashes>>

\* _write_memory, in three steps: write_bytes opens the temporary file, which
\* truncates it, and writes it; replace renames it.
OpenTmp(w) ==
  /\ pc[w] = "open"
  /\ tmp' = Empty
  /\ fd' = [fd EXCEPT ![w] = "tmp"]
  /\ Goto(w, "write")
  /\ UNCHANGED <<path, job, mem, acked, overlap, crashes>>

\* More rows make a longer snapshot; as many, either.
LongerThan(f, rows) ==
  IF ~Parses(f) THEN BOOLEAN
  ELSE CASE Len(f.val) > Len(rows) -> {TRUE}
         [] Len(f.val) < Len(rows) -> {FALSE}
         [] OTHER -> BOOLEAN

\* Mutant of WriteTmp: the row counts as added before the rename.
AckBeforeRename(w) ==
  /\ pc[w] = "write"
  /\ tmp' = Whole(mem[w])
  /\ fd' = [fd EXCEPT ![w] = "closed"]
  /\ acked' = acked \cup ({job[w]} \ {NoRow})
  /\ Goto(w, "rename")
  /\ UNCHANGED <<path, job, mem, overlap, crashes>>

\* The bytes go to the file that was opened, whatever it is called by now.
WriteTmp(w) ==
  /\ pc[w] = "write"
  /\ tmp' \in IF fd[w] = "tmp" THEN Landing(tmp, mem[w], LongerThan(tmp, mem[w]))
              ELSE {tmp}
  /\ path' \in IF fd[w] = "path" THEN Landing(path, mem[w], LongerThan(path, mem[w]))
               ELSE {path}
  /\ fd' = [fd EXCEPT ![w] = "closed"]
  /\ Goto(w, "rename")
  /\ UNCHANGED <<job, mem, acked, overlap, crashes>>

\* Where another process's open file is after a rename.
Renamed(name) ==
  CASE name = "tmp" -> "path" [] name = "path" -> "unlinked" [] OTHER -> name

Replace(w) ==
  /\ pc[w] = "rename"
  /\ \/ /\ Exists(tmp)
        /\ path' = tmp /\ tmp' = Absent
        /\ fd' = [v \in Writers |-> Renamed(fd[v])]
        /\ acked' = acked \cup ({job[w]} \ {NoRow})
        /\ Goto(w, "ready")
     \/ /\ ~Exists(tmp)                    \* FileNotFoundError
        /\ Goto(w, IF job[w] = NoRow THEN "down" ELSE "ready")
        /\ UNCHANGED <<path, tmp, fd, acked>>
  /\ UNCHANGED <<job, mem, overlap, crashes>>

\* A process ends between two calls, or dies inside one; both files stay.
Close(w) ==
  /\ pc[w] = "ready"
  /\ Goto(w, "down")
  /\ UNCHANGED <<path, tmp, job, mem, fd, acked, overlap, crashes>>

Crash(w) ==
  /\ crashes < MaxCrashes /\ pc[w] \notin {"down", "ready"}
  /\ crashes' = crashes + 1
  /\ Goto(w, "down")
  /\ fd' = [fd EXCEPT ![w] = "closed"]
  /\ UNCHANGED <<path, tmp, job, mem, acked, overlap>>

Next == \E w \in Writers :
  \/ Construct(w) \/ \E r \in Rows : AddReference(w, r)
  \/ ReadMemory(w) \/ OpenTmp(w) \/ WriteTmp(w) \/ Replace(w)
  \/ Close(w) \/ Crash(w)

Spec == Init /\ [][Next]_vars

-----------------------------------------------------------------------------
(* Properties                                                               *)

\* The rows of a snapshot that can be read are in their order and none is
\* there twice, however many processes overwrite each other's snapshots, die
\* half way and add a row again.
Ascending(rows) == \A i, j \in DOMAIN rows : i < j => rows[i] < rows[j]
RowsAscend == Parses(path) => Ascending(path.val)

\* As long as one process at a time has the index open - each may end, or die
\* at any step, and another take over - the index is always readable: no death
\* leaves a torn snapshot.
Readable == path.st \in {"absent", "whole"}
IndexReadable == ~overlap => Readable

\* With one process at a time, a row stays once its add_reference has returned.
Kept == acked # {} => Parses(path) /\ acked \subseteq ToSet(path.val)
AckedKept == ~overlap => Kept

\* With one process at a time, no row that a lookup could have returned is
\* lost, also one whose add_reference was cut off after the rename.
Grows == Parses(path) => Parses(path') /\ ToSet(path.val) \subseteq ToSet(path'.val)
RowsOnlyGrow == [][~overlap' => Grows]_vars
=============================================================================
