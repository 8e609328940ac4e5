------------------------ MODULE Short64Index_proofs -------------------------
(***************************************************************************)
(* Short64Index, for any number of processes: types, and snapshots in      *)
(* order.  As long as one process at a time is up, whichever dies at       *)
(* whatever step: the snapshot is never torn and keeps every row.          *)
(***************************************************************************)
EXTENDS Short64Index, TLAPS

-----------------------------------------------------------------------------
(* The files                                                                *)

\* A file is absent, empty, garbled, or holds one of the values; only then it
\* parses.
LEMMA FileOfCases ==
  ASSUME NEW V, NEW f \in FileOf(V)
  PROVE  /\ f.st \in {"absent", "empty", "garbled", "whole"}
         /\ Parses(f) => f.val \in V
  BY DEF FileOf, Absent, Empty, Garbled, Parses

\* The constant contents are files.
LEMMA ConstantFiles ==
  ASSUME NEW V
  PROVE  Absent \in FileOf(V) /\ Empty \in FileOf(V) /\ Garbled \in FileOf(V)
  BY DEF FileOf

\* A written text is a file, and it parses to what was written.
LEMMA WholeFile ==
  ASSUME NEW V, NEW v \in V
  PROVE  Whole(v) \in FileOf(V) /\ Parses(Whole(v)) /\ Whole(v).val = v
  BY DEF FileOf, Whole, Parses

\* Empty, absent and garbled files do not parse.
LEMMA NothingToParse == ~Parses(Absent) /\ ~Parses(Empty) /\ ~Parses(Garbled)
  BY DEF Parses, Absent, Empty, Garbled

\* Writing v leaves v's text or a garbled file.
LEMMA LandingCases ==
  ASSUME NEW f, NEW v, NEW tails, NEW g \in Landing(f, v, tails)
  PROVE  g = Whole(v) \/ g = Garbled
  BY DEF Landing

-----------------------------------------------------------------------------

\* Sorting a row in adds it once and keeps the bucket in order.
LEMMA InsertedFacts ==
  ASSUME NEW rows \in Seq(Rows), NEW r \in Rows, r \notin ToSet(rows),
         Ascending(rows), NEW k \in Places(rows, r)
  PROVE  /\ Inserted(rows, r, k) \in Seq(Rows)
         /\ Ascending(Inserted(rows, r, k))
         /\ ToSet(Inserted(rows, r, k)) = ToSet(rows) \cup {r}
<1> DEFINE n == Len(rows)
           new == Inserted(rows, r, k)
<1>1. n \in Nat /\ DOMAIN rows = 1..n /\ k \in 0..n
  BY DEF Places
<1>2. \A i \in 1..n : rows[i] \in Rows /\ rows[i] \in Nat /\ rows[i] # r
  <2>1. \A i \in 1..n : rows[i] \in Rows
    BY <1>1
  <2> QED BY <1>1, <2>1, RowsAssumption DEF ToSet
<1>3. /\ \A i \in 1..k : rows[i] < r
      /\ \A i \in k + 1..n : r < rows[i]
  <2>1. \A i \in 1..k : rows[i] <= r
    BY DEF Places
  <2> QED BY <1>1, <1>2, <2>1, RowsAssumption DEF Places
<1>4. /\ DOMAIN new = 1..n + 1
      /\ \A i \in 1..k : new[i] = rows[i]
      /\ new[k + 1] = r
      /\ \A i \in k + 2..n + 1 : new[i] = rows[i - 1]
  BY <1>1 DEF Inserted
<1>5. new \in Seq(Rows)
  BY <1>1, <1>2 DEF Inserted
<1>6. Ascending(new)
  <2> SUFFICES ASSUME NEW i \in 1..n + 1, NEW j \in 1..n + 1, i < j
               PROVE  new[i] < new[j]
    BY <1>4 DEF Ascending
  <2>1. \A x, y \in 1..n : x < y => rows[x] < rows[y]
    BY <1>1 DEF Ascending
  <2> HIDE DEF new
  <2>2. CASE j <= k
    BY <1>1, <1>4, <2>1, <2>2
  <2>3. CASE j = k + 1
    BY <1>1, <1>3, <1>4, <2>3
  <2>4. CASE j > k + 1 /\ i <= k
    BY <1>1, <1>4, <2>1, <2>4
  <2>5. CASE j > k + 1 /\ i = k + 1
    BY <1>1, <1>3, <1>4, <2>5
  <2>6. CASE i > k + 1
    BY <1>1, <1>4, <2>1, <2>6
  <2> QED BY <1>1, <2>2, <2>3, <2>4, <2>5, <2>6
<1>7. ToSet(new) = ToSet(rows) \cup {r}
  <2> HIDE DEF new
  <2>1. ToSet(new) \subseteq ToSet(rows) \cup {r}
    BY <1>1, <1>4 DEF ToSet
  <2>2. \A i \in 1..n : rows[i] \in ToSet(new)
    <3> SUFFICES ASSUME NEW i \in 1..n PROVE \E j \in 1..n + 1 : new[j] = rows[i]
      BY <1>4 DEF ToSet
    <3>1. CASE i <= k
      BY <1>1, <1>4, <3>1
    <3>2. CASE i > k
      <4>1. i + 1 \in k + 2..n + 1 /\ i + 1 \in 1..n + 1
        BY <1>1, <3>2
      <4>2. new[i + 1] = rows[i]
        BY <1>4, <4>1
      <4> QED BY <4>1, <4>2
    <3> QED BY <1>1, <3>1, <3>2
  <2>3. r \in ToSet(new)
    BY <1>1, <1>4 DEF ToSet
  <2> QED BY <1>1, <2>1, <2>2, <2>3 DEF ToSet
<1> QED BY <1>5, <1>6, <1>7

LEMMA WithRowFacts ==
  ASSUME NEW rows \in Seq(Rows), NEW r \in Rows, Ascending(rows),
         NEW new \in WithRow(rows, r)
  PROVE  /\ new \in Seq(Rows) /\ Ascending(new)
         /\ ToSet(new) = ToSet(rows) \cup {r}
<1>1. CASE r \in ToSet(rows)
  BY <1>1 DEF WithRow
<1>2. CASE r \notin ToSet(rows)
  <2>1. PICK k \in Places(rows, r) : new = Inserted(rows, r, k)
    BY <1>2 DEF WithRow
  <2> QED BY <1>2, <2>1, InsertedFacts
<1> QED BY <1>1, <1>2

LEMMA EmptySnapshot == <<>> \in Seq(Rows) /\ Ascending(<<>>)
  BY DEF Ascending

\* A file that mem was written to holds mem or is garbled.
LEMMA SnapshotWritten ==
  ASSUME NEW f, NEW rows \in Seq(Rows), NEW g \in Landing(f, rows, LongerThan(f, rows))
  PROVE  /\ g \in FileOf(Seq(Rows)) /\ Exists(g)
         /\ Parses(g) => g.val = rows
<1>1. g = Whole(rows) \/ g = Garbled
  BY LandingCases
<1>2. Exists(Whole(rows)) /\ Exists(Garbled)
  BY DEF Exists, Whole, Garbled
<1> QED BY <1>1, <1>2, WholeFile, ConstantFiles, NothingToParse

-----------------------------------------------------------------------------
(* Types and the order of the rows                                          *)

AllAscend ==
  /\ Parses(path) => Ascending(path.val)
  /\ Parses(tmp) => Ascending(tmp.val)
  /\ \A w \in Writers : Ascending(mem[w])

OrderInv == TypeOK /\ AllAscend
  /\ \A w \in Writers : pc[w] = "read" => job[w] \in Rows

LEMMA OrderInit == Init => OrderInv
<1> SUFFICES ASSUME Init PROVE OrderInv
  OBVIOUS
<1>1. overlap \in BOOLEAN
  BY Zenon DEF Init
<1>2. AllAscend /\ \A w \in Writers : pc[w] # "read"
  BY EmptySnapshot, NothingToParse DEF Init, AllAscend
<1>3. TypeOK
  BY <1>1, EmptySnapshot, ConstantFiles, CrashesAssumption DEF Init, TypeOK
<1> QED BY <1>2, <1>3 DEF OrderInv

LEMMA OrderStep ==
  ASSUME OrderInv, [Next]_vars
  PROVE  OrderInv'
<1> USE DEF OrderInv
<1>1. ASSUME NEW w \in Writers, Construct(w) PROVE OrderInv'
  <2>1. overlap' \in BOOLEAN
    BY <1>1, Zenon DEF Construct
  <2>2. /\ pc' \in [Writers -> {"down", "ready", "read", "open", "write", "rename"}]
        /\ job' \in [Writers -> Rows \cup {NoRow}] /\ mem' \in [Writers -> Seq(Rows)]
    BY <1>1, EmptySnapshot DEF Construct, Goto, TypeOK
  <2>3. AllAscend' /\ \A v \in Writers : pc'[v] = "read" => job'[v] \in Rows
    BY <1>1, EmptySnapshot DEF Construct, Goto, TypeOK, AllAscend
  <2> QED BY <1>1, <2>1, <2>2, <2>3 DEF Construct, TypeOK
<1>2. ASSUME NEW w \in Writers, NEW r \in Rows, AddReference(w, r)
      PROVE  OrderInv'
  BY <1>2 DEF AddReference, Goto, TypeOK, AllAscend
<1>3. ASSUME NEW w \in Writers, ReadMemory(w) PROVE OrderInv'
  <2>1. CASE ~Parses(path)
    BY <1>3, <2>1 DEF ReadMemory, Goto, TypeOK, AllAscend
  <2>2. CASE Parses(path)
    <3>1. path.val \in Seq(Rows) /\ job[w] \in Rows
      BY <1>3, <2>2, FileOfCases DEF ReadMemory, TypeOK
    <3>3. PICK new \in WithRow(path.val, job[w]) : mem' = [mem EXCEPT ![w] = new]
      BY <1>3, <2>2 DEF ReadMemory
    <3>2. new \in Seq(Rows) /\ Ascending(new)
      BY <2>2, <3>1, WithRowFacts DEF AllAscend
    <3>4. mem' \in [Writers -> Seq(Rows)] /\ \A v \in Writers : Ascending(mem'[v])
      BY <3>2, <3>3 DEF TypeOK, AllAscend
    <3> QED BY <1>3, <2>2, <3>4 DEF ReadMemory, Goto, TypeOK, AllAscend
  <2> QED BY <2>1, <2>2
<1>4. ASSUME NEW w \in Writers, OpenTmp(w) PROVE OrderInv'
  BY <1>4, ConstantFiles, NothingToParse DEF OpenTmp, Goto, TypeOK, AllAscend
<1>5. ASSUME NEW w \in Writers, WriteTmp(w) PROVE OrderInv'
  <2>1. mem[w] \in Seq(Rows) /\ Ascending(mem[w])
    BY DEF TypeOK, AllAscend
  <2>2. tmp' \in FileOf(Seq(Rows)) /\ (Parses(tmp') => Ascending(tmp'.val))
    BY <1>5, <2>1, SnapshotWritten DEF WriteTmp, TypeOK, AllAscend
  <2>3. path' \in FileOf(Seq(Rows)) /\ (Parses(path') => Ascending(path'.val))
    BY <1>5, <2>1, SnapshotWritten DEF WriteTmp, TypeOK, AllAscend
  <2> QED BY <1>5, <2>2, <2>3 DEF WriteTmp, Goto, TypeOK, AllAscend
<1>6. ASSUME NEW w \in Writers, Replace(w) PROVE OrderInv'
  <2>1. fd' \in [Writers -> {"closed", "tmp", "path", "unlinked"}]
    BY <1>6 DEF Replace, Renamed, TypeOK
  <2>2. acked' \subseteq Rows
    BY <1>6 DEF Replace, TypeOK
  <2>3. pc' \in [Writers -> {"down", "ready", "read", "open", "write", "rename"}]
    BY <1>6 DEF Replace, Goto, TypeOK
  <2>4. \A v \in Writers : pc'[v] = "read" => job'[v] \in Rows
    BY <1>6 DEF Replace, Goto, TypeOK
  <2>5. AllAscend' /\ path' \in FileOf(Seq(Rows)) /\ tmp' \in FileOf(Seq(Rows))
    BY <1>6, ConstantFiles, NothingToParse DEF Replace, TypeOK, AllAscend
  <2> QED BY <1>6, <2>1, <2>2, <2>3, <2>4, <2>5 DEF Replace, TypeOK
<1>7. ASSUME NEW w \in Writers, Close(w) \/ Crash(w) PROVE OrderInv'
  BY <1>7, CrashesAssumption DEF Close, Crash, Goto, TypeOK, AllAscend
<1>8. CASE UNCHANGED vars
  BY <1>8 DEF vars, TypeOK, AllAscend
<1> QED BY <1>1, <1>2, <1>3, <1>4, <1>5, <1>6, <1>7, <1>8 DEF Next

\* The files, labels and snapshots in memory keep their types.
THEOREM TypeCorrect == Spec => []TypeOK
<1>1. OrderInv => TypeOK
  BY DEF OrderInv
<1> QED BY <1>1, OrderInit, OrderStep, PTL DEF Spec

\* However many processes overwrite each other's snapshots, die and add rows
\* again, a snapshot that can be read lists its rows in order, none twice.
THEOREM SnapshotInOrder == Spec => []RowsAscend
<1>1. OrderInv => RowsAscend
  BY DEF OrderInv, AllAscend, RowsAscend
<1> QED BY <1>1, OrderInit, OrderStep, PTL DEF Spec

-----------------------------------------------------------------------------
(* One process at a time                                                    *)

\* A snapshot that would lose nothing if it were put in place now.
Keeps(rows) == /\ acked \subseteq ToSet(rows)
               /\ Parses(path) => ToSet(path.val) \subseteq ToSet(rows)

\* What the one process is about to write is never less than what is there:
\* the temporary file is its own from open to rename.
Writing(w) ==
  /\ pc[w] # "write" => fd[w] = "closed"
  /\ pc[w] = "write" => fd[w] = "tmp" /\ tmp = Empty
  /\ pc[w] = "rename" => tmp = Whole(mem[w])
  /\ pc[w] \in {"open", "write", "rename"} =>
       Keeps(mem[w]) /\ (job[w] # NoRow => job[w] \in ToSet(mem[w]))

Alone == \A v, w \in Writers : pc[v] # "down" /\ pc[w] # "down" => v = w

Solo == Readable /\ Kept /\ Alone /\ \A w \in Writers : Writing(w)

SoloInv == OrderInv /\ (~overlap => Solo)

LEMMA SoloInit == Init => SoloInv
<1> SUFFICES ASSUME Init PROVE SoloInv
  OBVIOUS
<1>1. OrderInv
  BY OrderInit
<1>2. Readable /\ Kept /\ Alone
  BY DEF Init, Readable, Kept, Alone, Absent
<1>3. \A w \in Writers : Writing(w)
  BY DEF Init, Writing
<1> QED BY <1>1, <1>2, <1>3 DEF SoloInv, Solo

\* A step of the process that is up disturbs none that is down.
LEMMA OthersDown ==
  ASSUME TypeOK, NEW w \in Writers, Writing(w)',
         \A v \in Writers \ {w} : pc[v] = "down" /\ Writing(v),
         \A v \in Writers \ {w} : pc'[v] = pc[v],
         \A v \in Writers \ {w} : fd[v] = "closed" => fd'[v] = "closed"
  PROVE  Alone' /\ \A v \in Writers : Writing(v)'
  BY DEF Alone, Writing

\* A step that nobody else was up to see keeps the invariant and takes no row
\* away.
LEMMA SoloStep ==
  ASSUME OrderInv, OrderInv', Solo, ~overlap', [Next]_vars
  PROVE  Solo' /\ Grows
<1> DEFINE Rest == Readable' /\ Kept' /\ Alone' /\ \A w \in Writers : Writing(w)'
<1> SUFFICES Rest /\ Grows
  BY DEF Solo
<1> USE DEF OrderInv
<1>o. ASSUME NEW w \in Writers, pc[w] # "down", Writing(w)',
             \A v \in Writers \ {w} : pc'[v] = pc[v],
             \A v \in Writers \ {w} : fd[v] = "closed" => fd'[v] = "closed"
      PROVE  Alone' /\ \A v \in Writers : Writing(v)'
  <2>1. \A v \in Writers \ {w} : pc[v] = "down" /\ Writing(v)
    BY <1>o DEF Solo, Alone
  <2> QED BY <1>o, <2>1, OthersDown
<1>1. ASSUME NEW w \in Writers, Construct(w) PROVE Rest /\ Grows
  <2>1. UNCHANGED <<path, tmp, fd, acked>>
    BY <1>1 DEF Construct
  <2>2. Readable' /\ Kept' /\ Grows
    BY <2>1 DEF Solo, Readable, Kept, Grows
  <2>3. pc[w] = "down" /\ pc'[w] \in {"ready", "open"} /\ job'[w] = NoRow /\ mem'[w] = <<>>
    BY <1>1 DEF Construct, Goto, TypeOK
  <2>4. pc'[w] = "open" => ~Parses(path) /\ acked = {}
    <3> SUFFICES ASSUME pc'[w] = "open" PROVE ~Parses(path) /\ acked = {}
      OBVIOUS
    <3>1. ~Exists(path)
      BY <1>1 DEF Construct, Goto, TypeOK
    <3>2. ~Parses(path)
      BY <3>1 DEF Exists, Parses
    <3> QED BY <3>2 DEF Solo, Kept
  <2>5. Writing(w)'
    BY <2>1, <2>3, <2>4 DEF Solo, Writing, Keeps
  <2>6. \A v \in Writers : pc[v] = "down"
    BY <1>1, Zenon DEF Construct
  <2>7. \A v \in Writers \ {w} : pc'[v] = pc[v] /\ fd'[v] = fd[v]
    BY <1>1, <2>1 DEF Construct, Goto, TypeOK
  <2>8. Alone' /\ \A v \in Writers : Writing(v)'
    BY <2>5, <2>6, <2>7, OthersDown DEF Solo
  <2> QED BY <2>2, <2>8
<1>2. ASSUME NEW w \in Writers, NEW r \in Rows, AddReference(w, r)
      PROVE  Rest /\ Grows
  <2>f. \A v \in Writers \ {w} : pc'[v] = pc[v] /\ (fd[v] = "closed" => fd'[v] = "closed")
    BY <1>2 DEF AddReference, Goto, TypeOK
  <2>1. UNCHANGED <<path, tmp, fd, acked>> /\ pc[w] = "ready" /\ pc'[w] = "read"
    BY <1>2 DEF AddReference, Goto, TypeOK
  <2>2. Writing(w)'
    BY <2>1 DEF Solo, Writing
  <2>3. Alone' /\ \A v \in Writers : Writing(v)'
    BY <1>o, <2>f, <2>1, <2>2
  <2> QED BY <2>1, <2>3 DEF Solo, Readable, Kept, Grows
<1>3. ASSUME NEW w \in Writers, ReadMemory(w) PROVE Rest /\ Grows
  <2>f. \A v \in Writers \ {w} : pc'[v] = pc[v] /\ (fd[v] = "closed" => fd'[v] = "closed")
    BY <1>3 DEF ReadMemory, Goto, TypeOK
  <2>1. UNCHANGED <<path, tmp, fd, acked, job>> /\ pc[w] = "read"
    BY <1>3 DEF ReadMemory
  <2>2. CASE ~Parses(path)
    <3>1. pc'[w] = "ready"
      BY <1>3, <2>2 DEF ReadMemory, Goto, TypeOK
    <3>2. Writing(w)'
      BY <2>1, <3>1 DEF Solo, Writing
    <3>3. Alone' /\ \A v \in Writers : Writing(v)'
      BY <1>o, <2>f, <2>1, <3>2
    <3> QED BY <2>1, <3>3 DEF Solo, Readable, Kept, Grows
  <2>3. CASE Parses(path)
    <3>1. path.val \in Seq(Rows) /\ job[w] \in Rows /\ Ascending(path.val)
      BY <1>3, <2>3, FileOfCases DEF ReadMemory, TypeOK, AllAscend
    <3>2. PICK new \in WithRow(path.val, job[w]) : mem' = [mem EXCEPT ![w] = new]
      BY <1>3, <2>3 DEF ReadMemory
    <3>3. mem'[w] = new /\ pc'[w] = "open"
      BY <1>3, <2>3, <3>2 DEF ReadMemory, Goto, TypeOK
    <3>4. ToSet(new) = ToSet(path.val) \cup {job[w]}
      BY <3>1, WithRowFacts
    <3>5. acked \subseteq ToSet(path.val)
      BY DEF Solo, Kept
    <3>6. Keeps(mem[w])' /\ job'[w] \in ToSet(mem'[w])
      BY <2>1, <3>3, <3>4, <3>5 DEF Keeps
    <3>7. Writing(w)'
      BY <2>1, <3>3, <3>6 DEF Solo, Writing
    <3>8. Alone' /\ \A v \in Writers : Writing(v)'
      BY <1>o, <2>f, <2>1, <3>7
    <3> QED BY <2>1, <3>8 DEF Solo, Readable, Kept, Grows
  <2> QED BY <2>2, <2>3
<1>4. ASSUME NEW w \in Writers, OpenTmp(w) PROVE Rest /\ Grows
  <2>f. \A v \in Writers \ {w} : pc'[v] = pc[v] /\ (fd[v] = "closed" => fd'[v] = "closed")
    BY <1>4 DEF OpenTmp, Goto, TypeOK
  <2>1. /\ UNCHANGED <<path, acked, job, mem>> /\ tmp' = Empty
        /\ fd'[w] = "tmp" /\ pc'[w] = "write" /\ pc[w] = "open"
    BY <1>4 DEF OpenTmp, Goto, TypeOK
  <2>2. Writing(w)'
    BY <2>1 DEF Solo, Writing, Keeps
  <2>3. Alone' /\ \A v \in Writers : Writing(v)'
    BY <1>o, <2>f, <2>1, <2>2
  <2> QED BY <2>1, <2>3 DEF Solo, Readable, Kept, Grows
<1>5. ASSUME NEW w \in Writers, WriteTmp(w) PROVE Rest /\ Grows
  <2>f. \A v \in Writers \ {w} : pc'[v] = pc[v] /\ (fd[v] = "closed" => fd'[v] = "closed")
    BY <1>5 DEF WriteTmp, Goto, TypeOK
  <2>1. pc[w] = "write" /\ fd[w] = "tmp" /\ tmp = Empty
    BY <1>5 DEF WriteTmp, Solo, Writing
  <2>2. tmp' = Whole(mem[w]) /\ path' = path
    BY <1>5, <2>1 DEF WriteTmp, Landing, Empty
  <2>3. UNCHANGED <<acked, job, mem>> /\ fd'[w] = "closed" /\ pc'[w] = "rename"
    BY <1>5 DEF WriteTmp, Goto, TypeOK
  <2>4. Writing(w)'
    BY <2>1, <2>2, <2>3 DEF Solo, Writing, Keeps
  <2>5. Alone' /\ \A v \in Writers : Writing(v)'
    BY <1>o, <2>f, <2>1, <2>4
  <2> QED BY <2>2, <2>3, <2>5 DEF Solo, Readable, Kept, Grows
<1>6. ASSUME NEW w \in Writers, Replace(w) PROVE Rest /\ Grows
  <2>f. \A v \in Writers \ {w} : pc'[v] = pc[v] /\ (fd[v] = "closed" => fd'[v] = "closed")
    BY <1>6 DEF Replace, Goto, TypeOK, Renamed
  <2>1. /\ pc[w] = "rename" /\ tmp = Whole(mem[w]) /\ Keeps(mem[w])
        /\ job[w] # NoRow => job[w] \in ToSet(mem[w])
    BY <1>6 DEF Replace, Solo, Writing
  <2>2. Exists(tmp)
    BY <2>1 DEF Exists, Whole
  <2>3. /\ path' = Whole(mem[w]) /\ acked' = acked \cup ({job[w]} \ {NoRow})
        /\ fd'[w] = Renamed(fd[w]) /\ pc'[w] = "ready"
    BY <1>6, <2>1, <2>2 DEF Replace, Goto, TypeOK
  <2>4. Parses(path') /\ path'.val = mem[w] /\ path'.st = "whole"
    BY <2>3 DEF Parses, Whole
  <2>5. Readable' /\ Kept' /\ Grows
    BY <2>1, <2>3, <2>4 DEF Readable, Kept, Keeps, Grows
  <2>6. fd[w] = "closed"
    BY <2>1 DEF Solo, Writing
  <2>7. Writing(w)'
    BY <2>3, <2>6 DEF Writing, Renamed
  <2>8. Alone' /\ \A v \in Writers : Writing(v)'
    BY <1>o, <2>f, <2>1, <2>7
  <2> QED BY <2>5, <2>8
<1>7. ASSUME NEW w \in Writers, Close(w) \/ Crash(w) PROVE Rest /\ Grows
  <2>f. \A v \in Writers \ {w} : pc'[v] = pc[v] /\ (fd[v] = "closed" => fd'[v] = "closed")
    BY <1>7 DEF Close, Crash, Goto, TypeOK
  <2>1. UNCHANGED <<path, tmp, acked>> /\ pc[w] # "down" /\ pc'[w] = "down"
    BY <1>7 DEF Close, Crash, Goto, TypeOK
  <2>2. fd'[w] = "closed"
    BY <1>7 DEF Close, Crash, TypeOK, Solo, Writing
  <2>3. Writing(w)'
    BY <2>1, <2>2 DEF Writing
  <2>4. Alone' /\ \A v \in Writers : Writing(v)'
    BY <1>o, <2>f, <2>1, <2>3
  <2> QED BY <2>1, <2>4 DEF Solo, Readable, Kept, Grows
<1>8. CASE UNCHANGED vars
  BY <1>8 DEF vars, Solo, Alone, Readable, Kept, Writing, Keeps, Grows
<1> QED BY <1>1, <1>2, <1>3, <1>4, <1>5, <1>6, <1>7, <1>8 DEF Next

\* Once two processes overlapped they stay overlapped.
LEMMA SoloInvStep ==
  SoloInv /\ [Next]_vars => SoloInv' /\ (~overlap' => Grows)
<1> SUFFICES ASSUME SoloInv, [Next]_vars PROVE SoloInv' /\ (~overlap' => Grows)
  OBVIOUS
<1>1. OrderInv /\ OrderInv'
  BY OrderStep DEF SoloInv
<1>2. ~overlap' => ~overlap
  BY Zenon DEF Next, vars, Construct, AddReference, ReadMemory, OpenTmp, WriteTmp,
               Replace, Close, Crash
<1> QED BY <1>1, <1>2, SoloStep DEF SoloInv

\* As long as one process at a time has the index open, whichever it is and
\* wherever one dies, no torn snapshot is left behind ...
THEOREM SoloReadable == Spec => []IndexReadable
<1>1. SoloInv => IndexReadable
  BY DEF SoloInv, Solo, IndexReadable
<1> QED BY <1>1, SoloInit, SoloInvStep, PTL DEF Spec

\* ... nor one without a row whose add_reference returned ...
THEOREM SoloAckedKept == Spec => []AckedKept
<1>1. SoloInv => AckedKept
  BY DEF SoloInv, Solo, AckedKept
<1> QED BY <1>1, SoloInit, SoloInvStep, PTL DEF Spec

\* ... nor one without a row that a lookup has ever been able to return.
THEOREM SoloRowsGrow == Spec => RowsOnlyGrow
<1>1. SoloInv /\ [Next]_vars => SoloInv' /\ [~overlap' => Grows]_vars
  BY SoloInvStep
<1> QED BY <1>1, SoloInit, PTL DEF Spec, RowsOnlyGrow
=============================================================================
