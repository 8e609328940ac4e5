------------------------ MODULE ManifestStore_proofs ------------------------
(***************************************************************************)
(* Type correctness of ManifestStore, that no index ever names a manifest  *)
(* without a file, and that an acknowledged manifest is found again, for   *)
(* any number of store objects, manifests, backends and crashes.           *)
(***************************************************************************)
EXTENDS ManifestStore, TLAPS

-----------------------------------------------------------------------------
(* The files                                                                *)

\* A file is absent, empty, garbled, or holds one of the values; only then it
\* parses.
LEMMA FileOfCases ==
  ASSUME NEW V, NEW f \in FileOf(V)
  PROVE  /\ f.st \in {"absent", "empty", "garbled", "whole"}
         /\ Parses(f) => f.val \in V
  BY DEF FileOf, Absent, Empty, Garbled, Parses

\* The constant contents are files.
LEMMA ConstantFiles ==
  ASSUME NEW V
  PROVE  Absent \in FileOf(V) /\ Empty \in FileOf(V) /\ Garbled \in FileOf(V)
  BY DEF FileOf

\* A written text is a file, and it parses to what was written.
LEMMA WholeFile ==
  ASSUME NEW V, NEW v \in V
  PROVE  Whole(v) \in FileOf(V) /\ Parses(Whole(v)) /\ Whole(v).val = v
  BY DEF FileOf, Whole, Parses

\* Empty, absent and garbled files do not parse.
LEMMA NothingToParse == ~Parses(Absent) /\ ~Parses(Empty) /\ ~Parses(Garbled)
  BY DEF Parses, Absent, Empty, Garbled

\* Writing v leaves v's text or a garbled file.
LEMMA LandingCases ==
  ASSUME NEW f, NEW v, NEW tails, NEW g \in Landing(f, v, tails)
  PROVE  g = Whole(v) \/ g = Garbled
  BY DEF Landing

-----------------------------------------------------------------------------

\* An entry of a known backend and a manifest.
LEMMA EntryType ==
  ASSUME NEW k \in Kinds, NEW m \in Manifests
  PROVE  <<k, m>> \in Entries(Manifests)
  BY DEF Entries

\* Opening a root keeps it a root and loads a set of entries.
LEMMA OpenedType ==
  ASSUME NEW r \in Roots(Manifests), NEW k \in Kinds, Opens(r, k)
  PROVE  /\ Opened(r, k) \in Roots(Manifests)
         /\ LoadedIndex(r, k) \in SUBSET Entries(Manifests)
<1>1. DirsOf(k) \subseteq {"manifests", "blocks"}
  BY DEF DirsOf, Kinds
<1>2. Opened(r, k) \in Roots(Manifests)
  BY <1>1 DEF Opened, Roots
<1>3. r.index \in FileOf(SUBSET Entries(Manifests))
  BY DEF Roots
<1>4. Parses(r.index) => r.index.val \in SUBSET Entries(Manifests)
  BY <1>3, FileOfCases
<1>5. LoadedIndex(r, k) \in SUBSET Entries(Manifests)
  BY <1>4 DEF LoadedIndex, Opens
<1> QED BY <1>2, <1>5

\* Writing a manifest's file keeps the root a root.
LEMMA BlobType ==
  ASSUME NEW r \in Roots(Manifests), NEW k \in Kinds, NEW m \in Manifests
  PROVE  /\ BlobOpened(r, k, m) \in Roots(Manifests)
         /\ BlobWritten(r, k, m) \in Roots(Manifests)
  BY EntryType DEF BlobOpened, BlobWritten, Roots

\* A handle in the middle of a put knows which manifest it puts.
Busy(h) == handle[h].pc \in {"writeBlob", "openIndex", "writeIndex"}

IInv ==
  /\ TypeOK
  /\ \A h \in Handles : Busy(h) => handle[h].m \in Manifests
  /\ IndexNeverDangles

LEMMA InitIInv == Init => IInv
<1> SUFFICES ASSUME Init PROVE IInv
  OBVIOUS
<1> USE DEF Init
<1>1. root \in Roots(Manifests)
  BY ConstantFiles DEF EmptyRoot, Roots
<1>2. handle \in [Handles -> HandleStates]
  BY DEF Closed, HandleStates, Kinds
<1>b. overlap \in BOOLEAN
  BY Zenon
<1>c. crashes \in 0..MaxCrashes
  BY CrashesAssumption
<1>3. TypeOK
  <2> HIDE DEF Init
  <2>1. used \subseteq UseKinds /\ acked \subseteq Entries(Manifests)
    BY DEF Init
  <2> QED BY <1>1, <1>2, <1>b, <1>c, <2>1 DEF TypeOK
<1>4. IndexNeverDangles
  BY NothingToParse DEF IndexNeverDangles, EmptyRoot, Closed
<1>5. \A h \in Handles : ~Busy(h)
  BY DEF Busy, Closed
<1> QED BY <1>3, <1>4, <1>5 DEF IInv

LEMMA NextIInv == IInv /\ [Next]_vars => IInv'
<1> SUFFICES ASSUME IInv, [Next]_vars PROVE IInv'
  OBVIOUS
<1> USE DEF IInv
<1>t. /\ root \in Roots(Manifests) /\ handle \in [Handles -> HandleStates]
      /\ used \subseteq UseKinds /\ acked \subseteq Entries(Manifests)
      /\ overlap \in BOOLEAN /\ crashes \in 0..MaxCrashes
  BY DEF TypeOK
<1>k. \A h \in Handles : /\ handle[h].kind \in Kinds
                         /\ handle[h].idx \in SUBSET Entries(Manifests)
                         /\ handle[h].m \in Manifests \cup {NoManifest}
  BY <1>t DEF HandleStates
<1>1. ASSUME NEW h \in Handles, NEW kind \in UseKinds, Open(h, kind)
      PROVE  IInv'
  <2>1. kind \in Kinds /\ Opens(root, kind)
    BY <1>1, KindsAssumption DEF Open
  <2>2. /\ root' \in Roots(Manifests)
        /\ LoadedIndex(root, kind) \in SUBSET Entries(Manifests)
    BY <1>1, <1>t, <2>1, OpenedType DEF Open
  <2>3. handle' \in [Handles -> HandleStates]
    BY <1>1, <1>t, <2>1, <2>2 DEF Open, HandleStates
  <2>4. TypeOK'
    BY <1>1, <1>t, <2>2, <2>3 DEF Open, TypeOK
  <2>5. root'.index = root.index /\ Filed' = Filed
    BY <1>1, <1>t DEF Open, Opened, Filed, Roots
  <2>6. LoadedIndex(root, kind) \subseteq Filed
    BY <2>1 DEF LoadedIndex, Opens, IndexNeverDangles
  <2>7. \A x \in Handles : handle'[x].idx \subseteq Filed'
    BY <1>1, <1>t, <2>5, <2>6 DEF Open, IndexNeverDangles
  <2>8. IndexNeverDangles'
    BY <2>5, <2>7 DEF IndexNeverDangles
  <2>9. \A x \in Handles : Busy(x)' => handle'[x].m \in Manifests
    BY <1>1, <1>t DEF Open, Busy
  <2> QED BY <2>4, <2>8, <2>9
<1>2. ASSUME NEW h \in Handles, NEW m \in Manifests, PutBytes(h, m)
      PROVE  IInv'
  <2>1. root' \in Roots(Manifests)
    BY <1>2, <1>t, <1>k, BlobType DEF PutBytes
  <2>2. handle' \in [Handles -> HandleStates]
    BY <1>2, <1>t, <1>k DEF PutBytes, HandleStates
  <2>3. TypeOK'
    BY <1>2, <1>t, <2>1, <2>2 DEF PutBytes, TypeOK
  <2>4. root'.index = root.index /\ Filed \subseteq Filed'
    BY <1>2, <1>t DEF PutBytes, BlobOpened, Filed, Roots
  <2>5. \A x \in Handles : handle'[x].idx = handle[x].idx
    BY <1>2, <1>t DEF PutBytes, HandleStates
  <2>6. IndexNeverDangles'
    BY <2>4, <2>5 DEF IndexNeverDangles
  <2>7. \A x \in Handles : Busy(x)' => handle'[x].m \in Manifests
    BY <1>2, <1>t DEF PutBytes, Busy, HandleStates
  <2> QED BY <2>3, <2>6, <2>7
<1>3. ASSUME NEW h \in Handles, WriteBlob(h)
      PROVE  IInv'
  <2> DEFINE e == <<handle[h].kind, handle[h].m>>
  <2>0. handle[h].m \in Manifests /\ e \in Entries(Manifests)
    BY <1>3, <1>k, EntryType DEF WriteBlob, Busy
  <2>1. root' \in Roots(Manifests)
    BY <1>3, <1>t, <1>k, <2>0, BlobType DEF WriteBlob
  <2> DEFINE s == handle[h]
             a == [s EXCEPT !.pc = "openIndex", !.idx = s.idx \cup {e}]
             b == [s EXCEPT !.pc = "ready", !.m = NoManifest]
  <2>s. s \in HandleStates
    BY <1>t
  <2>n. a \in HandleStates /\ b \in HandleStates
    BY <2>0, <2>s DEF HandleStates
  <2>c. handle' = [handle EXCEPT ![h] = a] \/ handle' = [handle EXCEPT ![h] = b]
    <3>1. CASE HasIndex(handle[h].kind)
      BY <1>3, <3>1 DEF WriteBlob
    <3>2. CASE ~HasIndex(handle[h].kind)
      BY <1>3, <3>2 DEF WriteBlob
    <3> QED BY <3>1, <3>2
  <2>i. a.idx = s.idx \cup {e} /\ b.idx = s.idx
    BY <2>s DEF HandleStates
  <2>2. handle' \in [Handles -> HandleStates]
    <3> HIDE DEF a, b
    <3> QED BY <1>t, <2>n, <2>c
  <2>3. TypeOK'
    BY <1>3, <1>t, <2>0, <2>1, <2>2 DEF WriteBlob, TypeOK
  <2>4. root'.index = root.index /\ Filed \subseteq Filed' /\ e \in Filed'
    BY <1>3, <1>t DEF WriteBlob, BlobWritten, Filed, Roots
  <2>5. \A x \in Handles : handle'[x].idx \subseteq handle[x].idx \cup {e}
    <3> HIDE DEF a, b
    <3> QED BY <1>t, <2>c, <2>i
  <2>a. \A x \in Handles : handle'[x].idx \subseteq Filed'
    <3> HIDE DEF e
    <3> SUFFICES ASSUME NEW x \in Handles PROVE handle'[x].idx \subseteq Filed'
      OBVIOUS
    <3>1. handle[x].idx \subseteq Filed
      BY DEF IndexNeverDangles
    <3> QED BY <2>4, <2>5, <3>1
  <2>6. IndexNeverDangles'
    BY <2>4, <2>a DEF IndexNeverDangles
  <2>7. \A x \in Handles : Busy(x)' => handle'[x].m \in Manifests
    BY <1>3, <1>t DEF WriteBlob, Busy, HandleStates
  <2> QED BY <2>3, <2>6, <2>7
<1>4. ASSUME NEW h \in Handles, OpenIndex(h)
      PROVE  IInv'
  <2>1. root' \in Roots(Manifests)
    BY <1>4, <1>t, ConstantFiles DEF OpenIndex, Roots
  <2>2. handle' \in [Handles -> HandleStates]
    BY <1>4, <1>t DEF OpenIndex, HandleStates
  <2>3. TypeOK'
    BY <1>4, <1>t, <2>1, <2>2 DEF OpenIndex, TypeOK
  <2>4. ~Parses(root'.index) /\ Filed' = Filed
    BY <1>4, <1>t, NothingToParse DEF OpenIndex, Filed, Roots
  <2>5. \A x \in Handles : handle'[x].idx = handle[x].idx
    BY <1>4, <1>t DEF OpenIndex, HandleStates
  <2>6. IndexNeverDangles'
    BY <2>4, <2>5 DEF IndexNeverDangles
  <2>7. \A x \in Handles : Busy(x)' => handle'[x].m \in Manifests
    BY <1>4, <1>t DEF OpenIndex, Busy, HandleStates
  <2> QED BY <2>3, <2>6, <2>7
<1>5. ASSUME NEW h \in Handles, WriteIndex(h)
      PROVE  IInv'
  <2> DEFINE e == <<handle[h].kind, handle[h].m>>
  <2>0. handle[h].m \in Manifests /\ e \in Entries(Manifests)
    BY <1>5, <1>k, EntryType DEF WriteIndex, Busy
  <2>1. PICK f \in Landing(root.index, handle[h].idx, BOOLEAN) :
          root' = [root EXCEPT !.index = f]
    BY <1>5 DEF WriteIndex
  <2>2. f = Whole(handle[h].idx) \/ f = Garbled
    BY <2>1, LandingCases
  <2>3. handle[h].idx \in SUBSET Entries(Manifests)
    BY <1>k
  <2>4. f \in FileOf(SUBSET Entries(Manifests))
    BY <2>2, <2>3, WholeFile, ConstantFiles
  <2>5. Parses(f) => f.val = handle[h].idx
    BY <2>2, <2>3, WholeFile, NothingToParse
  <2>6. root' \in Roots(Manifests) /\ root'.index = f /\ Filed' = Filed
    BY <1>t, <2>1, <2>4 DEF Roots, Filed
  <2>7. handle' \in [Handles -> HandleStates]
    <3> DEFINE s == handle[h]
               b == [s EXCEPT !.pc = "ready", !.m = NoManifest]
    <3>1. s \in HandleStates
      BY <1>t
    <3>2. b \in HandleStates
      BY <3>1 DEF HandleStates
    <3>3. handle' = [handle EXCEPT ![h] = b]
      BY <1>5 DEF WriteIndex
    <3> QED BY <1>t, <3>2, <3>3
  <2>8. TypeOK'
    BY <1>5, <1>t, <2>0, <2>6, <2>7 DEF WriteIndex, TypeOK
  <2>9. \A x \in Handles : handle'[x].idx = handle[x].idx
    BY <1>5, <1>t DEF WriteIndex, HandleStates
  <2>10. IndexNeverDangles'
    BY <2>5, <2>6, <2>9 DEF IndexNeverDangles
  <2>11. \A x \in Handles : Busy(x)' => handle'[x].m \in Manifests
    BY <1>5, <1>t DEF WriteIndex, Busy, HandleStates
  <2> QED BY <2>8, <2>10, <2>11
<1>6. ASSUME NEW h \in Handles, Close(h) \/ Crash(h)
      PROVE  IInv'
  <2>1. handle' = [handle EXCEPT ![h] = Closed]
    BY <1>6 DEF Close, Crash
  <2>2. Closed \in HandleStates
    BY DEF Closed, HandleStates, Kinds
  <2>3. handle' \in [Handles -> HandleStates]
    BY <1>t, <2>1, <2>2
  <2>4. crashes' \in 0..MaxCrashes
    BY <1>6, <1>t, CrashesAssumption DEF Close, Crash
  <2>5. TypeOK'
    BY <1>6, <1>t, <2>3, <2>4 DEF Close, Crash, TypeOK
  <2>6. root' = root /\ Filed' = Filed
    BY <1>6 DEF Close, Crash, Filed
  <2>7. \A x \in Handles : handle'[x].idx \subseteq handle[x].idx
    BY <1>t, <2>1 DEF Closed
  <2>8. IndexNeverDangles'
    BY <2>6, <2>7 DEF IndexNeverDangles
  <2>9. \A x \in Handles : Busy(x)' => handle'[x].m \in Manifests
    BY <1>t, <2>1 DEF Busy, Closed
  <2> QED BY <2>5, <2>8, <2>9
<1>7. CASE UNCHANGED vars
  BY <1>7 DEF vars, TypeOK, Busy, IndexNeverDangles, Filed
<1> QED
  BY <1>1, <1>2, <1>3, <1>4, <1>5, <1>6, <1>7 DEF Next

\* ManifestStore keeps its types.
THEOREM TypeCorrect == Spec => []TypeOK
<1>1. Spec => []IInv
  BY InitIInv, NextIInv, PTL DEF Spec
<1>2. IInv => TypeOK
  BY DEF IInv
<1> QED BY <1>1, <1>2, PTL

\* No index, on disk or in memory, names a manifest that has no file:
\* put_bytes of both indexed backends writes the manifest first.
THEOREM IndexSafe == Spec => []IndexNeverDangles
<1>1. Spec => []IInv
  BY InitIInv, NextIInv, PTL DEF Spec
<1>2. IInv => IndexNeverDangles
  BY DEF IInv
<1> QED BY <1>1, <1>2, PTL

-----------------------------------------------------------------------------
(* What a fresh reader finds                                                *)

Indexing(h) == handle[h].pc \in {"openIndex", "writeIndex"}
PutOf(h)    == <<handle[h].kind, handle[h].m>>

\* Directories, index.json and entries are those of the backends in use.
ByUsed ==
  /\ \A h \in Handles : handle[h].pc # "closed" => handle[h].kind \in used
  /\ \A h \in Handles : Indexing(h) => HasIndex(handle[h].kind)
  /\ \A e \in acked : e[1] \in used
  /\ \A d \in {"manifests", "blocks"} :
       d \in root.dirs <=> \E k \in used : d \in DirsOf(k)
  /\ Exists(root.index) => \E k \in used : HasIndex(k)

\* A manifest that was written is whole, or is just being written again.
OnDisk(e) ==
  e \in root.blobs \/ \E h \in Handles : handle[h].pc = "writeBlob" /\ PutOf(h) = e

Written ==
  /\ \A e \in acked : OnDisk(e)
  /\ \A h \in Handles : Indexing(h) => OnDisk(PutOf(h))

\* Without overlap there is one store object at a time ...
Alone == \A g, h \in Handles :
           handle[g].pc # "closed" /\ handle[h].pc # "closed" => g = h

\* ... its copy of the index has every entry that was acknowledged, and so
\* has index.json except while that object rewrites it.
IndexedAcks == {e \in acked : HasIndex(e[1])}

Indexed ==
  /\ \A h \in Handles : handle[h].pc # "closed" /\ HasIndex(handle[h].kind) =>
       IndexedAcks \subseteq handle[h].idx
  /\ \A h \in Handles : Indexing(h) => PutOf(h) \in handle[h].idx
  /\ \A h \in Handles : handle[h].pc = "writeIndex" => root.index = Empty
  /\ (\A h \in Handles : handle[h].pc # "writeIndex") =>
       /\ Exists(root.index) => Parses(root.index)
       /\ IndexedAcks # {} => Parses(root.index) /\ IndexedAcks \subseteq root.index.val

Kept ==
  /\ ByUsed
  /\ crashes = 0 => Written
  /\ ~overlap => Alone
  /\ crashes = 0 /\ ~overlap => Indexed

LEMMA HandleType ==
  ASSUME IInv, NEW h \in Handles
  PROVE  /\ handle[h] \in HandleStates /\ handle[h].kind \in Kinds
         /\ handle[h].pc \in {"closed", "ready", "writeBlob", "openIndex", "writeIndex"}
         /\ handle[h].idx \in SUBSET Entries(Manifests)
  BY DEF IInv, TypeOK, HandleStates

\* What each step does to the object that takes it.
LEMMA OpenDoes ==
  ASSUME IInv, NEW h \in Handles, NEW kind \in UseKinds, Open(h, kind)
  PROVE  /\ handle[h].pc = "closed" /\ handle'[h].pc = "ready"
         /\ handle'[h].kind = kind /\ handle'[h].idx = LoadedIndex(root, kind)
         /\ \A x \in Handles : x # h => handle'[x] = handle[x]
         /\ root'.index = root.index /\ root'.blobs = root.blobs
         /\ root'.dirs = root.dirs \cup DirsOf(kind)
<1>1. root \in Roots(Manifests) /\ handle \in [Handles -> HandleStates]
  BY DEF IInv, TypeOK
<1>2. handle[h].pc = "closed" /\ root' = Opened(root, kind)
      /\ handle' = [handle EXCEPT ![h] =
           [pc |-> "ready", kind |-> kind, idx |-> LoadedIndex(root, kind), m |-> NoManifest]]
  BY DEF Open
<1>3. root'.index = root.index /\ root'.blobs = root.blobs
      /\ root'.dirs = root.dirs \cup DirsOf(kind)
  BY <1>1, <1>2 DEF Opened, Roots
<1> QED BY <1>1, <1>2, <1>3

LEMMA PutDoes ==
  ASSUME IInv, NEW h \in Handles, NEW m \in Manifests, PutBytes(h, m)
  PROVE  /\ handle[h].pc = "ready" /\ handle'[h].pc = "writeBlob"
         /\ handle'[h].kind = handle[h].kind /\ handle'[h].idx = handle[h].idx
         /\ handle'[h].m = m
         /\ \A x \in Handles : x # h => handle'[x] = handle[x]
         /\ root'.index = root.index /\ root'.dirs = root.dirs
         /\ root'.blobs = root.blobs \ {<<handle[h].kind, m>>}
<1>1. root \in Roots(Manifests) /\ handle \in [Handles -> HandleStates]
  BY DEF IInv, TypeOK
<1>2. handle[h].pc = "ready" /\ root' = BlobOpened(root, handle[h].kind, m)
      /\ handle' = [handle EXCEPT ![h] = [handle[h] EXCEPT !.pc = "writeBlob", !.m = m]]
  BY DEF PutBytes
<1>3. handle'[h] = [handle[h] EXCEPT !.pc = "writeBlob", !.m = m]
      /\ \A x \in Handles : x # h => handle'[x] = handle[x]
  BY <1>1, <1>2
<1> QED BY <1>1, <1>2, <1>3, HandleType DEF BlobOpened, Roots, HandleStates

LEMMA WriteDoes ==
  ASSUME IInv, NEW h \in Handles, WriteBlob(h)
  PROVE  /\ handle[h].pc = "writeBlob" /\ handle'[h].kind = handle[h].kind
         /\ \A x \in Handles : x # h => handle'[x] = handle[x]
         /\ root'.index = root.index /\ root'.dirs = root.dirs
         /\ root'.blobs = root.blobs \cup {PutOf(h)}
         /\ \/ /\ HasIndex(handle[h].kind) /\ acked' = acked
               /\ handle'[h].pc = "openIndex" /\ handle'[h].m = handle[h].m
               /\ handle'[h].idx = handle[h].idx \cup {PutOf(h)}
            \/ /\ ~HasIndex(handle[h].kind) /\ acked' = acked \cup {PutOf(h)}
               /\ handle'[h].pc = "ready" /\ handle'[h].idx = handle[h].idx
<1>1. root \in Roots(Manifests) /\ handle \in [Handles -> HandleStates]
  BY DEF IInv, TypeOK
<1>2. handle[h].pc = "writeBlob" /\ root' = BlobWritten(root, handle[h].kind, handle[h].m)
  BY DEF WriteBlob
<1>3. root'.index = root.index /\ root'.dirs = root.dirs
      /\ root'.blobs = root.blobs \cup {PutOf(h)}
  BY <1>1, <1>2 DEF BlobWritten, Roots, PutOf
<1>4. CASE HasIndex(handle[h].kind)
  <2>1. handle' = [handle EXCEPT ![h] = [handle[h] EXCEPT !.pc = "openIndex",
                                           !.idx = handle[h].idx \cup {PutOf(h)}]]
        /\ acked' = acked
    BY <1>4 DEF WriteBlob, PutOf
  <2>2. handle'[h] = [handle[h] EXCEPT !.pc = "openIndex",
                                       !.idx = handle[h].idx \cup {PutOf(h)}]
        /\ \A x \in Handles : x # h => handle'[x] = handle[x]
    BY <1>1, <2>1
  <2>3. /\ handle'[h].pc = "openIndex" /\ handle'[h].kind = handle[h].kind
        /\ handle'[h].idx = handle[h].idx \cup {PutOf(h)} /\ handle'[h].m = handle[h].m
    BY <2>2, HandleType DEF HandleStates
  <2> QED BY <1>2, <1>3, <1>4, <2>1, <2>2, <2>3
<1>5. CASE ~HasIndex(handle[h].kind)
  <2>1. handle' = [handle EXCEPT ![h] = [handle[h] EXCEPT !.pc = "ready", !.m = NoManifest]]
        /\ acked' = acked \cup {PutOf(h)}
    BY <1>5 DEF WriteBlob, PutOf
  <2>2. handle'[h] = [handle[h] EXCEPT !.pc = "ready", !.m = NoManifest]
        /\ \A x \in Handles : x # h => handle'[x] = handle[x]
    BY <1>1, <2>1
  <2>3. /\ handle'[h].pc = "ready" /\ handle'[h].kind = handle[h].kind
        /\ handle'[h].idx = handle[h].idx
    BY <2>2, HandleType DEF HandleStates
  <2> QED BY <1>2, <1>3, <1>5, <2>1, <2>2, <2>3
<1> QED BY <1>4, <1>5

LEMMA IndexDoes ==
  ASSUME IInv, NEW h \in Handles, OpenIndex(h) \/ WriteIndex(h)
  PROVE  /\ Indexing(h) /\ handle'[h].kind = handle[h].kind
         /\ handle'[h].idx = handle[h].idx
         /\ \A x \in Handles : x # h => handle'[x] = handle[x]
         /\ root'.blobs = root.blobs /\ root'.dirs = root.dirs
         /\ \/ /\ handle[h].pc = "openIndex" /\ handle'[h].pc = "writeIndex"
               /\ handle'[h].m = handle[h].m
               /\ root'.index = Empty /\ acked' = acked
            \/ /\ handle[h].pc = "writeIndex" /\ handle'[h].pc = "ready"
               /\ root'.index \in Landing(root.index, handle[h].idx, BOOLEAN)
               /\ acked' = acked \cup {PutOf(h)}
<1>1. root \in Roots(Manifests) /\ handle \in [Handles -> HandleStates]
  BY DEF IInv, TypeOK
<1>2. CASE OpenIndex(h)
  <2>1. handle' = [handle EXCEPT ![h] = [handle[h] EXCEPT !.pc = "writeIndex"]]
    BY <1>1, <1>2 DEF OpenIndex
  <2>2. handle'[h] = [handle[h] EXCEPT !.pc = "writeIndex"]
        /\ \A x \in Handles : x # h => handle'[x] = handle[x]
    BY <1>1, <2>1
  <2>3. root' = [root EXCEPT !.index = Empty] /\ handle[h].pc = "openIndex"
        /\ acked' = acked
    BY <1>2 DEF OpenIndex
  <2>4. root'.blobs = root.blobs /\ root'.dirs = root.dirs /\ root'.index = Empty
    BY <1>1, <2>3 DEF Roots
  <2>5. /\ handle'[h].pc = "writeIndex" /\ handle'[h].kind = handle[h].kind
        /\ handle'[h].idx = handle[h].idx /\ handle'[h].m = handle[h].m
    BY <2>2, HandleType DEF HandleStates
  <2> QED BY <2>2, <2>3, <2>4, <2>5 DEF Indexing
<1>3. CASE WriteIndex(h)
  <2>1. handle' = [handle EXCEPT ![h] = [handle[h] EXCEPT !.pc = "ready", !.m = NoManifest]]
    BY <1>3 DEF WriteIndex
  <2>2. handle'[h] = [handle[h] EXCEPT !.pc = "ready", !.m = NoManifest]
        /\ \A x \in Handles : x # h => handle'[x] = handle[x]
    BY <1>1, <2>1
  <2>3. PICK f \in Landing(root.index, handle[h].idx, BOOLEAN) :
          root' = [root EXCEPT !.index = f]
    BY <1>3 DEF WriteIndex
  <2>4. root'.blobs = root.blobs /\ root'.dirs = root.dirs /\ root'.index = f
    BY <1>1, <2>3 DEF Roots
  <2>5. /\ handle'[h].pc = "ready" /\ handle'[h].kind = handle[h].kind
        /\ handle'[h].idx = handle[h].idx
    BY <2>2, HandleType DEF HandleStates
  <2>6. handle[h].pc = "writeIndex" /\ acked' = acked \cup {PutOf(h)}
    BY <1>3 DEF WriteIndex, PutOf
  <2> QED BY <2>2, <2>3, <2>4, <2>5, <2>6 DEF Indexing
<1> QED BY <1>2, <1>3

LEMMA ClosedDoes ==
  ASSUME IInv, NEW h \in Handles, Close(h) \/ Crash(h)
  PROVE  /\ handle'[h].pc = "closed"
         /\ \A x \in Handles : x # h => handle'[x] = handle[x]
         /\ UNCHANGED <<root, used, acked, overlap>>
         /\ \/ handle[h].pc = "ready" /\ crashes' = crashes
            \/ crashes' # 0
<1>1. handle' = [handle EXCEPT ![h] = Closed]
  BY DEF Close, Crash
<1>2. handle'[h] = Closed /\ \A x \in Handles : x # h => handle'[x] = handle[x]
  BY <1>1 DEF IInv, TypeOK
<1>3. \/ handle[h].pc = "ready" /\ crashes' = crashes
      \/ crashes' # 0
  BY CrashesAssumption DEF Close, Crash, IInv, TypeOK
<1> QED BY <1>2, <1>3 DEF Close, Crash, Closed

\* A step of some object, or none.
LEMMA StepCases ==
  ASSUME [Next]_vars
  PROVE  \/ \E h \in Handles, kind \in UseKinds : Open(h, kind)
         \/ \E h \in Handles, m \in Manifests : PutBytes(h, m)
         \/ \E h \in Handles : WriteBlob(h)
         \/ \E h \in Handles : OpenIndex(h) \/ WriteIndex(h)
         \/ \E h \in Handles : Close(h) \/ Crash(h)
         \/ UNCHANGED vars
  BY DEF Next

\* Deaths and overlaps are not forgotten.
LEMMA StillSound ==
  ASSUME IInv, [Next]_vars
  PROVE  (crashes' = 0 => crashes = 0) /\ (overlap => overlap')
<1>1. crashes' = crashes \/ crashes' = crashes + 1
  BY DEF Next, Open, PutBytes, WriteBlob, OpenIndex, WriteIndex, Close, Crash, vars
<1>2. crashes \in 0..MaxCrashes
  BY DEF IInv, TypeOK
<1>3. overlap => overlap'
  BY DEF Next, Open, PutBytes, WriteBlob, OpenIndex, WriteIndex, Close, Crash, vars
<1> QED BY <1>1, <1>2, <1>3, CrashesAssumption

LEMMA AloneStep ==
  ASSUME IInv, ~overlap => Alone, [Next]_vars
  PROVE  ~overlap' => Alone'
<1>1. ASSUME NEW h \in Handles, NEW kind \in UseKinds, Open(h, kind)
      PROVE  ~overlap' => Alone'
  <2>1. ~overlap' => \A g \in Handles : handle[g].pc = "closed"
    BY <1>1 DEF Open
  <2> QED BY <1>1, <2>1, OpenDoes DEF Alone
<1>2. ASSUME NEW h \in Handles, NEW m \in Manifests, PutBytes(h, m)
      PROVE  ~overlap' => Alone'
  <2>1. overlap' = overlap
    BY <1>2 DEF PutBytes
  <2> QED BY <1>2, <2>1, PutDoes DEF Alone
<1>3. ASSUME NEW h \in Handles, WriteBlob(h) PROVE ~overlap' => Alone'
  <2>1. overlap' = overlap
    BY <1>3 DEF WriteBlob
  <2> QED BY <1>3, <2>1, WriteDoes DEF Alone
<1>4. ASSUME NEW h \in Handles, OpenIndex(h) \/ WriteIndex(h)
      PROVE  ~overlap' => Alone'
  <2>1. overlap' = overlap
    BY <1>4 DEF OpenIndex, WriteIndex
  <2> QED BY <1>4, <2>1, IndexDoes DEF Alone, Indexing
<1>5. ASSUME NEW h \in Handles, Close(h) \/ Crash(h) PROVE ~overlap' => Alone'
  BY <1>5, ClosedDoes DEF Alone
<1>6. CASE UNCHANGED vars
  BY <1>6 DEF vars, Alone
<1> QED BY <1>1, <1>2, <1>3, <1>4, <1>5, <1>6, StepCases

LEMMA ByUsedStep ==
  ASSUME IInv, ByUsed, [Next]_vars
  PROVE  ByUsed'
<1>k. \A h \in Handles : handle[h].pc # "closed" => handle[h].kind \in used
  BY DEF ByUsed
<1>1. ASSUME NEW h \in Handles, NEW kind \in UseKinds, Open(h, kind)
      PROVE  ByUsed'
  <2>1. used' = used \cup {kind} /\ acked' = acked
    BY <1>1 DEF Open
  <2>2. \A d \in {"manifests", "blocks"} :
          d \in root'.dirs <=> \E k \in used' : d \in DirsOf(k)
    BY <1>1, <2>1, OpenDoes DEF ByUsed
  <2> QED BY <1>1, <2>1, <2>2, OpenDoes DEF ByUsed, Indexing
<1>2. ASSUME NEW h \in Handles, NEW m \in Manifests, PutBytes(h, m)
      PROVE  ByUsed'
  <2>1. used' = used /\ acked' = acked
    BY <1>2 DEF PutBytes
  <2> QED BY <1>2, <2>1, PutDoes DEF ByUsed, Indexing
<1>3. ASSUME NEW h \in Handles, WriteBlob(h) PROVE ByUsed'
  <2>1. used' = used
    BY <1>3 DEF WriteBlob
  <2>2. \A e \in acked' : e[1] \in used
    BY <1>3, <1>k, WriteDoes DEF ByUsed, PutOf
  <2> QED BY <1>3, <2>1, <2>2, WriteDoes DEF ByUsed, Indexing
<1>4. ASSUME NEW h \in Handles, OpenIndex(h) \/ WriteIndex(h) PROVE ByUsed'
  <2>1. used' = used
    BY <1>4 DEF OpenIndex, WriteIndex
  <2>2. handle[h].kind \in used /\ HasIndex(handle[h].kind)
    BY <1>4, IndexDoes DEF ByUsed, Indexing
  <2>3. \A e \in acked' : e[1] \in used
    BY <1>4, <2>2, IndexDoes DEF ByUsed, PutOf
  <2>4. \A x \in Handles : /\ handle'[x].pc # "closed" => handle'[x].kind \in used
                           /\ Indexing(x)' => HasIndex(handle'[x].kind)
    BY <1>4, <2>2, IndexDoes DEF ByUsed, Indexing
  <2>5. root'.dirs = root.dirs
    BY <1>4, IndexDoes
  <2> QED BY <2>1, <2>2, <2>3, <2>4, <2>5 DEF ByUsed
<1>5. ASSUME NEW h \in Handles, Close(h) \/ Crash(h) PROVE ByUsed'
  BY <1>5, ClosedDoes DEF ByUsed, Indexing
<1>6. CASE UNCHANGED vars
  BY <1>6 DEF vars, ByUsed, Indexing
<1> QED BY <1>1, <1>2, <1>3, <1>4, <1>5, <1>6, StepCases

\* What is on disk stays there, unless a process dies.
LEMMA DiskStep ==
  ASSUME IInv, [Next]_vars, crashes' = 0, NEW e, OnDisk(e)
  PROVE  crashes = 0 /\ OnDisk(e)'
<1>0. crashes = 0
  BY StillSound
<1>1. ASSUME NEW h \in Handles, NEW kind \in UseKinds, Open(h, kind)
      PROVE  OnDisk(e)'
  BY <1>1, OpenDoes DEF OnDisk, PutOf
<1>2. ASSUME NEW h \in Handles, NEW m \in Manifests, PutBytes(h, m)
      PROVE  OnDisk(e)'
  <2>1. PutOf(h)' = <<handle[h].kind, m>> /\ handle'[h].pc = "writeBlob"
    BY <1>2, PutDoes DEF PutOf
  <2>2. \A x \in Handles : handle[x].pc = "writeBlob" =>
          handle'[x].pc = "writeBlob" /\ PutOf(x)' = PutOf(x)
    BY <1>2, PutDoes DEF PutOf
  <2>3. root'.blobs = root.blobs \ {PutOf(h)'}
    BY <1>2, <2>1, PutDoes
  <2> QED BY <2>1, <2>2, <2>3 DEF OnDisk
<1>3. ASSUME NEW h \in Handles, WriteBlob(h) PROVE OnDisk(e)'
  BY <1>3, WriteDoes DEF OnDisk, PutOf
<1>4. ASSUME NEW h \in Handles, OpenIndex(h) \/ WriteIndex(h) PROVE OnDisk(e)'
  BY <1>4, IndexDoes DEF OnDisk, PutOf, Indexing
<1>5. ASSUME NEW h \in Handles, Close(h) \/ Crash(h) PROVE OnDisk(e)'
  BY <1>0, <1>5, ClosedDoes DEF OnDisk, PutOf
<1>6. CASE UNCHANGED vars
  BY <1>6 DEF vars, OnDisk, PutOf
<1> QED BY <1>0, <1>1, <1>2, <1>3, <1>4, <1>5, <1>6, StepCases

LEMMA WrittenStep ==
  ASSUME IInv, crashes = 0 => Written, [Next]_vars, crashes' = 0
  PROVE  Written'
<1>0. crashes = 0
  BY StillSound
<1>d. \A e : OnDisk(e) => OnDisk(e)'
  BY DiskStep
<1> DEFINE Fresh(e) == OnDisk(e) \/ e \in root'.blobs
\* It is enough that every entry acknowledged or indexed now was on disk
\* before, or is now.
<1>s. ASSUME \A e \in acked' : Fresh(e),
             \A x \in Handles : Indexing(x)' => Fresh(PutOf(x)')
      PROVE  Written'
  <2>1. \A e : Fresh(e) => OnDisk(e)'
    BY <1>d DEF OnDisk
  <2> HIDE DEF Fresh
  <2> QED BY <1>s, <2>1 DEF Written
<1> HIDE DEF Fresh
<1>w. /\ \A e \in acked : Fresh(e)
      /\ \A x \in Handles : Indexing(x) => Fresh(PutOf(x))
  BY <1>0 DEF Written, Fresh
<1>1. ASSUME NEW h \in Handles, NEW kind \in UseKinds, Open(h, kind)
      PROVE  Written'
  <2>1. acked' = acked
    BY <1>1 DEF Open
  <2> QED BY <1>1, <1>s, <1>w, <2>1, OpenDoes DEF Indexing, PutOf
<1>2. ASSUME NEW h \in Handles, NEW m \in Manifests, PutBytes(h, m)
      PROVE  Written'
  <2>1. acked' = acked
    BY <1>2 DEF PutBytes
  <2> QED BY <1>2, <1>s, <1>w, <2>1, PutDoes DEF Indexing, PutOf
<1>3. ASSUME NEW h \in Handles, WriteBlob(h) PROVE Written'
  <2>1. Fresh(PutOf(h))
    BY <1>3, WriteDoes DEF Fresh
  <2>2. \A e \in acked' : Fresh(e)
    BY <1>3, <1>w, <2>1, WriteDoes
  <2>3. ASSUME NEW x \in Handles, Indexing(x)' PROVE Fresh(PutOf(x)')
    <3>1. CASE x = h
      BY <1>3, <2>1, <2>3, <3>1, WriteDoes DEF Indexing, PutOf
    <3>2. CASE x # h
      BY <1>3, <1>w, <2>3, <3>2, WriteDoes DEF Indexing, PutOf
    <3> QED BY <3>1, <3>2
  <2> QED BY <1>s, <2>2, <2>3
<1>4. ASSUME NEW h \in Handles, OpenIndex(h) \/ WriteIndex(h) PROVE Written'
  <2>1. Fresh(PutOf(h))
    BY <1>4, <1>w, IndexDoes
  <2>2. \A e \in acked' : Fresh(e)
    BY <1>4, <1>w, <2>1, IndexDoes
  <2>3. ASSUME NEW x \in Handles, Indexing(x)' PROVE Fresh(PutOf(x)')
    <3>1. CASE x = h
      BY <1>4, <2>1, <2>3, <3>1, IndexDoes DEF Indexing, PutOf
    <3>2. CASE x # h
      BY <1>4, <1>w, <2>3, <3>2, IndexDoes DEF Indexing, PutOf
    <3> QED BY <3>1, <3>2
  <2> QED BY <1>s, <2>2, <2>3
<1>5. ASSUME NEW h \in Handles, Close(h) \/ Crash(h) PROVE Written'
  BY <1>5, <1>s, <1>w, ClosedDoes DEF Indexing, PutOf
<1>6. CASE UNCHANGED vars
  BY <1>6, <1>s, <1>w DEF vars, Indexing, PutOf
<1> QED BY <1>1, <1>2, <1>3, <1>4, <1>5, <1>6, StepCases

\* The one object there is: what holds of the others holds of closed ones.
LEMMA IndexedStep ==
  ASSUME IInv, ByUsed, ~overlap => Alone,
         crashes = 0 /\ ~overlap => Indexed,
         [Next]_vars, crashes' = 0, ~overlap'
  PROVE  Indexed'
<1>0. crashes = 0 /\ ~overlap
  BY StillSound
<1>i. Indexed /\ Alone
  BY <1>0
<1> USE DEF Indexing, PutOf
<1>1. ASSUME NEW h \in Handles, NEW kind \in UseKinds, Open(h, kind)
      PROVE  Indexed'
  <2>1. \A g \in Handles : handle[g].pc = "closed"
    BY <1>1 DEF Open
  <2>2. IndexedAcks' = IndexedAcks
    BY <1>1 DEF Open, IndexedAcks
  <2>3. /\ Exists(root.index) => Parses(root.index)
        /\ IndexedAcks # {} => Parses(root.index) /\ IndexedAcks \subseteq root.index.val
    BY <1>i, <2>1 DEF Indexed
  <2>4. HasIndex(kind) => IndexedAcks \subseteq LoadedIndex(root, kind)
    BY <2>3 DEF LoadedIndex, Parses, Exists
  <2>5. \A x \in Handles : x # h => handle'[x].pc = "closed"
    BY <1>1, <2>1, OpenDoes
  <2> QED BY <1>1, <2>2, <2>3, <2>4, <2>5, OpenDoes DEF Indexed
<1>2. ASSUME NEW h \in Handles, NEW m \in Manifests, PutBytes(h, m)
      PROVE  Indexed'
  <2>1. IndexedAcks' = IndexedAcks
    BY <1>2 DEF PutBytes, IndexedAcks
  <2> QED BY <1>2, <1>i, <2>1, PutDoes DEF Indexed
<1>3. ASSUME NEW h \in Handles, WriteBlob(h) PROVE Indexed'
  <2>1. IndexedAcks' = IndexedAcks
    BY <1>3, WriteDoes DEF IndexedAcks
  <2>2. \A x \in Handles : handle'[x].pc # "writeIndex" <=> handle[x].pc # "writeIndex"
    BY <1>3, WriteDoes
  <2>3. \A x \in Handles : x # h => handle'[x] = handle[x]
    BY <1>3, WriteDoes
  <2>4. /\ handle[h].pc = "writeBlob" /\ handle'[h].kind = handle[h].kind
        /\ handle[h].idx \subseteq handle'[h].idx
        /\ Indexing(h)' => PutOf(h)' \in handle'[h].idx
        /\ root'.index = root.index
    BY <1>3, WriteDoes
  <2>5. \A x \in Handles : handle'[x].pc # "closed" /\ HasIndex(handle'[x].kind) =>
          IndexedAcks \subseteq handle'[x].idx
    BY <1>i, <2>3, <2>4 DEF Indexed
  <2> QED BY <1>i, <2>1, <2>2, <2>3, <2>4, <2>5 DEF Indexed
<1>4. ASSUME NEW h \in Handles, OpenIndex(h) \/ WriteIndex(h) PROVE Indexed'
  <2>1. \A x \in Handles : x # h => handle[x].pc = "closed" /\ handle'[x].pc = "closed"
    BY <1>4, <1>i, IndexDoes DEF Alone
  <2>2. /\ Indexing(h) /\ HasIndex(handle[h].kind)
        /\ IndexedAcks \subseteq handle[h].idx /\ PutOf(h) \in handle[h].idx
    BY <1>4, <1>i, IndexDoes DEF Indexed, ByUsed
  <2>3. CASE handle'[h].pc = "writeIndex"
    <3>1. IndexedAcks' = IndexedAcks /\ root'.index = Empty
      BY <1>4, <2>3, IndexDoes DEF IndexedAcks
    <3> QED BY <1>4, <2>1, <2>2, <2>3, <3>1, IndexDoes DEF Indexed
  <2>4. CASE handle'[h].pc # "writeIndex"
    <3>1. handle[h].pc = "writeIndex" /\ acked' = acked \cup {PutOf(h)}
          /\ root'.index \in Landing(root.index, handle[h].idx, BOOLEAN)
          /\ handle'[h].pc = "ready"
      BY <1>4, <2>4, IndexDoes
    <3>2. root.index = Empty
      BY <1>i, <3>1 DEF Indexed
    <3>3. root'.index = Whole(handle[h].idx)
      BY <3>1, <3>2 DEF Landing, Empty
    <3>4. Parses(root'.index) /\ root'.index.val = handle[h].idx
      BY <3>3 DEF Parses, Whole
    <3>5. IndexedAcks' \subseteq handle[h].idx
      BY <2>2, <3>1 DEF IndexedAcks
    <3> QED BY <1>4, <2>1, <3>1, <3>4, <3>5, IndexDoes DEF Indexed
  <2> QED BY <2>3, <2>4
<1>5. ASSUME NEW h \in Handles, Close(h) \/ Crash(h) PROVE Indexed'
  <2>1. handle[h].pc = "ready" /\ IndexedAcks' = IndexedAcks
    BY <1>0, <1>5, ClosedDoes DEF IndexedAcks
  <2> QED BY <1>5, <1>i, <2>1, ClosedDoes DEF Indexed
<1>6. CASE UNCHANGED vars
  BY <1>6, <1>i DEF vars, Indexed, IndexedAcks
<1> QED BY <1>1, <1>2, <1>3, <1>4, <1>5, <1>6, StepCases

LEMMA InitKept == Init => Kept
<1> SUFFICES ASSUME Init PROVE Kept
  OBVIOUS
<1>1. /\ \A h \in Handles : handle[h].pc = "closed"
      /\ acked = {} /\ used = {} /\ root.dirs = {} /\ ~Exists(root.index)
  BY DEF Init, Closed, EmptyRoot, Exists, Absent
<1>2. ByUsed
  BY <1>1 DEF ByUsed, Indexing
<1>3. Written
  BY <1>1 DEF Written, Indexing
<1>4. Alone
  BY <1>1 DEF Alone
<1>5. Indexed
  BY <1>1 DEF Indexed, Indexing, IndexedAcks
<1> QED BY <1>2, <1>3, <1>4, <1>5 DEF Kept

LEMMA NextKept == IInv /\ Kept /\ [Next]_vars => Kept'
  BY ByUsedStep, WrittenStep, AloneStep, IndexedStep DEF Kept

\* At rest and without a death, the root of one backend is detected as that
\* backend, opens, and has what was acknowledged.
LEMMA KeptReadable ==
  ASSUME IInv, Kept, AtRest, crashes = 0, NEW k \in Kinds, used = {k},
         overlap => ~HasIndex(k), NEW e \in acked
  PROVE  FreshFinds(root, e[2])
<1>1. root.dirs = DirsOf(k)
  <2>1. DirsOf(k) \subseteq {"manifests", "blocks"}
    BY DEF DirsOf
  <2>2. root.dirs \subseteq {"manifests", "blocks"}
    BY DEF IInv, TypeOK, Roots
  <2>3. \A d \in {"manifests", "blocks"} : d \in root.dirs <=> d \in DirsOf(k)
    BY DEF Kept, ByUsed
  <2> QED BY <2>1, <2>2, <2>3
<1>2. Exists(root.index) => HasIndex(k)
  BY DEF Kept, ByUsed
<1>3. e = <<k, e[2]>> /\ e[1] = k
  <2>1. e \in Entries(Manifests)
    BY DEF IInv, TypeOK
  <2> QED BY <2>1 DEF Entries, Kept, ByUsed
<1>4. e \in root.blobs
  BY DEF Kept, Written, OnDisk, AtRest
<1>5. HasIndex(k) => Parses(root.index) /\ e \in root.index.val
  BY <1>3 DEF Kept, Indexed, IndexedAcks, AtRest
<1>6. Parses(root.index) => Exists(root.index)
  BY DEF Parses, Exists
<1>7. Detected(root) = k
  BY <1>1, <1>2, <1>5, <1>6 DEF Detected, DirsOf, HasIndex, Kinds
<1>8. Opens(root, k)
  BY <1>5 DEF Opens
<1>9. HasIndex(k) => e \in LoadedIndex(root, k)
  BY <1>5, <1>6 DEF LoadedIndex
<1> QED BY <1>3, <1>4, <1>7, <1>8, <1>9 DEF FreshFinds, Finds

\* Every manifest whose put_bytes returned is found by a reader that detects
\* the backend and opens the root anew: for the plain file store however the
\* objects overlap, for the indexed backends when they follow one another.
THEOREM AcknowledgedIsReadable == Spec => []AckedReadable
<1>1. Spec => [](IInv /\ Kept)
  <2>1. Init => IInv /\ Kept
    BY InitIInv, InitKept
  <2>2. IInv /\ Kept /\ [Next]_vars => (IInv /\ Kept)'
    BY NextIInv, NextKept
  <2> QED BY <2>1, <2>2, PTL DEF Spec
<1>2. IInv /\ Kept => AckedReadable
  BY KeptReadable DEF AckedReadable
<1> QED BY <1>1, <1>2, PTL
=============================================================================
