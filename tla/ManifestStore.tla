--------------------------- MODULE ManifestStore ----------------------------
(***************************************************************************)
(* Several store objects (handles, of one process or of many) on one root  *)
(* directory.  An object of an indexed backend loads index.json when it is *)
(* built, keeps its own copy, and writes the whole copy back after every   *)
(* put (openwater_mk/storage.py); FileCAS keeps no index at all            *)
(* (oprow/resolution/cas.py).                                              *)
(***************************************************************************)
EXTENDS StoreLayout, Naturals

CONSTANTS
  Handles,     \* store objects
  Manifests,   \* manifests to put
  UseKinds,    \* backends the root may be opened with
  MaxCrashes   \* bound on processes dying

ASSUME KindsAssumption   == UseKinds \subseteq Kinds
ASSUME CrashesAssumption == MaxCrashes \in Nat

VARIABLES
  root,        \* the directory
  handle,      \* each object: pc, backend, _index, manifest being put
  used,        \* history: backends the root was opened with
  acked,       \* history: <<backend, manifest>> whose put_bytes returned
  overlap,     \* history: two objects existed at the same time
  crashes

vars == <<root, handle, used, acked, overlap, crashes>>

NoManifest == "none"

Closed == [pc |-> "closed", kind |-> "local", idx |-> {}, m |-> NoManifest]

HandleStates ==
  [pc : {"closed", "ready", "writeBlob", "openIndex", "writeIndex"},
   kind : Kinds, idx : SUBSET Entries(Manifests),
   m : Manifests \cup {NoManifest}]

TypeOK ==
  /\ root \in Roots(Manifests)
  /\ handle \in [Handles -> HandleStates]
  /\ used \subseteq UseKinds
  /\ acked \subseteq Entries(Manifests)
  /\ overlap \in BOOLEAN
  /\ crashes \in 0..MaxCrashes

Init ==
  /\ root = EmptyRoot
  /\ handle = [h \in Handles |-> Closed]
  /\ used = {} /\ acked = {} /\ overlap = FALSE /\ crashes = 0

\* store_from_spec.  A torn index.json raises out of the constructor.
Open(h, kind) ==
  /\ handle[h].pc = "closed"
  /\ Opens(root, kind)
  /\ root' = Opened(root, kind)
  /\ handle' = [handle EXCEPT ![h] =
       [pc |-> "ready", kind |-> kind, idx |-> LoadedIndex(root, kind),
        m |-> NoManifest]]
  /\ used' = used \cup {kind}
  /\ overlap' = (overlap \/ \E g \in Handles : handle[g].pc # "closed")
  /\ UNCHANGED <<acked, crashes>>

\* Mutant of PutBytes: the index entry is made before the manifest file.
IndexFirst(h, m) ==
  /\ handle[h].pc = "ready"
  /\ handle' = [handle EXCEPT ![h] =
       [handle[h] EXCEPT !.pc = "writeBlob", !.m = m,
                         !.idx = handle[h].idx \cup {<<handle[h].kind, m>>}]]
  /\ UNCHANGED <<root, used, acked, overlap, crashes>>

\* put_bytes: the manifest file first (truncated, then written) ...
PutBytes(h, m) ==
  /\ handle[h].pc = "ready"
  /\ root' = BlobOpened(root, handle[h].kind, m)
  /\ handle' = [handle EXCEPT ![h] = [@ EXCEPT !.pc = "writeBlob", !.m = m]]
  /\ UNCHANGED <<used, acked, overlap, crashes>>

\* Mutant of WriteBlob: the manifest is not entered in the index.
WriteUnindexed(h) ==
  LET kind == handle[h].kind IN
  /\ handle[h].pc = "writeBlob"
  /\ root' = BlobWritten(root, kind, handle[h].m)
  /\ handle' = [handle EXCEPT ![h].pc = IF HasIndex(kind) THEN "openIndex" ELSE "ready"]
  /\ acked' = IF HasIndex(kind) THEN acked ELSE acked \cup {<<kind, handle[h].m>>}
  /\ UNCHANGED <<used, overlap, crashes>>

\* ... then the copy of the index in memory, when there is one.
WriteBlob(h) ==
  LET kind == handle[h].kind
      m == handle[h].m IN
  /\ handle[h].pc = "writeBlob"
  /\ root' = BlobWritten(root, kind, m)
  /\ \/ /\ HasIndex(kind)
        /\ handle' = [handle EXCEPT ![h] =
             [handle[h] EXCEPT !.pc = "openIndex",
                               !.idx = handle[h].idx \cup {<<kind, m>>}]]
        /\ UNCHANGED acked
     \/ /\ ~HasIndex(kind)
        /\ handle' = [handle EXCEPT ![h] =
                         [@ EXCEPT !.pc = "ready", !.m = NoManifest]]
        /\ acked' = acked \cup {<<kind, m>>}
  /\ UNCHANGED <<used, overlap, crashes>>

\* ... and the whole of that copy to index.json (_flush_index).
OpenIndex(h) ==
  /\ handle[h].pc = "openIndex"
  /\ root' = [root EXCEPT !.index = Empty]
  /\ handle' = [handle EXCEPT ![h].pc = "writeIndex"]
  /\ UNCHANGED <<used, acked, overlap, crashes>>

WriteIndex(h) ==
  LET kind == handle[h].kind
      m == handle[h].m IN
  /\ handle[h].pc = "writeIndex"
  /\ \E f \in Landing(root.index, handle[h].idx, BOOLEAN) :
       root' = [root EXCEPT !.index = f]
  /\ handle' = [handle EXCEPT ![h] =
                         [@ EXCEPT !.pc = "ready", !.m = NoManifest]]
  /\ acked' = acked \cup {<<kind, m>>}
  /\ UNCHANGED <<used, overlap, crashes>>

\* The object goes away between two calls, or its process dies inside one.
Close(h) ==
  /\ handle[h].pc = "ready"
  /\ handle' = [handle EXCEPT ![h] = Closed]
  /\ UNCHANGED <<root, used, acked, overlap, crashes>>

Crash(h) ==
  /\ handle[h].pc \notin {"closed", "ready"}
  /\ crashes < MaxCrashes
  /\ crashes' = crashes + 1
  /\ handle' = [handle EXCEPT ![h] = Closed]
  /\ UNCHANGED <<root, used, acked, overlap>>

Next ==
  \E h \in Handles :
    \/ \E kind \in UseKinds : Open(h, kind)
    \/ \E m \in Manifests : PutBytes(h, m)
    \/ WriteBlob(h) \/ OpenIndex(h) \/ WriteIndex(h)
    \/ Close(h) \/ Crash(h)

Spec == Init /\ [][Next]_vars

-----------------------------------------------------------------------------
(* Properties                                                               *)

AtRest == \A h \in Handles : handle[h].pc \in {"closed", "ready"}

\* Every manifest whose put returned is found by a reader that detects the
\* backend and opens the root anew, as `openwater verify' does: after a
\* re-open always, and with several objects at a time when they keep no index.
\* (Two objects of an indexed backend lose each other's entries, a death in
\* the middle of a put tears a file, and a root used with two backends is
\* detected as one of them.)
AckedReadable ==
  /\ AtRest /\ crashes = 0
  /\ \E k \in Kinds : used = {k} /\ (overlap => ~HasIndex(k))
  => \A e \in acked : FreshFinds(root, e[2])

\* put_bytes writes the manifest before it indexes it: whatever the
\* interleaving and wherever a process dies, neither a readable index.json
\* nor any object's copy of it names a manifest that has no file.
Filed == root.blobs \cup root.torn

IndexNeverDangles ==
  /\ Parses(root.index) => root.index.val \subseteq Filed
  /\ \A h \in Handles : handle[h].idx \subseteq Filed
=============================================================================
