------------------------- MODULE DurableStoreProofs -------------------------
(***************************************************************************)
(* What an append has acknowledged, and what a reader can be given, is on  *)
(* the disk and whole: proofs about DurableStore for any number of         *)
(* processes, records and files, and any I/O errors, kills and power       *)
(* losses.                                                                 *)
(***************************************************************************)
EXTENDS DurableStore, TLAPS

\* Where an append still has its pending name, has synchronized the bytes
\* under it, and has linked them under their record code.
Holding == {"syncfile", "syncpending", "link", "syncdir", "unlink", "x.unlink"}
Synchronized == {"syncpending", "link", "syncdir", "unlink", "syncunlink", "x.unlink"}
Linking == {"syncdir", "unlink", "syncunlink"}
Duplicate == {"x.unlink", "x.syncpending", "x.read"}
Finding == {"x.syncfile", "x.syncdir"}

\* The bytes under a record code are those of a record of that code, and
\* they are on the disk before the code names them.
NamesInv ==
    \A n \in Names : fs.name[n] # 0 =>
       /\ fs.data[fs.name[n]] \in Bytes
       /\ CodeOf(fs.data[fs.name[n]]) = n
       /\ disk.data[fs.name[n]] = fs.data[fs.name[n]]

\* No name is ever taken back, and one that is not durable yet is still
\* accompanied by a pending name.
EntriesInv ==
    \A n \in Names :
       /\ disk.name[n] # 0 => disk.name[n] = fs.name[n]
       /\ fs.name[n] # disk.name[n] => fs.name[n] \in fs.temp

\* An append works on a file of its own.
PendingInv ==
    \A p \in Procs :
       /\ pc[p] \in {"closed", "ready", "write"} <=> pending[p] = 0
       /\ \A q \in Procs : pending[p] # 0 /\ pending[p] = pending[q] => p = q
       /\ \A n \in Names : pending[p] # 0 /\ fs.name[n] = pending[p]
            => pc[p] \in Linking /\ n = CodeOf(bytes[p])

\* What an append has done so far.
Progress(p) ==
    /\ pc[p] \notin {"closed", "ready"} => bytes[p] \in Bytes
    /\ pc[p] \in Holding => pending[p] \in fs.temp
    /\ pc[p] \in Holding \cup {"syncunlink"} => fs.data[pending[p]] = bytes[p]
    /\ pc[p] \in Synchronized => disk.data[pending[p]] = bytes[p]
    /\ pc[p] \in Linking => fs.name[CodeOf(bytes[p])] = pending[p]
    /\ pc[p] \in {"unlink", "syncunlink"} => disk.name[CodeOf(bytes[p])] = pending[p]
    /\ pc[p] \in Duplicate => fs.name[CodeOf(bytes[p])] # 0
    /\ pc[p] \in Finding => Holds(fs, CodeOf(bytes[p]), bytes[p])

ProgressInv == \A p \in Procs : Progress(p)

\* What is remembered was acknowledged, and what was acknowledged is durable.
AckedInv ==
    /\ \A p \in Procs : replay[p] \subseteq acked
    /\ \A b \in acked : Durable(b)

\* The inductive invariant, beside the types.
FilesInv == NamesInv /\ EntriesInv /\ PendingInv /\ ProgressInv /\ AckedInv

IInv == TypeOK /\ FilesInv

-----------------------------------------------------------------------------
(* Types *)

\* The directory operations turn an image into an image.
LEMMA ImageUpdates ==
    ASSUME NEW f \in Image, NEW d \in Image, NEW i \in File, NEW b \in Bytes \cup {Torn}
    PROVE  /\ Written(f, i, b) \in Image
           /\ \A n \in Names : Linked(f, n, i) \in Image
           /\ Unlinked(f, i) \in Image
           /\ FileSynced(d, f, i) \in Image /\ TempsSynced(d, f) \in Image
           /\ NamesSynced(d, f) \in Image
           /\ [d EXCEPT !.data[i] = Torn] \in Image
<1> USE DEF Image
<1>1. i \in 0 .. MaxFiles
  BY FilesAssumption DEF File
<1>2. Written(f, i, b) \in Image /\ Unlinked(f, i) \in Image
  BY DEF Written, Unlinked
<1>3. \A n \in Names : Linked(f, n, i) \in Image
  BY <1>1 DEF Linked
<1>4. FileSynced(d, f, i) \in Image /\ [d EXCEPT !.data[i] = Torn] \in Image
  BY DEF FileSynced
<1>5. TempsSynced(d, f) \in Image /\ NamesSynced(d, f) \in Image
  BY DEF TempsSynced, NamesSynced
<1> QED
  BY <1>2, <1>3, <1>4, <1>5

\* A power loss leaves an image in which each name is the one seen or the one
\* on the disk, and a file that was synchronized has its bytes.
LEMMA PowerLossImage ==
    ASSUME NEW f \in Image, NEW d \in Image, NEW g \in AfterPowerLoss(f, d)
    PROVE  /\ g \in Image
           /\ \A n \in Names : g.name[n] \in {f.name[n], d.name[n]}
           /\ \A i \in File : f.data[i] = d.data[i] => g.data[i] = f.data[i]
<1>1. PICK N \in SUBSET {n \in Names : f.name[n] # d.name[n]},
           T \in SUBSET ((f.temp \ d.temp) \cup (d.temp \ f.temp)),
           W \in SUBSET {i \in File : f.data[i] # d.data[i]} : g = Surviving(f, d, N, T, W)
  BY DEF AfterPowerLoss
<1>2. /\ [n \in Names |-> IF n \in N THEN f.name[n] ELSE d.name[n]] \in [Names -> 0 .. MaxFiles]
      /\ (f.temp \cap d.temp) \cup T \in SUBSET File
      /\ [i \in File |-> IF f.data[i] = d.data[i] \/ i \in W THEN f.data[i] ELSE Torn]
           \in [File -> Bytes \cup {Torn}]
  BY DEF Image
<1> QED
  BY <1>1, <1>2 DEF Image, Surviving

\* What the variables hold, taken from TypeOK.
LEMMA FileTypes ==
    ASSUME TypeOK, NEW p \in Procs
    PROVE  /\ bytes[p] \in Bytes \cup {Torn}
           /\ pending[p] # 0 => pending[p] \in File
           /\ \A n \in Names : fs.name[n] # 0 => fs.name[n] \in File
  BY DEF TypeOK, Image, File

\* The empty store is well typed.
LEMMA InitTypes == Init => TypeOK
  BY FilesAssumption DEF Init, TypeOK, EmptyImage, Image, File, Pc

\* A write that is cut short leaves an image.
LEMMA CutShortTypes ==
    ASSUME TypeOK, NEW p \in Procs, NEW f \in CutShort(p)
    PROVE  f \in Image
<1>1. CASE f = fs
  BY <1>1 DEF TypeOK
<1>2. CASE f # fs
  <2>1. PICK i \in File : f = Written(fs, i, Torn)
    BY <1>2 DEF CutShort
  <2> QED
    BY <2>1, ImageUpdates DEF TypeOK
<1> QED
  BY <1>1, <1>2

\* The end of an append keeps the types of what it resets.
LEMMA EndsTypes ==
    ASSUME TypeOK, NEW p \in Procs, NEW latch \in BOOLEAN, Ends(p, latch)
    PROVE  /\ pc' \in [Procs -> Pc] /\ bytes' \in [Procs -> Bytes \cup {Torn}]
           /\ pending' \in [Procs -> 0 .. MaxFiles] /\ latched' \in [Procs -> BOOLEAN]
  BY FilesAssumption DEF TypeOK, Ends, Pc

\* No step of an append, fault included, leaves the types.
LEMMA StepTypes ==
    ASSUME TypeOK, NEW p \in Procs, Step(p), ProgressInv, PendingInv
    PROVE  TypeOK'
<1>1. /\ bytes[p] \in Bytes \cup {Torn}
      /\ pending[p] # 0 => pending[p] \in File
      /\ \A n \in Names : fs.name[n] # 0 => fs.name[n] \in File
  BY FileTypes
<1>2. ASSUME NEW b \in Bytes, Append(p, b) \/ Replay(p, b)
      PROVE  TypeOK'
  BY <1>2 DEF TypeOK, Append, Replay, Pc
<1>3. ASSUME Open(p)
      PROVE  TypeOK'
  BY <1>3 DEF TypeOK, Open, Steps, Pc
<1>4. ASSUME WritePending(p)
      PROVE  TypeOK'
  <2>1. PICK i \in File : /\ fs' = Written(fs, i, bytes[p])
                          /\ disk' = [disk EXCEPT !.data[i] = Torn]
                          /\ pending' = [pending EXCEPT ![p] = i]
    BY <1>4 DEF WritePending
  <2>2. fs' \in Image /\ disk' \in Image
    BY <1>1, <2>1, ImageUpdates DEF TypeOK
  <2> QED
    BY <1>4, <2>1, <2>2, FilesAssumption DEF TypeOK, WritePending, Steps, File, Pc
<1>5. ASSUME SyncFile(p) \/ SyncPending(p) \/ SyncDirectory(p) \/ UnlinkPending(p)
             \/ UnlinkDuplicate(p) \/ SyncDuplicate(p)
      PROVE  TypeOK'
  <2>1. pending[p] \in File
    BY <1>1, <1>5 DEF PendingInv, SyncFile, SyncPending, SyncDirectory, UnlinkPending,
                      UnlinkDuplicate, SyncDuplicate, Steps
  <2>2. /\ fs' \in {fs, Unlinked(fs, pending[p])}
        /\ disk' \in {disk, FileSynced(disk, fs, pending[p]), TempsSynced(disk, fs), NamesSynced(disk, fs)}
    BY <1>5 DEF SyncFile, SyncPending, SyncDirectory, UnlinkPending, UnlinkDuplicate, SyncDuplicate
  <2>3. fs' \in Image /\ disk' \in Image
    <3>1. fs \in Image /\ disk \in Image
      BY DEF TypeOK
    <3>2. /\ Unlinked(fs, pending[p]) \in Image
          /\ FileSynced(disk, fs, pending[p]) \in Image
          /\ TempsSynced(disk, fs) \in Image /\ NamesSynced(disk, fs) \in Image
      BY <2>1, <3>1, ImageUpdates
    <3> QED
      BY <2>2, <3>1, <3>2
  <2>4. pc' \in [Procs -> Pc]
    BY <1>5 DEF TypeOK, SyncFile, SyncPending, SyncDirectory, UnlinkPending, UnlinkDuplicate,
                SyncDuplicate, Steps, Pc
  <2> QED
    BY <1>5, <2>3, <2>4 DEF TypeOK, SyncFile, SyncPending, SyncDirectory, UnlinkPending,
                            UnlinkDuplicate, SyncDuplicate
<1>6. ASSUME Link(p)
      PROVE  TypeOK'
  <2>1. pending[p] \in File /\ bytes[p] \in Bytes
    BY <1>1, <1>6 DEF PendingInv, ProgressInv, Progress, Link, Steps
  <2>2. CodeOf(bytes[p]) \in Names
    BY <2>1, CodeAssumption
  <2>3. Linked(fs, CodeOf(bytes[p]), pending[p]) \in Image
    BY <2>1, <2>2, ImageUpdates DEF TypeOK
  <2>4. fs' \in Image
    BY <1>6, <2>3 DEF TypeOK, Link
  <2>5. pc' \in [Procs -> Pc]
    BY <1>6 DEF TypeOK, Link, Steps, Pc
  <2> QED
    BY <1>6, <2>4, <2>5 DEF TypeOK, Link
<1>7. ASSUME SyncUnlink(p) \/ SyncExistingName(p)
      PROVE  TypeOK'
  <2>1. bytes[p] \in Bytes /\ pending[p] \in File
    BY <1>1, <1>7 DEF PendingInv, ProgressInv, Progress, SyncUnlink, SyncExistingName
  <2>2. disk' \in Image
    BY <1>7, <2>1, ImageUpdates DEF TypeOK, SyncUnlink, SyncExistingName
  <2>3. Ends(p, FALSE) /\ acked' = acked \cup {bytes[p]}
        /\ replay' = [replay EXCEPT ![p] = @ \cup {bytes[p]}] /\ fs' = fs
    BY <1>7 DEF SyncUnlink, SyncExistingName, Returns
  <2> QED
    BY <2>1, <2>2, <2>3, EndsTypes DEF TypeOK
<1>8. ASSUME ReadExisting(p)
      PROVE  TypeOK'
  <2>1. CASE Steps(p, "x.read", "x.syncfile") /\ UNCHANGED <<bytes, pending, latched>>
    BY <1>8, <2>1 DEF TypeOK, ReadExisting, Steps, Pc
  <2>2. CASE Ends(p, TRUE)
    BY <1>8, <2>2, EndsTypes DEF TypeOK, ReadExisting
  <2> QED
    BY <1>8, <2>1, <2>2 DEF ReadExisting
<1>9. ASSUME SyncExistingFile(p)
      PROVE  TypeOK'
  <2>1. Existing(p) \in File
    BY <1>1, <1>9, CodeAssumption
      DEF ProgressInv, Progress, SyncExistingFile, Steps, Finding, Holds, Existing
  <2>2. disk' \in Image /\ pc' \in [Procs -> Pc]
    BY <1>1, <1>9, <2>1, ImageUpdates DEF TypeOK, SyncExistingFile, Steps, Pc
  <2> QED
    BY <1>9, <2>2 DEF TypeOK, SyncExistingFile
<1>10. ASSUME IoError(p)
       PROVE  TypeOK'
  <2>1. fs' \in Image
    <3>1. \/ fs' \in CutShort(p)
          \/ fs' = fs
          \/ pending[p] # 0 /\ fs' = Unlinked(fs, pending[p])
          \/ pending[p] = 0 /\ fs' = Unlinked(fs, pending[p])
      BY <1>10 DEF IoError
    <3>2. pending[p] = 0 => Unlinked(fs, pending[p]) = fs
      BY DEF Unlinked, TypeOK, Image, File
    <3> QED
      BY <1>1, <3>1, <3>2, CutShortTypes, ImageUpdates DEF TypeOK
  <2>2. disk' \in Image
    <3>1. TempsSynced(disk, fs') \in Image
      BY <2>1 DEF TempsSynced, TypeOK, Image
    <3> QED
      BY <1>10, <3>1 DEF IoError, TypeOK
  <2>3. PICK latch \in BOOLEAN : Ends(p, latch)
    BY <1>10 DEF IoError
  <2> QED
    BY <1>10, <2>1, <2>2, <2>3, EndsTypes DEF TypeOK, IoError
<1>11. ASSUME Stop(p)
       PROVE  TypeOK'
  <2>1. fs' \in Image
    BY <1>11, CutShortTypes DEF Stop
  <2> QED
    BY <1>11, <2>1, FilesAssumption DEF TypeOK, Stop, Pc
<1> QED
  BY <1>2, <1>3, <1>4, <1>5, <1>6, <1>7, <1>8, <1>9, <1>10, <1>11 DEF Step

-----------------------------------------------------------------------------
(* Each step keeps the invariant.  A step that works under its own file    *)
(* disturbs no other append, since no two work on one file.                *)

\* A new root satisfies the invariant.
LEMMA InitInvariant == Init => IInv
<1> SUFFICES ASSUME Init PROVE IInv
  OBVIOUS
<1>1. TypeOK
  BY InitTypes
<1>2. FilesInv
  BY FilesAssumption DEF Init, FilesInv, NamesInv, EntriesInv, PendingInv, ProgressInv, Progress,
    AckedInv, EmptyImage, File, Holding, Synchronized, Linking, Duplicate, Finding
<1> QED
  BY <1>1, <1>2 DEF IInv

\* fsync of the pending file.
LEMMA SyncFileKeeps ==
    ASSUME IInv, NEW p \in Procs, SyncFile(p)
    PROVE  FilesInv'
<1> USE FilesAssumption, CodeAssumption
      DEF IInv, FilesInv, TypeOK, SyncFile, Steps, FileSynced
<1>1. NamesInv'
  BY DEF NamesInv, Image
<1>2. EntriesInv'
  BY DEF EntriesInv, Image
<1>3. PendingInv'
  BY DEF PendingInv, Linking
<1>4. ProgressInv'
  BY DEF ProgressInv, Progress, Holding, Synchronized, Linking, Duplicate, Finding, Holds, Image
<1>5. AckedInv'
  BY DEF AckedInv, EntriesInv, NamesInv, Durable, Holds, Image, File
<1> QED
  BY <1>1, <1>2, <1>3, <1>4, <1>5

\* fsync of the pending directory.
LEMMA SyncPendingKeeps ==
    ASSUME IInv, NEW p \in Procs, SyncPending(p)
    PROVE  FilesInv'
<1> USE FilesAssumption, CodeAssumption
      DEF IInv, FilesInv, TypeOK, SyncPending, Steps, TempsSynced
<1>1. NamesInv'
  BY DEF NamesInv, Image
<1>2. EntriesInv'
  BY DEF EntriesInv, Image
<1>3. PendingInv'
  BY DEF PendingInv, Linking
<1>4. ProgressInv'
  BY DEF ProgressInv, Progress, Holding, Synchronized, Linking, Duplicate, Finding, Holds
<1>5. AckedInv'
  BY DEF AckedInv, Durable, Holds
<1> QED
  BY <1>1, <1>2, <1>3, <1>4, <1>5

\* fsync of the records directory.
LEMMA SyncDirectoryKeeps ==
    ASSUME IInv, NEW p \in Procs, SyncDirectory(p)
    PROVE  FilesInv'
<1> USE FilesAssumption, CodeAssumption
      DEF IInv, FilesInv, TypeOK, SyncDirectory, Steps, NamesSynced
<1>1. NamesInv'
  BY DEF NamesInv, Image
<1>2. EntriesInv'
  BY DEF EntriesInv, Image
<1>3. PendingInv'
  BY DEF PendingInv, Linking
<1>4. ProgressInv'
  BY DEF ProgressInv, Progress, Holding, Synchronized, Linking, Duplicate, Finding, Holds
<1>5. AckedInv'
  BY DEF AckedInv, EntriesInv, NamesInv, Durable, Holds, Image, File
<1> QED
  BY <1>1, <1>2, <1>3, <1>4, <1>5

\* The pending name goes once the link is durable.
LEMMA UnlinkPendingKeeps ==
    ASSUME IInv, NEW p \in Procs, UnlinkPending(p)
    PROVE  FilesInv'
<1> USE FilesAssumption, CodeAssumption
      DEF IInv, FilesInv, TypeOK, UnlinkPending, Steps, Unlinked
<1>1. NamesInv'
  BY DEF NamesInv, Image
<1>2. EntriesInv'
  BY DEF EntriesInv, PendingInv, ProgressInv, Progress, Image, File, Linking
<1>3. PendingInv'
  BY DEF PendingInv, Linking
<1>4. ProgressInv'
  BY DEF ProgressInv, Progress, PendingInv, Holding, Synchronized, Linking, Duplicate, Finding, Holds, Image
<1>5. AckedInv'
  BY DEF AckedInv, Durable, Holds
<1> QED
  BY <1>1, <1>2, <1>3, <1>4, <1>5

\* The pending name of a duplicate goes: nothing was linked from it.
LEMMA UnlinkDuplicateKeeps ==
    ASSUME IInv, NEW p \in Procs, UnlinkDuplicate(p)
    PROVE  FilesInv'
<1> USE FilesAssumption, CodeAssumption
      DEF IInv, FilesInv, TypeOK, UnlinkDuplicate, Steps, Unlinked
<1>1. NamesInv'
  BY DEF NamesInv, Image
<1>2. EntriesInv'
  BY DEF EntriesInv, PendingInv, Image, File, Linking
<1>3. PendingInv'
  BY DEF PendingInv, Linking
<1>4. ProgressInv'
  BY DEF ProgressInv, Progress, PendingInv, Holding, Synchronized, Linking, Duplicate, Finding, Holds, Image
<1>5. AckedInv'
  BY DEF AckedInv, Durable, Holds
<1> QED
  BY <1>1, <1>2, <1>3, <1>4, <1>5

\* fsync of the pending directory after a duplicate.
LEMMA SyncDuplicateKeeps ==
    ASSUME IInv, NEW p \in Procs, SyncDuplicate(p)
    PROVE  FilesInv'
<1> USE FilesAssumption, CodeAssumption
      DEF IInv, FilesInv, TypeOK, SyncDuplicate, Steps, TempsSynced
<1>1. NamesInv'
  BY DEF NamesInv, Image
<1>2. EntriesInv'
  BY DEF EntriesInv, Image
<1>3. PendingInv'
  BY DEF PendingInv, Linking
<1>4. ProgressInv'
  BY DEF ProgressInv, Progress, Holding, Synchronized, Linking, Duplicate, Finding, Holds
<1>5. AckedInv'
  BY DEF AckedInv, Durable, Holds
<1> QED
  BY <1>1, <1>2, <1>3, <1>4, <1>5

\* fsync of a record another append stored.
LEMMA SyncExistingFileKeeps ==
    ASSUME IInv, NEW p \in Procs, SyncExistingFile(p)
    PROVE  FilesInv'
<1> USE FilesAssumption, CodeAssumption
      DEF IInv, FilesInv, TypeOK, SyncExistingFile, Steps, FileSynced, Existing
<1>1. NamesInv'
  BY DEF NamesInv, Image
<1>2. EntriesInv'
  BY DEF EntriesInv, Image
<1>3. PendingInv'
  BY DEF PendingInv, Linking
<1>4. ProgressInv'
  BY DEF ProgressInv, Progress, Holding, Synchronized, Linking, Duplicate, Finding, Holds
<1>5. AckedInv'
  BY DEF AckedInv, EntriesInv, NamesInv, Durable, Holds, Image, File
<1> QED
  BY <1>1, <1>2, <1>3, <1>4, <1>5

\* Opening a store, replaying a record and accepting one touch no file.
LEMMA IdleKeeps ==
    ASSUME IInv, NEW p \in Procs,
           Open(p) \/ \E b \in Bytes : Append(p, b) \/ Replay(p, b)
    PROVE  FilesInv'
<1> USE DEF IInv, FilesInv, TypeOK, Open, Append, Replay, Operational, Steps
<1>1. NamesInv' /\ EntriesInv'
  BY DEF NamesInv, EntriesInv
<1>2. PendingInv'
  BY DEF PendingInv, Pc, Linking
<1>3. ProgressInv'
  BY DEF ProgressInv, Progress, Pc, Holding, Synchronized, Linking, Duplicate, Finding, Holds
<1>4. AckedInv'
  BY DEF AckedInv, Durable, Holds
<1> QED
  BY <1>1, <1>2, <1>3, <1>4

\* The pending file is a file nothing refers to (createPrivateFile, O_EXCL).
LEMMA WriteKeeps ==
    ASSUME IInv, NEW p \in Procs, WritePending(p)
    PROVE  FilesInv'
<1> USE FilesAssumption, CodeAssumption DEF IInv, FilesInv, TypeOK
<1>1. PICK i \in File : /\ Unused(i)
                        /\ fs' = Written(fs, i, bytes[p])
                        /\ disk' = [disk EXCEPT !.data[i] = Torn]
                        /\ pending' = [pending EXCEPT ![p] = i]
  BY DEF WritePending
<1>2. /\ fs'.name = fs.name /\ fs'.temp = fs.temp \cup {i}
      /\ fs'.data = [fs.data EXCEPT ![i] = bytes[p]]
      /\ disk'.name = disk.name /\ disk'.data = [disk.data EXCEPT ![i] = Torn]
  BY <1>1 DEF Written, Image
<1>3. /\ \A q \in Procs : pending[q] # i
      /\ \A n \in Names : fs.name[n] # i /\ disk.name[n] # i
  BY <1>1 DEF Unused, Free
<1>4. /\ pc[p] = "write" /\ pc' = [pc EXCEPT ![p] = "syncfile"]
      /\ bytes' = bytes /\ replay' = replay /\ acked' = acked
  BY DEF WritePending, Steps
<1>5. NamesInv'
  BY <1>2, <1>3 DEF NamesInv, Image, File
<1>6. EntriesInv'
  BY <1>2 DEF EntriesInv
<1>7. PendingInv'
  BY <1>1, <1>2, <1>3, <1>4 DEF PendingInv, File, Linking
<1>8. ProgressInv'
  <2>1. Progress(p)'
    BY <1>1, <1>2, <1>4 DEF ProgressInv, Progress, Image, File, Holding, Synchronized, Linking, Duplicate, Finding
  <2>2. ASSUME NEW q \in Procs, q # p
        PROVE  Progress(q)'
    <3>1. /\ pc'[q] = pc[q] /\ bytes'[q] = bytes[q]
          /\ pending'[q] = pending[q] /\ pending[q] # i
      BY <1>1, <1>3, <1>4, <2>2
    <3>2. pending[q] # 0 => fs'.data[pending[q]] = fs.data[pending[q]] /\ disk'.data[pending[q]] = disk.data[pending[q]]
      BY <1>2, <3>1 DEF Image, File
    <3>3. bytes[q] \in Bytes /\ Holds(fs, CodeOf(bytes[q]), bytes[q]) => Holds(fs, CodeOf(bytes[q]), bytes[q])'
      BY <1>2, <1>3, <3>1 DEF Holds, Image, File
    <3> QED
      BY <1>2, <3>1, <3>2, <3>3 DEF ProgressInv, Progress, PendingInv, Holding, Synchronized, Linking, Duplicate, Finding
  <2> QED
    BY <2>1, <2>2 DEF ProgressInv
<1>9. AckedInv'
  BY <1>2, <1>3, <1>4 DEF AckedInv, Durable, Holds, Image, File
<1> QED
  BY <1>5, <1>6, <1>7, <1>8, <1>9

\* linkSync: the code names the pending file, which is synchronized, or it
\* is taken.
LEMMA LinkKeeps ==
    ASSUME IInv, NEW p \in Procs, Link(p)
    PROVE  FilesInv'
<1> DEFINE code == CodeOf(bytes[p])
           file == pending[p]
<1> USE FilesAssumption DEF IInv, FilesInv, TypeOK
<1>1. pc[p] = "link" /\ UNCHANGED <<disk, bytes, pending, replay, acked>>
  BY DEF Link, Steps
<1>2. /\ bytes[p] \in Bytes /\ code \in Names /\ file \in File /\ file \in fs.temp
      /\ fs.data[file] = bytes[p] /\ disk.data[file] = bytes[p]
  BY <1>1, CodeAssumption DEF PendingInv, ProgressInv, Progress, Holding, Synchronized, File
<1>3. \A m \in Names : fs.name[m] # file
  BY <1>1, <1>2 DEF PendingInv, Linking, File
<1>4. CASE fs.name[code] = 0
  <2>1. /\ fs'.name = [fs.name EXCEPT ![code] = file] /\ fs'.temp = fs.temp /\ fs'.data = fs.data
        /\ pc' = [pc EXCEPT ![p] = "syncdir"]
    BY <1>4 DEF Link, Linked, Steps, Image
  <2>2. NamesInv'
    BY <1>1, <1>2, <2>1 DEF NamesInv, Image
  <2>3. EntriesInv'
    BY <1>1, <1>2, <1>4, <2>1 DEF EntriesInv, Image
  <2>4. PendingInv'
    BY <1>1, <1>2, <2>1 DEF PendingInv, Linking, Image
  <2>5. ProgressInv'
    <3>1. Progress(p)'
      BY <1>1, <1>2, <2>1 DEF Progress, Holding, Synchronized, Linking, Duplicate, Finding, Image
    <3>2. ASSUME NEW q \in Procs, q # p
          PROVE  Progress(q)'
      <4>1. /\ pc'[q] = pc[q] /\ bytes'[q] = bytes[q] /\ pending'[q] = pending[q]
        BY <1>1, <2>1, <3>2
      <4>2. ASSUME NEW m \in Names, fs.name[m] # 0
            PROVE  fs'.name[m] = fs.name[m]
        BY <1>4, <2>1, <4>2 DEF Image
      <4> QED
        BY <1>1, <2>1, <4>1, <4>2, CodeAssumption
          DEF ProgressInv, Progress, PendingInv, Holding, Synchronized, Linking, Duplicate, Finding, Holds
    <3> QED
      BY <3>1, <3>2 DEF ProgressInv
  <2>6. AckedInv'
    BY <1>1 DEF AckedInv, Durable, Holds
  <2> QED
    BY <2>2, <2>3, <2>4, <2>5, <2>6
<1>5. CASE fs.name[code] # 0
  <2>1. fs' = fs /\ pc' = [pc EXCEPT ![p] = "x.unlink"]
    BY <1>5 DEF Link, Steps
  <2>2. NamesInv' /\ EntriesInv'
    BY <1>1, <2>1 DEF NamesInv, EntriesInv
  <2>3. PendingInv'
    BY <1>1, <1>3, <2>1 DEF PendingInv, Linking
  <2>4. ProgressInv'
    <3>1. Progress(p)'
      BY <1>1, <1>2, <1>5, <2>1 DEF Progress, Holding, Synchronized, Linking, Duplicate, Finding
    <3>2. \A q \in Procs : q # p => Progress(q)'
      BY <1>1, <2>1 DEF ProgressInv, Progress, Holds
    <3> QED
      BY <3>1, <3>2 DEF ProgressInv
  <2>5. AckedInv'
    BY <1>1 DEF AckedInv, Durable, Holds
  <2> QED
    BY <2>2, <2>3, <2>4, <2>5
<1> QED
  BY <1>4, <1>5

\* readExactFile: the record is there with these bytes, or the append fails.
LEMMA ReadExistingKeeps ==
    ASSUME IInv, NEW p \in Procs, ReadExisting(p)
    PROVE  FilesInv'
<1> USE FilesAssumption DEF IInv, FilesInv, TypeOK
<1>1. pc[p] = "x.read" /\ UNCHANGED <<fs, disk, replay, acked>>
  BY DEF ReadExisting
<1>2. NamesInv' /\ EntriesInv' /\ AckedInv'
  BY <1>1 DEF NamesInv, EntriesInv, AckedInv, Durable, Holds
<1>3. CASE ExistingMatches(p) /\ Steps(p, "x.read", "x.syncfile") /\ UNCHANGED <<bytes, pending, latched>>
  <2>1. PendingInv'
    BY <1>1, <1>3 DEF PendingInv, Steps, Linking
  <2>2. Holds(fs, CodeOf(bytes[p]), bytes[p])
    <3>1. bytes[p] \in Bytes /\ Existing(p) \in 0 .. MaxFiles
      BY <1>1, CodeAssumption DEF ProgressInv, Progress, Existing, Image
    <3>2. Links(fs, Existing(p)) = 1 /\ fs.data[Existing(p)] = bytes[p]
      BY <1>3 DEF ExistingMatches, Exact
    <3>3. Existing(p) # 0
      BY <1>1 DEF ProgressInv, Progress, Existing, Duplicate
    <3> QED
      BY <3>2, <3>3 DEF Holds, Existing
  <2>3. ProgressInv'
    BY <1>1, <1>3, <2>2 DEF ProgressInv, Progress, Steps, Holding, Synchronized, Linking, Duplicate, Finding, Holds
  <2> QED
    BY <1>2, <2>1, <2>3
<1>4. CASE Ends(p, TRUE)
  <2>1. PendingInv'
    BY <1>1, <1>4 DEF PendingInv, Ends, Linking
  <2>2. ProgressInv'
    BY <1>1, <1>4 DEF ProgressInv, Progress, Ends, Holding, Synchronized, Linking, Duplicate, Finding, Holds
  <2> QED
    BY <1>2, <2>1, <2>2
<1> QED
  BY <1>3, <1>4 DEF ReadExisting

\* An append returns, whichever way it found its record: the record is durable.
LEMMA ReturnKeeps ==
    ASSUME IInv, NEW p \in Procs, SyncUnlink(p) \/ SyncExistingName(p)
    PROVE  FilesInv'
<1> USE FilesAssumption DEF IInv, FilesInv, TypeOK
<1>1. /\ fs' = fs
      /\ disk'.name = disk.name \/ disk'.name = fs.name
      /\ disk'.data = disk.data
  BY DEF SyncUnlink, SyncExistingName, TempsSynced, NamesSynced, Image
<1>2. /\ pc' = [pc EXCEPT ![p] = "ready"] /\ bytes' = [bytes EXCEPT ![p] = Torn]
      /\ pending' = [pending EXCEPT ![p] = 0]
      /\ replay' = [replay EXCEPT ![p] = @ \cup {bytes[p]}]
      /\ acked' = acked \cup {bytes[p]}
  BY DEF SyncUnlink, SyncExistingName, Returns, Ends
<1>3. bytes[p] \in Bytes /\ CodeOf(bytes[p]) \in Names
  BY CodeAssumption DEF SyncUnlink, SyncExistingName, ProgressInv, Progress
<1>4. NamesInv' /\ EntriesInv'
  BY <1>1 DEF NamesInv, EntriesInv
<1>5. PendingInv'
  BY <1>1, <1>2 DEF PendingInv, Linking
<1>6. ProgressInv'
  <2>1. Progress(p)'
    BY <1>2 DEF Progress, Holding, Synchronized, Linking, Duplicate, Finding
  <2>2. ASSUME NEW q \in Procs, q # p
        PROVE  Progress(q)'
    <3>1. pc'[q] = pc[q] /\ bytes'[q] = bytes[q] /\ pending'[q] = pending[q]
      BY <1>2, <2>2
    <3>2. CodeOf(bytes[q]) \in Names /\ disk.name[CodeOf(bytes[q])] # 0 =>
            disk'.name[CodeOf(bytes[q])] = disk.name[CodeOf(bytes[q])]
      BY <1>1 DEF EntriesInv
    <3> QED
      BY <1>1, <3>1, <3>2, CodeAssumption
        DEF ProgressInv, Progress, PendingInv, Holding, Synchronized, Linking, Duplicate, Finding, Holds
  <2> QED
    BY <2>1, <2>2 DEF ProgressInv
<1>7. Holds(disk', CodeOf(bytes[p]), bytes[p])
  <2>1. CASE SyncUnlink(p)
    BY <1>1, <1>3, <2>1
      DEF SyncUnlink, TempsSynced, Image, ProgressInv, Progress, Holding, Synchronized, PendingInv, Holds
  <2>2. CASE SyncExistingName(p)
    <3>1. disk'.name = fs.name
      BY <2>2 DEF SyncExistingName, NamesSynced, Image
    <3>2. Holds(fs, CodeOf(bytes[p]), bytes[p])
      BY <2>2 DEF SyncExistingName, ProgressInv, Progress, Finding
    <3> QED
      BY <1>1, <1>3, <3>1, <3>2 DEF Holds, NamesInv
  <2> QED
    BY <2>1, <2>2
<1>8. AckedInv'
  <2>1. ASSUME NEW b \in acked
        PROVE  Holds(disk', CodeOf(b), b)
    <3>1. b \in Bytes /\ CodeOf(b) \in Names /\ Holds(disk, CodeOf(b), b)
      BY CodeAssumption DEF AckedInv, Durable
    <3> QED
      BY <1>1, <3>1 DEF Holds, EntriesInv
  <2> QED
    BY <1>2, <1>7, <2>1 DEF AckedInv, Durable
<1> QED
  BY <1>4, <1>5, <1>6, <1>8

\* A process gives up its append, with or without its pending name: nothing
\* it has linked is taken back.
LEMMA AbandonKeeps ==
    ASSUME IInv, NEW p \in Procs,
           fs'.name = fs.name, disk'.name = disk.name, disk'.data = disk.data,
           fs' \in Image,
           \A j \in fs.temp : j \in fs'.temp \/ (j = pending[p] /\ CleansUp(p)),
           \A j \in File : fs'.data[j] = fs.data[j] \/ Unused(j),
           NEW to \in {"closed", "ready"}, pc' = [pc EXCEPT ![p] = to],
           bytes' = [bytes EXCEPT ![p] = Torn], pending' = [pending EXCEPT ![p] = 0],
           replay' \in {replay, [replay EXCEPT ![p] = {}]}, acked' = acked
    PROVE  FilesInv'
<1> USE FilesAssumption DEF IInv, FilesInv, TypeOK
<1>1. \A n \in Names : fs.name[n] # 0 => fs.name[n] \in File /\ fs'.data[fs.name[n]] = fs.data[fs.name[n]]
  <2>1. \A n \in Names : fs.name[n] # 0 => fs.name[n] \in File
    BY DEF Image, File
  <2>2. \A n \in Names : ~Unused(fs.name[n])
    BY DEF Unused, Free
  <2> QED
    BY <2>1, <2>2
<1>2. NamesInv'
  BY <1>1 DEF NamesInv
<1>3. EntriesInv'
  <2>1. ASSUME NEW n \in Names, fs.name[n] # disk.name[n]
        PROVE  fs.name[n] \in fs'.temp
    <3>1. fs.name[n] \in fs.temp /\ fs.name[n] # 0
      BY <2>1 DEF EntriesInv, Image, File
    <3>2. CleansUp(p) => fs.name[n] # pending[p]
      BY <3>1 DEF CleansUp, PendingInv, Linking
    <3> QED
      BY <3>1, <3>2
  <2> QED
    BY <2>1 DEF EntriesInv
<1>4. PendingInv'
  BY DEF PendingInv, Linking
<1>5. ProgressInv'
  <2>1. Progress(p)'
    BY DEF Progress, Holding, Synchronized, Linking, Duplicate, Finding
  <2>2. ASSUME NEW q \in Procs, q # p
        PROVE  Progress(q)'
    <3>1. pc'[q] = pc[q] /\ bytes'[q] = bytes[q] /\ pending'[q] = pending[q]
      BY <2>2
    <3>2. pending[q] # 0 => pending[q] # pending[p] /\ pending[q] \in File /\ fs'.data[pending[q]] = fs.data[pending[q]]
      BY <2>2 DEF PendingInv, Unused, File
    <3>3. bytes[q] \in Bytes /\ Holds(fs, CodeOf(bytes[q]), bytes[q]) => Holds(fs', CodeOf(bytes[q]), bytes[q])
      BY <1>1, CodeAssumption DEF Holds
    <3> QED
      BY <3>1, <3>2, <3>3
        DEF ProgressInv, Progress, PendingInv, Holding, Synchronized, Linking, Duplicate, Finding
  <2> QED
    BY <2>1, <2>2 DEF ProgressInv
<1>6. AckedInv'
  BY DEF AckedInv, Durable, Holds
<1> QED
  BY <1>2, <1>3, <1>4, <1>5, <1>6

\* A write that is cut short touches only a file nothing refers to.
LEMMA CutShortImage ==
    ASSUME TypeOK, NEW p \in Procs, NEW f \in CutShort(p)
    PROVE  /\ f.name = fs.name /\ fs.temp \subseteq f.temp
           /\ \A j \in File : f.data[j] = fs.data[j] \/ Unused(j)
<1>1. CASE f = fs
  BY <1>1
<1>2. CASE f # fs
  <2>1. PICK i \in File : Unused(i) /\ f = Written(fs, i, Torn)
    BY <1>2 DEF CutShort
  <2> QED
    BY <2>1 DEF Written, TypeOK, Image
<1> QED
  BY <1>1, <1>2

\* An error or the end of the process abandons the append.
LEMMA FaultKeeps ==
    ASSUME IInv, NEW p \in Procs, IoError(p) \/ Stop(p), TypeOK'
    PROVE  FilesInv'
<1>1. TypeOK
  BY DEF IInv
<1>2. PICK to \in {"closed", "ready"} : pc' = [pc EXCEPT ![p] = to]
  BY DEF IoError, Stop, Ends
<1>3. /\ bytes' = [bytes EXCEPT ![p] = Torn] /\ pending' = [pending EXCEPT ![p] = 0]
      /\ replay' \in {replay, [replay EXCEPT ![p] = {}]} /\ acked' = acked
  BY DEF IoError, Stop, Ends
<1>4. fs' \in CutShort(p) \/ fs' = fs \/ (CleansUp(p) /\ fs' = Unlinked(fs, pending[p]))
  BY DEF IoError, Stop
<1>5. /\ fs'.name = fs.name
      /\ \A j \in fs.temp : j \in fs'.temp \/ (j = pending[p] /\ CleansUp(p))
      /\ \A j \in File : fs'.data[j] = fs.data[j] \/ Unused(j)
  <2>1. CASE fs' \in CutShort(p)
    BY <1>1, <2>1, CutShortImage
  <2>2. CASE fs' = fs
    BY <2>2
  <2>3. CASE CleansUp(p) /\ fs' = Unlinked(fs, pending[p])
    BY <1>1, <2>3 DEF Unlinked, TypeOK, Image
  <2> QED
    BY <1>4, <2>1, <2>2, <2>3
<1>6. disk'.name = disk.name /\ disk'.data = disk.data
  BY <1>1 DEF IoError, Stop, TempsSynced, TypeOK, Image
<1>7. fs' \in Image
  BY DEF TypeOK
<1> QED
  BY <1>2, <1>3, <1>5, <1>6, <1>7, AbandonKeeps

\* A power loss keeps every durable name with its bytes.
LEMMA PowerLossKeeps ==
    ASSUME IInv, PowerLoss
    PROVE  IInv'
<1>1. TypeOK /\ FilesInv
  BY DEF IInv
<1>2. /\ fs' \in Image
      /\ \A n \in Names : fs'.name[n] \in {fs.name[n], disk.name[n]}
      /\ \A i \in File : fs.data[i] = disk.data[i] => fs'.data[i] = fs.data[i]
  BY <1>1, PowerLossImage DEF PowerLoss, TypeOK
<1>3. /\ disk' = fs' /\ pc' = [q \in Procs |-> "closed"] /\ bytes' = [q \in Procs |-> Torn]
      /\ pending' = [q \in Procs |-> 0] /\ replay' = [q \in Procs |-> {}]
      /\ latched' = [q \in Procs |-> FALSE] /\ acked' = acked
  BY DEF PowerLoss
<1>4. TypeOK'
  BY <1>1, <1>2, <1>3, FilesAssumption DEF TypeOK, Pc
<1>5. \A n \in Names : fs'.name[n] # 0 =>
        /\ fs'.name[n] = fs.name[n] /\ fs.name[n] \in File
        /\ fs'.data[fs.name[n]] = fs.data[fs.name[n]]
  <2>1. \A n \in Names : fs.name[n] # 0 => fs.name[n] \in File
    BY <1>1 DEF TypeOK, Image, File
  <2>2. \A n \in Names : fs'.name[n] # 0 => fs'.name[n] = fs.name[n]
    BY <1>1, <1>2 DEF FilesInv, EntriesInv
  <2>3. \A n \in Names : fs.name[n] # 0 => disk.data[fs.name[n]] = fs.data[fs.name[n]]
    BY <1>1 DEF FilesInv, NamesInv
  <2> QED
    BY <1>2, <2>1, <2>2, <2>3
<1>6. NamesInv' /\ EntriesInv'
  BY <1>1, <1>3, <1>5 DEF FilesInv, NamesInv, EntriesInv
<1>7. PendingInv' /\ ProgressInv'
  BY <1>3 DEF PendingInv, ProgressInv, Progress, Holding, Synchronized, Linking, Duplicate, Finding
<1>8. AckedInv'
  <2>1. ASSUME NEW b \in acked
        PROVE  Holds(disk', CodeOf(b), b)
    <3>1. CodeOf(b) \in Names /\ Holds(disk, CodeOf(b), b)
      BY <1>1, CodeAssumption DEF TypeOK, FilesInv, AckedInv, Durable
    <3>2. fs.name[CodeOf(b)] = disk.name[CodeOf(b)] /\ disk.name[CodeOf(b)] # 0
      BY <1>1, <3>1 DEF FilesInv, EntriesInv, Holds
    <3>3. fs'.name[CodeOf(b)] = fs.name[CodeOf(b)]
      BY <1>2, <3>1, <3>2
    <3>4. disk.data[fs.name[CodeOf(b)]] = fs.data[fs.name[CodeOf(b)]]
      BY <1>1, <3>1, <3>2 DEF FilesInv, NamesInv
    <3> QED
      BY <1>3, <1>5, <3>1, <3>2, <3>3, <3>4 DEF Holds
  <2> QED
    BY <1>3, <2>1 DEF AckedInv, Durable
<1> QED
  BY <1>4, <1>6, <1>7, <1>8 DEF IInv, FilesInv

-----------------------------------------------------------------------------
(* Theorems *)

\* Every step keeps the invariant.
LEMMA NextInvariant == IInv /\ [Next]_vars => IInv'
<1> SUFFICES ASSUME IInv, [Next]_vars
             PROVE  IInv'
  OBVIOUS
<1>1. ASSUME NEW p \in Procs, Step(p)
      PROVE  IInv'
  <2>1. TypeOK'
    BY <1>1, StepTypes DEF IInv, FilesInv
  <2>2. FilesInv'
    BY <1>1, <2>1, IdleKeeps, WriteKeeps, SyncFileKeeps, SyncPendingKeeps, LinkKeeps, SyncDirectoryKeeps,
       UnlinkPendingKeeps, UnlinkDuplicateKeeps, SyncDuplicateKeeps, ReadExistingKeeps,
       SyncExistingFileKeeps, ReturnKeeps, FaultKeeps DEF Step
  <2> QED
    BY <2>1, <2>2 DEF IInv
<1>2. CASE PowerLoss
  BY <1>2, PowerLossKeeps
<1>3. CASE UNCHANGED vars
  BY <1>3 DEF vars, IInv, FilesInv, TypeOK, NamesInv, EntriesInv, PendingInv, ProgressInv, Progress,
              AckedInv, Durable
<1> QED
  BY <1>1, <1>2, <1>3 DEF Next

\* Names, entries, files at work and acknowledgements stay as the code
\* leaves them in every reachable state (createDurableNamespaceStore).
THEOREM InductiveInvariant == Spec => []IInv
<1>1. Init => IInv
  BY InitInvariant
<1>2. IInv /\ [Next]_vars => IInv'
  BY NextInvariant
<1> QED
  BY <1>1, <1>2, PTL DEF Spec

\* Every variable keeps its type through appends, faults and power losses.
THEOREM TypeCorrect == Spec => []TypeOK
<1>1. IInv => TypeOK
  BY DEF IInv
<1> QED
  BY <1>1, InductiveInvariant, PTL

\* A record whose append returned stays on the disk whole; a store that
\* accepts work lists only records that are already durable; no record code
\* ever names cut-short bytes or another record's bytes (append, read and
\* inventory of createDurableNamespaceStore).
THEOREM RecordsAreDurable == Spec => []RecordsDurable
<1>1. IInv => RecordsDurable
  <2> SUFFICES ASSUME IInv
               PROVE  RecordsDurable
    OBVIOUS
  <2>1. \A b \in acked : Durable(b)
    BY DEF IInv, FilesInv, AckedInv
  <2>2. ASSUME NEW n \in Names, fs.name[n] # 0
        PROVE  fs.data[fs.name[n]] \in {b \in Bytes : CodeOf(b) = n}
    BY <2>2 DEF IInv, FilesInv, NamesInv
  <2>3. ASSUME NEW n \in Names, fs.name[n] # 0, NEW p \in Procs, Operational(p)
        PROVE  disk.name[n] = fs.name[n] /\ Holds(disk, n, fs.data[fs.name[n]])
    <3>1. disk.name[n] = fs.name[n]
      BY <2>3 DEF IInv, FilesInv, EntriesInv, Operational
    <3> QED
      BY <2>3, <3>1 DEF IInv, FilesInv, NamesInv, Holds
  <2> QED
    BY <2>1, <2>2, <2>3 DEF RecordsDurable
<1> QED
  BY <1>1, InductiveInvariant, PTL
=============================================================================
