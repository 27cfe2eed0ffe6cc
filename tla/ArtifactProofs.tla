--------------------------- MODULE ArtifactProofs ---------------------------
(***************************************************************************)
(* Proofs about what is kept of an artifact: its object in the             *)
(* content-addressed store, and its rows in the evidence tables.           *)
(*                                                                         *)
(* The first part is about RestrictedCas: what publishNoReplace claims of  *)
(* an object stays true, one operation at most is told it created it, and  *)
(* a half-done publication stays visible, for any number of processes,     *)
(* operations, artifacts and files, and any I/O errors, kills and power    *)
(* losses.  The second is about EvidenceImport: what the preflight accepts *)
(* the triggers accept, an accepted bundle stays acceptable, and lineage   *)
(* is grounded, for any bundles.  The two share no constant, variable or   *)
(* lemma.                                                                  *)
(***************************************************************************)
EXTENDS RestrictedCas, EvidenceProps, FiniteSetTheorems, WellFoundedInduction, TLAPS


\* Where a call has created its temporary and not registered it, works on a
\* registered handle, has seen or made the final name, has made sure of the
\* final name on the disk, and may have removed its temporary.
Created == {"t.syncfile", "t.syncdir"}
Presented == {"v.read", "readtemp", "link", "readfinal", "syncfile", "syncdir", "unlink",
              "syncunlink", "reread"}
Named == {"readfinal", "syncfile", "syncdir", "unlink", "syncunlink", "reread"}
Settled == {"unlink", "syncunlink", "reread"}
Removed == {"syncunlink", "reread"}

\* A final name stands for its own artifact, whole on the disk.
NamesInv ==
    \A n \in Names : fs.name[n] # 0 =>
       fs.data[fs.name[n]] = n /\ disk.data[fs.name[n]] = n

\* No name is ever taken back, and one that is not durable yet still has its
\* temporary.
EntriesInv ==
    \A n \in Names :
       /\ disk.name[n] # 0 => disk.name[n] = fs.name[n]
       /\ fs.name[n] # disk.name[n] => fs.name[n] \in fs.temp

\* What a call has done so far.
Progress(p) ==
    /\ pc[p] = "closed" => preparations[p] = {}
    /\ pc[p] \in {"closed", "ready"} => handle[p] = NoHandle
    /\ pc[p] = "t.write" => handle[p].op \in Ops /\ handle[p].art \in Bytes /\ handle[p].file = 0
    /\ pc[p] \notin {"closed", "ready"} => ~latched[p]
    /\ pc[p] \in Created =>
         handle[p] \in Handle /\ handle[p].file \in fs.temp /\ fs.data[handle[p].file] = handle[p].art
    /\ pc[p] = "t.syncdir" => disk.data[handle[p].file] = handle[p].art
    /\ pc[p] \in Presented => handle[p] \in preparations[p]
    /\ pc[p] \in Named => fs.name[handle[p].art] # 0
    /\ pc[p] \in Settled => disk.name[handle[p].art] = fs.name[handle[p].art]

CallInv == \A p \in Procs : Progress(p)

\* A registered handle has a file of its own, whole on the disk, under its
\* temporary name until its publication or a latch.
HandlesInv ==
    \A p \in Procs : \A h \in preparations[p] :
       /\ fs.data[h.file] = h.art /\ disk.data[h.file] = h.art
       /\ ~latched[p] /\ ~(pc[p] \in Removed /\ h = handle[p]) => h.file \in fs.temp
       /\ \A q \in Procs : pc[q] \in Created => handle[q].file # h.file
       /\ \A q \in Procs : \A g \in preparations[q] : g.file = h.file => q = p /\ g = h

\* So has a temporary that is not registered yet.
CreatedInv ==
    \A p, q \in Procs :
       pc[p] \in Created /\ pc[q] \in Created /\ handle[p].file = handle[q].file => p = q

\* Who made the final name, and that nobody did so before.
CreatorInv ==
    \A p \in Procs :
       /\ disposition[p] # "none" <=> pc[p] \in Named
       /\ disposition[p] = "created_new" =>
            /\ fs.name[handle[p].art] = handle[p].file
            /\ \A r \in published : ~(r[2] = handle[p].art /\ r[3] = "created_new")

\* What has been published is on the disk, and created once.
PublishedInv ==
    /\ \A r \in published : disk.name[r[2]] # 0
    /\ OneCreator

\* The inductive invariant, beside the types.
CasInv ==
    NamesInv /\ EntriesInv /\ CallInv /\ HandlesInv /\ CreatedInv /\ CreatorInv /\ PublishedInv

IInv == TypeOK /\ CasInv

-----------------------------------------------------------------------------
(* Types *)

\* The directory operations turn an image into an image.
LEMMA ImageUpdates ==
    ASSUME NEW f \in Image, NEW d \in Image, NEW i \in File, NEW b \in Bytes \cup {Torn}
    PROVE  /\ Written(f, i, b) \in Image
           /\ \A n \in Names : Linked(f, n, i) \in Image
           /\ Unlinked(f, i) \in Image
           /\ FileSynced(d, f, i) \in Image /\ TempsSynced(d, f) \in Image
           /\ NamesSynced(d, f) \in Image
           /\ [d EXCEPT !.data[i] = Torn] \in Image
<1> USE DEF Image
<1>1. i \in 0 .. MaxFiles
  BY FilesAssumption DEF File
<1>2. Written(f, i, b) \in Image /\ Unlinked(f, i) \in Image
  BY DEF Written, Unlinked
<1>3. \A n \in Names : Linked(f, n, i) \in Image
  BY <1>1 DEF Linked
<1>4. FileSynced(d, f, i) \in Image /\ [d EXCEPT !.data[i] = Torn] \in Image
  BY DEF FileSynced
<1>5. TempsSynced(d, f) \in Image /\ NamesSynced(d, f) \in Image
  BY DEF TempsSynced, NamesSynced
<1> QED
  BY <1>2, <1>3, <1>4, <1>5

\* A power loss leaves an image in which each name is the one seen or the one
\* on the disk, and a file that was synchronized has its bytes.
LEMMA PowerLossImage ==
    ASSUME NEW f \in Image, NEW d \in Image, NEW g \in AfterPowerLoss(f, d)
    PROVE  /\ g \in Image
           /\ \A n \in Names : g.name[n] \in {f.name[n], d.name[n]}
           /\ \A i \in File : f.data[i] = d.data[i] => g.data[i] = f.data[i]
<1>1. PICK N \in SUBSET {n \in Names : f.name[n] # d.name[n]},
           T \in SUBSET ((f.temp \ d.temp) \cup (d.temp \ f.temp)),
           W \in SUBSET {i \in File : f.data[i] # d.data[i]} : g = Surviving(f, d, N, T, W)
  BY DEF AfterPowerLoss
<1>2. /\ [n \in Names |-> IF n \in N THEN f.name[n] ELSE d.name[n]] \in [Names -> 0 .. MaxFiles]
      /\ (f.temp \cap d.temp) \cup T \in SUBSET File
      /\ [i \in File |-> IF f.data[i] = d.data[i] \/ i \in W THEN f.data[i] ELSE Torn]
           \in [File -> Bytes \cup {Torn}]
  BY DEF Image
<1> QED
  BY <1>1, <1>2 DEF Image, Surviving

\* What the variables hold, taken from TypeOK.
LEMMA FileTypes ==
    ASSUME TypeOK, NEW p \in Procs
    PROVE  /\ fs \in Image /\ disk \in Image
           /\ handle[p] \in Work
           /\ handle[p].art \in Bytes \cup {Torn} /\ handle[p].file \in 0 .. MaxFiles
           /\ \A h \in preparations[p] :
                h \in Handle /\ h.op \in Ops /\ h.art \in Bytes /\ h.file \in File
           /\ \A n \in Names : fs.name[n] \in 0 .. MaxFiles
  BY DEF TypeOK, Image, Work, Handle

\* A handle is something a call can work on, and so is no handle.
LEMMA WorkTypes == Handle \subseteq Work /\ NoHandle \in Work
  BY FilesAssumption DEF Handle, Work, NoHandle, File

\* The provisioned layout is well typed.
LEMMA InitTypes == Init => TypeOK
  BY FilesAssumption, WorkTypes DEF Init, TypeOK, EmptyImage, Image, File, Pc

\* A write that is cut short leaves an image and touches only a file nothing
\* refers to.
LEMMA CutShortImage ==
    ASSUME TypeOK, NEW p \in Procs, NEW f \in CutShort(p)
    PROVE  /\ f \in Image
           /\ f.name = fs.name /\ fs.temp \subseteq f.temp
           /\ \A j \in File : f.data[j] = fs.data[j] \/ Unused(j)
<1>1. CASE f = fs
  BY <1>1 DEF TypeOK
<1>2. CASE f # fs
  <2>1. PICK i \in File : Unused(i) /\ f = Written(fs, i, Torn)
    BY <1>2 DEF CutShort
  <2>2. f \in Image
    BY <2>1, ImageUpdates DEF TypeOK
  <2> QED
    BY <2>1, <2>2 DEF Written, TypeOK, Image
<1> QED
  BY <1>1, <1>2

\* The end of a call keeps the types of what it resets.
LEMMA EndsTypes ==
    ASSUME TypeOK, NEW p \in Procs, NEW latch \in BOOLEAN, Ends(p, latch)
    PROVE  /\ pc' \in [Procs -> Pc] /\ handle' \in [Procs -> Work]
           /\ disposition' \in [Procs -> Dispositions \cup {"none"}]
           /\ latched' \in [Procs -> BOOLEAN]
  BY WorkTypes DEF TypeOK, Ends, Pc

\* A call that compares a file keeps the types.
LEMMA ComparesTypes ==
    ASSUME TypeOK, NEW p \in Procs, NEW i, NEW from \in Pc, NEW to \in Pc, Compares(p, from, to, i)
    PROVE  TypeOK'
<1>1. CASE Steps(p, from, to) /\ UNCHANGED <<handle, latched, disposition>>
  BY <1>1 DEF TypeOK, Compares, Steps
<1>2. CASE Ends(p, TRUE)
  BY <1>2, EndsTypes DEF TypeOK, Compares
<1> QED
  BY <1>1, <1>2 DEF Compares

\* No step of a call, fault included, leaves the types.
LEMMA StepTypes ==
    ASSUME TypeOK, CallInv, CreatorInv, NEW p \in Procs, Step(p)
    PROVE  TypeOK'
<1> USE FileTypes
<1>1. ASSUME Open(p) \/ InspectCrashState(p)
      PROVE  TypeOK'
  BY <1>1 DEF TypeOK, Open, InspectCrashState, Steps, Pc
<1>2. ASSUME NEW o \in Ops, NEW a \in Bytes, Prepare(p, o, a)
      PROVE  TypeOK'
  BY <1>2, FilesAssumption DEF TypeOK, Prepare, Steps, Pc, Work
<1>3. ASSUME WriteTemporary(p)
      PROVE  TypeOK'
  <2>1. PICK i \in File : /\ fs' = Written(fs, i, handle[p].art)
                          /\ disk' = [disk EXCEPT !.data[i] = Torn]
                          /\ handle' = [handle EXCEPT ![p].file = i]
    BY <1>3 DEF WriteTemporary
  <2>2. fs' \in Image /\ disk' \in Image
    BY <2>1, ImageUpdates
  <2>3. handle' \in [Procs -> Work]
    BY <2>1, FilesAssumption DEF TypeOK, Work, File
  <2> QED
    BY <1>3, <2>2, <2>3 DEF TypeOK, WriteTemporary, Steps, Pc
<1>4. ASSUME SyncTemporary(p)
      PROVE  TypeOK'
  <2>1. handle[p].file \in File
    BY <1>4 DEF CallInv, Progress, SyncTemporary, Steps, Created, Handle
  <2>2. disk' \in Image
    BY <1>4, <2>1, ImageUpdates DEF SyncTemporary
  <2> QED
    BY <1>4, <2>2 DEF TypeOK, SyncTemporary, Steps, Pc
<1>5. ASSUME FinishPrepare(p)
      PROVE  TypeOK'
  <2>1. handle[p] \in Handle
    BY <1>5 DEF CallInv, Progress, FinishPrepare, Created
  <2>2. disk' \in Image
    BY <1>5, <2>1, ImageUpdates DEF FinishPrepare, Handle
  <2>3. preparations' \in [Procs -> SUBSET Handle]
    BY <1>5, <2>1 DEF TypeOK, FinishPrepare
  <2> QED
    BY <1>5, <2>2, <2>3, EndsTypes DEF TypeOK, FinishPrepare
<1>6. ASSUME NEW h \in preparations[p], VerifyPrepared(p, h) \/ PublishNoReplace(p, h)
      PROVE  TypeOK'
  <2>1. h \in Work
    BY WorkTypes
  <2> QED
    BY <1>6, <2>1 DEF TypeOK, VerifyPrepared, PublishNoReplace, Steps, Pc
<1>7. ASSUME ReadPrepared(p)
      PROVE  TypeOK'
  <2>1. handle[p] \in Handle
    BY <1>7 DEF CallInv, Progress, ReadPrepared, Presented
  <2>2. [handle[p] EXCEPT !.verified = TRUE] \in Handle
    BY <2>1 DEF Handle
  <2>3. preparations' \in [Procs -> SUBSET Handle]
    <3>1. preparations[p] \in SUBSET Handle
      BY DEF TypeOK
    <3>2. (preparations[p] \ {handle[p]}) \cup {[handle[p] EXCEPT !.verified = TRUE]} \in SUBSET Handle
      BY <2>2, <3>1
    <3>3. \/ preparations' = preparations
          \/ preparations' = [preparations EXCEPT ![p] =
               (preparations[p] \ {handle[p]}) \cup {[handle[p] EXCEPT !.verified = TRUE]}]
      BY <1>7 DEF ReadPrepared
    <3> QED
      BY <3>2, <3>3 DEF TypeOK
  <2>4. PICK latch \in BOOLEAN : Ends(p, latch)
    BY <1>7 DEF ReadPrepared
  <2> QED
    BY <1>7, <2>3, <2>4, EndsTypes DEF TypeOK, ReadPrepared
<1>8. ASSUME ReadTemporary(p) \/ ReadFinal(p)
      PROVE  TypeOK'
  BY <1>8, ComparesTypes DEF ReadTemporary, ReadFinal, Pc
<1>9. ASSUME LinkFinal(p)
      PROVE  TypeOK'
  <2>1. handle[p].file \in File /\ handle[p].art \in Names
    BY <1>9, CasAssumption DEF CallInv, Progress, LinkFinal, Presented
  <2>2. Linked(fs, handle[p].art, handle[p].file) \in Image
    BY <2>1, ImageUpdates
  <2> QED
    BY <1>9, <2>2 DEF TypeOK, LinkFinal, Steps, Pc, Dispositions
<1>10. ASSUME SyncFinal(p) \/ SyncFanout(p) \/ UnlinkTemporary(p) \/ SyncUnlink(p)
       PROVE  TypeOK'
  <2>1. handle[p].file \in File /\ handle[p].art \in Names /\ Final(p) \in File
    BY <1>10, CasAssumption, FilesAssumption
      DEF CallInv, Progress, SyncFinal, SyncFanout, UnlinkTemporary, SyncUnlink, Steps, Presented,
          Named, Final, File
  <2>2. /\ fs' \in {fs, Unlinked(fs, handle[p].file)}
        /\ disk' \in {disk, FileSynced(disk, fs, Final(p)), TempsSynced(disk, fs), NamesSynced(disk, fs)}
    BY <1>10 DEF SyncFinal, SyncFanout, UnlinkTemporary, SyncUnlink
  <2>3. fs' \in Image /\ disk' \in Image
    <3>1. fs \in Image /\ disk \in Image
      OBVIOUS
    <3>2. /\ Unlinked(fs, handle[p].file) \in Image
          /\ FileSynced(disk, fs, Final(p)) \in Image
          /\ TempsSynced(disk, fs) \in Image /\ NamesSynced(disk, fs) \in Image
      BY <2>1, <3>1, ImageUpdates
    <3> QED
      BY <2>2, <3>1, <3>2
  <2>4. pc' \in [Procs -> Pc]
    BY <1>10 DEF TypeOK, SyncFinal, SyncFanout, UnlinkTemporary, SyncUnlink, Steps, Pc
  <2> QED
    BY <1>10, <2>3, <2>4 DEF TypeOK, SyncFinal, SyncFanout, UnlinkTemporary, SyncUnlink
<1>11. ASSUME FinishPublish(p)
       PROVE  TypeOK'
  <2>1. handle[p].op \in Ops /\ handle[p].art \in Bytes
    BY <1>11 DEF CallInv, Progress, FinishPublish, Presented
  <2>2. disposition[p] \in Dispositions
    BY <1>11 DEF TypeOK, CreatorInv, FinishPublish, Named
  <2>3. <<handle[p].op, handle[p].art, disposition[p]>> \in Ops \X Bytes \X Dispositions
    BY <2>1, <2>2
  <2>4. preparations' \in [Procs -> SUBSET Handle]
    BY <1>11 DEF TypeOK, FinishPublish
  <2>5. published' \subseteq Ops \X Bytes \X Dispositions
    BY <1>11, <2>3 DEF TypeOK, FinishPublish
  <2>6. PICK latch \in BOOLEAN : Ends(p, latch)
    BY <1>11 DEF FinishPublish
  <2> QED
    BY <1>11, <2>4, <2>5, <2>6, EndsTypes DEF TypeOK, FinishPublish
<1>12. ASSUME IoError(p)
       PROVE  TypeOK'
  <2>1. fs' \in Image
    BY <1>12, CutShortImage DEF IoError
  <2>2. PICK latch \in BOOLEAN : Ends(p, latch)
    BY <1>12 DEF IoError
  <2> QED
    BY <1>12, <2>1, <2>2, EndsTypes DEF TypeOK, IoError
<1>13. ASSUME Stop(p)
       PROVE  TypeOK'
  <2>1. fs' \in Image
    BY <1>13, CutShortImage DEF Stop
  <2> QED
    BY <1>13, <2>1, WorkTypes DEF TypeOK, Stop, Pc
<1> QED
  BY <1>1, <1>2, <1>3, <1>4, <1>5, <1>6, <1>7, <1>8, <1>9, <1>10, <1>11, <1>12, <1>13 DEF Step

-----------------------------------------------------------------------------
(* Each step keeps the invariant.                                          *)

\* The provisioned layout satisfies the invariant.
LEMMA InitInvariant == Init => IInv
<1> SUFFICES ASSUME Init PROVE IInv
  OBVIOUS
<1>1. TypeOK
  BY InitTypes
<1>2. CasInv
  BY FilesAssumption DEF Init, CasInv, NamesInv, EntriesInv, CallInv, Progress, HandlesInv, CreatedInv,
    CreatorInv, PublishedInv, OneCreator, EmptyImage, Created, Presented, Named, Settled
<1> QED
  BY <1>1, <1>2 DEF IInv

\* Opening a CAS: a store that finds temporaries starts latched.
LEMMA OpenKeeps ==
    ASSUME IInv, NEW p \in Procs, Open(p)
    PROVE  CasInv'
<1> USE FilesAssumption, CasAssumption
      DEF IInv, CasInv, TypeOK, Open, Steps
<1>1. NamesInv'
  BY DEF NamesInv
<1>2. EntriesInv'
  BY DEF EntriesInv
<1>3. CallInv'
  BY DEF CallInv, Progress, Created, Presented, Named, Settled
<1>4. HandlesInv'
  BY DEF HandlesInv, CallInv, Progress, Created, Removed
<1>5. CreatedInv'
  BY DEF CreatedInv, Created
<1>6. CreatorInv'
  BY DEF CreatorInv, Named
<1>7. PublishedInv'
  BY DEF PublishedInv, OneCreator
<1> QED
  BY <1>1, <1>2, <1>3, <1>4, <1>5, <1>6, <1>7

\* inspectCrashState only ever latches.
LEMMA InspectCrashStateKeeps ==
    ASSUME IInv, NEW p \in Procs, InspectCrashState(p)
    PROVE  CasInv'
<1> USE FilesAssumption, CasAssumption
      DEF IInv, CasInv, TypeOK, InspectCrashState, Steps
<1>1. NamesInv'
  BY DEF NamesInv
<1>2. EntriesInv'
  BY DEF EntriesInv
<1>3. CallInv'
  BY DEF CallInv, Progress
<1>4. HandlesInv'
  BY DEF HandlesInv
<1>5. CreatedInv'
  BY DEF CreatedInv, Created
<1>6. CreatorInv'
  BY DEF CreatorInv
<1>7. PublishedInv'
  BY DEF PublishedInv, OneCreator
<1> QED
  BY <1>1, <1>2, <1>3, <1>4, <1>5, <1>6, <1>7

\* fsync of the temporary.
LEMMA SyncTemporaryKeeps ==
    ASSUME IInv, NEW p \in Procs, SyncTemporary(p)
    PROVE  CasInv'
<1> USE FilesAssumption, CasAssumption
      DEF IInv, CasInv, TypeOK, SyncTemporary, Steps, FileSynced
<1>1. NamesInv'
  BY DEF NamesInv
<1>2. EntriesInv'
  BY DEF EntriesInv
<1>3. CallInv'
  BY DEF CallInv, Progress, Image, Created, Presented, Named, Settled
<1>4. HandlesInv'
  BY DEF HandlesInv, Created, Removed
<1>5. CreatedInv'
  BY DEF CreatedInv, Created
<1>6. CreatorInv'
  BY DEF CreatorInv, Named
<1>7. PublishedInv'
  BY DEF PublishedInv, OneCreator
<1> QED
  BY <1>1, <1>2, <1>3, <1>4, <1>5, <1>6, <1>7

\* fsync of the published object.
LEMMA SyncFinalKeeps ==
    ASSUME IInv, NEW p \in Procs, SyncFinal(p)
    PROVE  CasInv'
<1> USE FilesAssumption, CasAssumption
      DEF IInv, CasInv, TypeOK, SyncFinal, Steps, FileSynced, Final
<1>1. NamesInv'
  BY DEF NamesInv
<1>2. EntriesInv'
  BY DEF EntriesInv
<1>3. CallInv'
  BY DEF CallInv, Progress, Created, Presented, Named, Settled
<1>4. HandlesInv'
  BY DEF HandlesInv, Created, Removed
<1>5. CreatedInv'
  BY DEF CreatedInv, Created
<1>6. CreatorInv'
  BY DEF CreatorInv, Named
<1>7. PublishedInv'
  BY DEF PublishedInv, OneCreator
<1> QED
  BY <1>1, <1>2, <1>3, <1>4, <1>5, <1>6, <1>7

\* fsync of the fan-out directory: the final name becomes durable.
LEMMA SyncFanoutKeeps ==
    ASSUME IInv, NEW p \in Procs, SyncFanout(p)
    PROVE  CasInv'
<1> USE FilesAssumption, CasAssumption
      DEF IInv, CasInv, TypeOK, SyncFanout, Steps, NamesSynced
<1>1. NamesInv'
  BY DEF NamesInv
<1>2. EntriesInv'
  BY DEF EntriesInv
<1>3. CallInv'
  BY DEF CallInv, Progress, Created, Presented, Named, Settled
<1>4. HandlesInv'
  BY DEF HandlesInv, Created, Removed
<1>5. CreatedInv'
  BY DEF CreatedInv, Created
<1>6. CreatorInv'
  BY DEF CreatorInv, Named
<1>7. PublishedInv'
  BY DEF PublishedInv, EntriesInv, OneCreator, Image
<1> QED
  BY <1>1, <1>2, <1>3, <1>4, <1>5, <1>6, <1>7

\* The temporary name goes: its final name, when there is one, is durable.
LEMMA UnlinkTemporaryKeeps ==
    ASSUME IInv, NEW p \in Procs, UnlinkTemporary(p)
    PROVE  CasInv'
<1> USE FilesAssumption, CasAssumption
      DEF IInv, CasInv, TypeOK, UnlinkTemporary, Steps, Unlinked
<1>1. NamesInv'
  BY DEF NamesInv
<1>2. EntriesInv'
  BY DEF EntriesInv, NamesInv, CallInv, Progress, HandlesInv, Image, Handle, Settled, Presented
<1>3. CallInv'
  BY DEF CallInv, Progress, HandlesInv, CreatedInv, Image, Handle, Created, Presented, Named, Settled
<1>4. HandlesInv'
  BY DEF HandlesInv, CallInv, Progress, Created, Removed, Presented, Image, Handle
<1>5. CreatedInv'
  BY DEF CreatedInv, Created
<1>6. CreatorInv'
  BY DEF CreatorInv, Named
<1>7. PublishedInv'
  BY DEF PublishedInv, OneCreator
<1> QED
  BY <1>1, <1>2, <1>3, <1>4, <1>5, <1>6, <1>7

\* fsync of private-temp after the unlink.
LEMMA SyncUnlinkKeeps ==
    ASSUME IInv, NEW p \in Procs, SyncUnlink(p)
    PROVE  CasInv'
<1> USE FilesAssumption, CasAssumption
      DEF IInv, CasInv, TypeOK, SyncUnlink, Steps, TempsSynced
<1>1. NamesInv'
  BY DEF NamesInv
<1>2. EntriesInv'
  BY DEF EntriesInv
<1>3. CallInv'
  BY DEF CallInv, Progress, Created, Presented, Named, Settled
<1>4. HandlesInv'
  BY DEF HandlesInv, Created, Removed
<1>5. CreatedInv'
  BY DEF CreatedInv, Created
<1>6. CreatorInv'
  BY DEF CreatorInv, Named
<1>7. PublishedInv'
  BY DEF PublishedInv, OneCreator
<1> QED
  BY <1>1, <1>2, <1>3, <1>4, <1>5, <1>6, <1>7

\* Accepting a prepare touches no file.
LEMMA PrepareKeeps ==
    ASSUME IInv, NEW p \in Procs, NEW o \in Ops, NEW a \in Bytes, Prepare(p, o, a)
    PROVE  CasInv'
<1> USE FilesAssumption, CasAssumption
      DEF IInv, CasInv, TypeOK, Prepare, Operational, Steps
<1>1. NamesInv'
  BY DEF NamesInv
<1>2. EntriesInv'
  BY DEF EntriesInv
<1>3. CallInv'
  BY DEF CallInv, Progress, Created, Presented, Named, Settled
<1>4. HandlesInv'
  BY DEF HandlesInv, Created, Removed
<1>5. CreatedInv'
  BY DEF CreatedInv, Created
<1>6. CreatorInv'
  BY DEF CreatorInv, Named
<1>7. PublishedInv'
  BY DEF PublishedInv, OneCreator
<1> QED
  BY <1>1, <1>2, <1>3, <1>4, <1>5, <1>6, <1>7

\* A call that presents a registered handle touches no file.
LEMMA PresentKeeps ==
    ASSUME IInv, NEW p \in Procs, NEW h \in preparations[p],
           VerifyPrepared(p, h) \/ PublishNoReplace(p, h)
    PROVE  CasInv'
<1> USE DEF IInv, CasInv, TypeOK
<1>1. /\ UNCHANGED <<fs, disk, preparations, latched, disposition, published>>
      /\ pc[p] = "ready" /\ ~latched[p] /\ handle' = [handle EXCEPT ![p] = h]
  BY DEF VerifyPrepared, PublishNoReplace, Operational
<1>2. PICK to \in {"v.read", "readtemp"} : pc' = [pc EXCEPT ![p] = to]
  BY DEF VerifyPrepared, PublishNoReplace, Steps
<1>3. NamesInv' /\ EntriesInv'
  BY <1>1 DEF NamesInv, EntriesInv
<1>4. CallInv'
  <2>1. Progress(p)'
    BY <1>1, <1>2 DEF CallInv, Progress, Created, Presented, Named, Settled
  <2>2. \A q \in Procs : q # p => Progress(q)'
    BY <1>1, <1>2 DEF CallInv, Progress
  <2> QED
    BY <2>1, <2>2 DEF CallInv
<1>5. HandlesInv'
  <2>1. \A q \in Procs : pc'[q] \in Created => pc[q] \in Created /\ handle'[q] = handle[q]
    BY <1>1, <1>2 DEF Created
  <2>2. \A q \in Procs : \A g \in preparations[q] : pc[q] \in Removed /\ g = handle[q] => pc'[q] \in Removed /\ g = handle'[q]
    BY <1>1, <1>2 DEF Removed
  <2> QED
    BY <1>1, <2>1, <2>2 DEF HandlesInv
<1>6. CreatedInv'
  BY <1>1, <1>2 DEF CreatedInv, Created
<1>7. CreatorInv'
  BY <1>1, <1>2 DEF CreatorInv, Named
<1>8. PublishedInv'
  BY <1>1 DEF PublishedInv, OneCreator
<1> QED
  BY <1>3, <1>4, <1>5, <1>6, <1>7, <1>8

\* A call of p ends with its CAS latched or its handles gone: nothing it has
\* linked is taken back, and its temporaries stay.
LEMMA AbandonKeeps ==
    ASSUME IInv, NEW p \in Procs,
           fs'.name = fs.name, fs.temp \subseteq fs'.temp, disk' = disk,
           \A j \in File : fs'.data[j] = fs.data[j] \/ Unused(j),
           NEW to \in {"closed", "ready"}, pc' = [pc EXCEPT ![p] = to],
           NEW latch \in BOOLEAN, latched' = [latched EXCEPT ![p] = latch],
           handle' = [handle EXCEPT ![p] = NoHandle],
           disposition' = [disposition EXCEPT ![p] = "none"],
           published' = published,
           \/ preparations' = [preparations EXCEPT ![p] = {}]
           \/ /\ preparations' = preparations
              /\ to = "ready" /\ (latch \/ pc[p] = "t.write")
    PROVE  CasInv'
<1> USE FilesAssumption, CasAssumption DEF IInv, CasInv, TypeOK
<1>1. \A n \in Names : fs.name[n] # 0 => fs'.data[fs.name[n]] = fs.data[fs.name[n]]
  <2>1. \A n \in Names : fs.name[n] # 0 => fs.name[n] \in File
    BY DEF Image, File
  <2>2. \A n \in Names : ~Unused(fs.name[n])
    BY DEF Unused, Free
  <2> QED
    BY <2>1, <2>2
<1>2. \A q \in Procs : \A h \in preparations[q] : h.file \in File /\ fs'.data[h.file] = fs.data[h.file]
  BY FileTypes DEF Unused
<1>3. \A q \in Procs : handle[q].file \in File => fs'.data[handle[q].file] = fs.data[handle[q].file]
  BY DEF Unused
<1>4. \A q \in Procs : preparations'[q] \subseteq preparations[q]
  OBVIOUS
<1>5. /\ pc'[p] = to /\ handle'[p] = NoHandle /\ disposition'[p] = "none" /\ latched'[p] = latch
      /\ \A q \in Procs : q # p =>
           /\ pc'[q] = pc[q] /\ handle'[q] = handle[q] /\ disposition'[q] = disposition[q]
           /\ latched'[q] = latched[q] /\ preparations'[q] = preparations[q]
  OBVIOUS
<1>6. NamesInv' /\ EntriesInv'
  BY <1>1 DEF NamesInv, EntriesInv
<1>7. CallInv'
  <2>1. Progress(p)'
    BY <1>5 DEF Progress, Created, Presented, Named, Settled
  <2>2. ASSUME NEW q \in Procs, q # p
        PROVE  Progress(q)'
    <3>1. pc[q] \in Created => handle[q].file \in File
      BY DEF CallInv, Progress, Handle
    <3> QED
      BY <1>3, <1>5, <2>2, <3>1 DEF CallInv, Progress
  <2> QED
    BY <2>1, <2>2 DEF CallInv
<1>8. HandlesInv'
  <2> SUFFICES ASSUME NEW q \in Procs, NEW h \in preparations'[q]
               PROVE  /\ fs'.data[h.file] = h.art /\ disk'.data[h.file] = h.art
                      /\ ~latched'[q] /\ ~(pc'[q] \in Removed /\ h = handle'[q]) => h.file \in fs'.temp
                      /\ \A r \in Procs : pc'[r] \in Created => handle'[r].file # h.file
                      /\ \A r \in Procs : \A g \in preparations'[r] : g.file = h.file => r = q /\ g = h
    BY DEF HandlesInv
  <2>1. h \in preparations[q]
    BY <1>4
  <2>2. fs'.data[h.file] = h.art /\ disk'.data[h.file] = h.art
    BY <1>2, <2>1 DEF HandlesInv
  <2>3. \A r \in Procs : pc'[r] \in Created => handle'[r].file # h.file
    BY <1>5, <2>1 DEF HandlesInv, Created
  <2>4. \A r \in Procs : \A g \in preparations'[r] : g.file = h.file => r = q /\ g = h
    BY <1>4, <2>1 DEF HandlesInv
  <2>5. ~latched'[q] /\ ~(pc'[q] \in Removed /\ h = handle'[q]) => h.file \in fs'.temp
    <3>1. CASE q = p
      <4>1. ~latched'[q] => pc[p] = "t.write" /\ ~latched[p]
        BY <1>5, <3>1 DEF CallInv, Progress
      <4> QED
        BY <2>1, <3>1, <4>1 DEF HandlesInv, Removed
    <3>2. CASE q # p
      BY <1>5, <2>1, <3>2 DEF HandlesInv
    <3> QED
      BY <3>1, <3>2
  <2> QED
    BY <2>2, <2>3, <2>4, <2>5
<1>9. CreatedInv'
  BY <1>5 DEF CreatedInv, Created
<1>10. CreatorInv'
  BY <1>5 DEF CreatorInv, Named
<1>11. PublishedInv'
  BY DEF PublishedInv, OneCreator
<1> QED
  BY <1>6, <1>7, <1>8, <1>9, <1>10, <1>11

\* A call that finds the wrong bytes latches and leaves everything in place.
LEMMA RefusalKeeps ==
    ASSUME IInv, NEW p \in Procs, Ends(p, TRUE), UNCHANGED <<fs, disk, preparations, published>>
    PROVE  CasInv'
  BY AbandonKeeps DEF Ends

\* An I/O error latches, the end of the process drops its handles.
LEMMA FaultKeeps ==
    ASSUME IInv, NEW p \in Procs, IoError(p) \/ Stop(p)
    PROVE  CasInv'
<1>1. TypeOK
  BY DEF IInv
<1>2. fs' \in CutShort(p) /\ disk' = disk /\ published' = published
  BY DEF IoError, Stop
<1>3. /\ fs'.name = fs.name /\ fs.temp \subseteq fs'.temp
      /\ \A j \in File : fs'.data[j] = fs.data[j] \/ Unused(j)
  BY <1>1, <1>2, CutShortImage
<1>4. CASE IoError(p)
  <2>1. PICK latch \in BOOLEAN : Ends(p, latch) /\ (latch \/ pc[p] = "t.write")
    BY <1>4 DEF IoError
  <2> QED
    BY <1>2, <1>3, <1>4, <2>1, AbandonKeeps DEF Ends, IoError
<1>5. CASE Stop(p)
  BY <1>2, <1>3, <1>5, AbandonKeeps DEF Stop
<1> QED
  BY <1>4, <1>5

\* The temporary, or the object that was there first, is compared with the
\* artifact.
LEMMA CompareKeeps ==
    ASSUME IInv, NEW p \in Procs, ReadTemporary(p) \/ ReadFinal(p)
    PROVE  CasInv'
<1>1. UNCHANGED <<fs, disk, preparations, published>>
  BY DEF ReadTemporary, ReadFinal, Compares
<1>2. CASE Ends(p, TRUE)
  BY <1>1, <1>2, RefusalKeeps
<1>3. CASE ~Ends(p, TRUE)
  <2> USE DEF IInv, CasInv, TypeOK
  <2>1. UNCHANGED <<handle, latched, disposition>>
    BY <1>3 DEF ReadTemporary, ReadFinal, Compares
  <2>2. \/ pc[p] = "readtemp" /\ pc' = [pc EXCEPT ![p] = "link"]
        \/ pc[p] = "readfinal" /\ pc' = [pc EXCEPT ![p] = "syncfile"]
    BY <1>3 DEF ReadTemporary, ReadFinal, Compares, Steps
  <2>3. NamesInv' /\ EntriesInv'
    BY <1>1 DEF NamesInv, EntriesInv
  <2>4. CallInv'
    BY <1>1, <2>1, <2>2 DEF CallInv, Progress, Created, Presented, Named, Settled
  <2>5. HandlesInv'
    BY <1>1, <2>1, <2>2 DEF HandlesInv, Created, Removed
  <2>6. CreatedInv'
    BY <2>1, <2>2 DEF CreatedInv, Created
  <2>7. CreatorInv'
    BY <1>1, <2>1, <2>2 DEF CreatorInv, Named
  <2>8. PublishedInv'
    BY <1>1 DEF PublishedInv, OneCreator
  <2> QED
    BY <2>3, <2>4, <2>5, <2>6, <2>7, <2>8
<1> QED
  BY <1>2, <1>3

\* The temporary is a file nothing refers to (O_EXCL).
LEMMA WriteKeeps ==
    ASSUME IInv, NEW p \in Procs, WriteTemporary(p)
    PROVE  CasInv'
<1> USE FilesAssumption, CasAssumption DEF IInv, CasInv, TypeOK
<1>1. PICK i \in File : /\ Unused(i)
                        /\ fs' = Written(fs, i, handle[p].art)
                        /\ disk' = [disk EXCEPT !.data[i] = Torn]
                        /\ handle' = [handle EXCEPT ![p].file = i]
  BY DEF WriteTemporary
<1>2. /\ fs'.name = fs.name /\ fs'.temp = fs.temp \cup {i}
      /\ fs'.data = [fs.data EXCEPT ![i] = handle[p].art]
      /\ disk'.name = disk.name /\ disk'.data = [disk.data EXCEPT ![i] = Torn]
  BY <1>1 DEF Written, Image
<1>3. /\ \A n \in Names : fs.name[n] # i
      /\ \A q \in Procs : handle[q].file # i /\ \A h \in preparations[q] : h.file # i
  BY <1>1 DEF Unused, Free
<1>4. /\ pc[p] = "t.write" /\ pc' = [pc EXCEPT ![p] = "t.syncfile"]
      /\ UNCHANGED <<preparations, latched, disposition, published>>
  BY DEF WriteTemporary, Steps
<1>5. /\ handle[p].op \in Ops /\ handle[p].art \in Bytes /\ ~latched[p]
      /\ handle'[p] = [handle[p] EXCEPT !.file = i]
      /\ \A q \in Procs : q # p => handle'[q] = handle[q] /\ pc'[q] = pc[q]
  BY <1>1, <1>4 DEF CallInv, Progress
<1>6. handle'[p] \in Handle /\ handle'[p].file = i /\ handle'[p].art = handle[p].art
  BY <1>5, FileTypes DEF Handle, Work
<1>7. NamesInv' /\ EntriesInv'
  BY <1>2, <1>3 DEF NamesInv, EntriesInv, Image, File
<1>8. CallInv'
  <2>1. Progress(p)'
    BY <1>2, <1>4, <1>5, <1>6, FileTypes DEF Progress, Created, Presented, Named, Settled, Image
  <2>2. ASSUME NEW q \in Procs, q # p
        PROVE  Progress(q)'
    <3>1. pc[q] \in Created => handle[q].file \in File /\ handle[q].file # i
      BY <1>3 DEF CallInv, Progress, Handle
    <3>2. pc[q] \in Created => /\ fs'.data[handle[q].file] = fs.data[handle[q].file]
                               /\ disk'.data[handle[q].file] = disk.data[handle[q].file]
      BY <1>2, <3>1 DEF Image
    <3> QED
      BY <1>2, <1>4, <1>5, <2>2, <3>2 DEF CallInv, Progress, Created
  <2> QED
    BY <2>1, <2>2 DEF CallInv
<1>9. HandlesInv'
  <2>1. \A q \in Procs : \A h \in preparations[q] : h.file \in File /\ h.file # i
    BY <1>3, FileTypes
  <2>2. \A q \in Procs : \A h \in preparations[q] :
          fs'.data[h.file] = fs.data[h.file] /\ disk'.data[h.file] = disk.data[h.file]
    BY <1>2, <2>1 DEF Image
  <2>3. \A q \in Procs : \A h \in preparations[q] :
          ~(pc'[q] \in Removed /\ h = handle'[q]) => ~(pc[q] \in Removed /\ h = handle[q])
    BY <1>4, <1>5 DEF Removed
  <2>4. \A r \in Procs : pc'[r] \in Created => (r = p \/ (pc[r] \in Created /\ handle'[r] = handle[r]))
    BY <1>5
  <2> QED
    BY <1>2, <1>4, <1>6, <2>1, <2>2, <2>3, <2>4 DEF HandlesInv
<1>10. CreatedInv'
  BY <1>3, <1>5, <1>6 DEF CreatedInv
<1>11. CreatorInv'
  BY <1>2, <1>4, <1>5 DEF CreatorInv, Named
<1>12. PublishedInv'
  BY <1>2, <1>4 DEF PublishedInv, OneCreator
<1> QED
  BY <1>7, <1>8, <1>9, <1>10, <1>11, <1>12

\* The handle is registered once its temporary is whole on the disk.
LEMMA FinishPrepareKeeps ==
    ASSUME IInv, NEW p \in Procs, FinishPrepare(p)
    PROVE  CasInv'
<1> USE FilesAssumption, CasAssumption DEF IInv, CasInv, TypeOK
<1>1. /\ pc[p] = "t.syncdir" /\ fs' = fs /\ disk'.name = disk.name /\ disk'.data = disk.data
      /\ published' = published
      /\ preparations' = [preparations EXCEPT ![p] = @ \cup {handle[p]}]
      /\ pc' = [pc EXCEPT ![p] = "ready"] /\ handle' = [handle EXCEPT ![p] = NoHandle]
      /\ disposition' = [disposition EXCEPT ![p] = "none"]
      /\ latched' = [latched EXCEPT ![p] = FALSE]
  BY DEF FinishPrepare, Ends, TempsSynced, Image
<1>2. /\ ~latched[p] /\ handle[p].file \in fs.temp
      /\ fs.data[handle[p].file] = handle[p].art /\ disk.data[handle[p].file] = handle[p].art
  BY <1>1 DEF CallInv, Progress, Created
<1>3. NamesInv' /\ EntriesInv'
  BY <1>1 DEF NamesInv, EntriesInv
<1>4. CallInv'
  BY <1>1 DEF CallInv, Progress, Created, Presented, Named, Settled
<1>5. HandlesInv'
  <2>1. \A q \in Procs : \A h \in preparations'[q] : h \in preparations[q] \/ (q = p /\ h = handle[p])
    BY <1>1
  <2>2. \A q \in Procs : \A h \in preparations[q] : h.file # handle[p].file
    BY <1>1 DEF HandlesInv, Created
  <2>3. \A q \in Procs : pc'[q] \in Created => q # p /\ pc[q] \in Created /\ handle'[q] = handle[q]
    BY <1>1 DEF Created
  <2>4. \A q \in Procs : q # p /\ pc[q] \in Created => handle[q].file # handle[p].file
    BY <1>1 DEF CreatedInv, Created
  <2>5. \A q \in Procs : \A h \in preparations'[q] :
          ~latched'[q] /\ ~(pc'[q] \in Removed /\ h = handle'[q]) => h.file \in fs'.temp
    BY <1>1, <1>2, <2>1 DEF HandlesInv, Removed
  <2>6. \A q \in Procs : \A h \in preparations'[q] : fs'.data[h.file] = h.art /\ disk'.data[h.file] = h.art
    BY <1>1, <1>2, <2>1 DEF HandlesInv
  <2>7. \A q, r \in Procs : \A h \in preparations'[q], g \in preparations'[r] :
          g.file = h.file => r = q /\ g = h
    BY <2>1, <2>2 DEF HandlesInv
  <2>8. \A q, r \in Procs : \A h \in preparations'[q] : pc'[r] \in Created => handle'[r].file # h.file
    BY <2>1, <2>3, <2>4 DEF HandlesInv
  <2> QED
    BY <2>5, <2>6, <2>7, <2>8 DEF HandlesInv
<1>6. CreatedInv'
  BY <1>1 DEF CreatedInv, Created
<1>7. CreatorInv'
  BY <1>1 DEF CreatorInv, Named
<1>8. PublishedInv'
  BY <1>1 DEF PublishedInv, OneCreator
<1> QED
  BY <1>3, <1>4, <1>5, <1>6, <1>7, <1>8

\* verifyPrepared replaces the handle by the verified one, on the same file.
LEMMA ReadPreparedKeeps ==
    ASSUME IInv, NEW p \in Procs, ReadPrepared(p)
    PROVE  CasInv'
<1>1. CASE Ends(p, TRUE) /\ UNCHANGED preparations
  BY <1>1, RefusalKeeps DEF ReadPrepared
<1>2. CASE ~(Ends(p, TRUE) /\ UNCHANGED preparations)
  <2> DEFINE old == handle[p]
             new == [handle[p] EXCEPT !.verified = TRUE]
  <2> USE FilesAssumption, CasAssumption DEF IInv, CasInv, TypeOK
  <2>1. /\ pc[p] = "v.read" /\ UNCHANGED <<fs, disk, published>>
        /\ preparations' = [preparations EXCEPT ![p] = (@ \ {old}) \cup {new}]
        /\ pc' = [pc EXCEPT ![p] = "ready"] /\ handle' = [handle EXCEPT ![p] = NoHandle]
        /\ disposition' = [disposition EXCEPT ![p] = "none"]
        /\ latched' = [latched EXCEPT ![p] = FALSE]
    BY <1>2 DEF ReadPrepared, Ends
  <2>2. ~latched[p] /\ old \in preparations[p] /\ new.file = old.file /\ new.art = old.art
    BY <2>1 DEF CallInv, Progress, Presented, Work
  <2>3. NamesInv' /\ EntriesInv'
    BY <2>1 DEF NamesInv, EntriesInv
  <2>4. CallInv'
    BY <2>1 DEF CallInv, Progress, Created, Presented, Named, Settled
  <2>5. HandlesInv'
    <3>1. \A q \in Procs : \A h \in preparations'[q] :
            \/ h \in preparations[q] /\ (q = p => h # old)
            \/ q = p /\ h = new
      BY <2>1
    <3>2. \A q \in Procs : \A g \in preparations[q] : g.file = old.file => q = p /\ g = old
      BY <2>2 DEF HandlesInv
    <3>3. fs.data[old.file] = old.art /\ disk.data[old.file] = old.art /\ old.file \in fs.temp
      BY <2>1, <2>2 DEF HandlesInv, Removed
    <3>4. \A q \in Procs : pc'[q] \in Created => pc[q] \in Created /\ handle'[q] = handle[q]
      BY <2>1 DEF Created
    <3> HIDE DEF old, new
    <3>5. \A q \in Procs : \A h \in preparations'[q] :
            ~latched'[q] /\ ~(pc'[q] \in Removed /\ h = handle'[q]) => h.file \in fs'.temp
      BY <2>1, <2>2, <3>1, <3>3 DEF HandlesInv, Removed
    <3>6. \A q \in Procs : \A h \in preparations'[q] : fs'.data[h.file] = h.art /\ disk'.data[h.file] = h.art
      BY <2>1, <2>2, <3>1, <3>3 DEF HandlesInv
    <3>7. \A q, r \in Procs : \A h \in preparations'[q], g \in preparations'[r] :
            g.file = h.file => r = q /\ g = h
      BY <2>2, <3>1, <3>2 DEF HandlesInv
    <3>8. \A q, r \in Procs : \A h \in preparations'[q] : pc'[r] \in Created => handle'[r].file # h.file
      BY <2>2, <3>1, <3>4 DEF HandlesInv
    <3> QED
      BY <3>5, <3>6, <3>7, <3>8 DEF HandlesInv
  <2>6. CreatedInv'
    BY <2>1 DEF CreatedInv, Created
  <2>7. CreatorInv'
    BY <2>1 DEF CreatorInv, Named
  <2>8. PublishedInv'
    BY <2>1 DEF PublishedInv, OneCreator
  <2> QED
    BY <2>3, <2>4, <2>5, <2>6, <2>7, <2>8
<1> QED
  BY <1>1, <1>2

\* linkSync names the temporary or finds the object; whoever finds no object
\* has no predecessor.
LEMMA LinkFinalKeeps ==
    ASSUME IInv, NEW p \in Procs, LinkFinal(p)
    PROVE  CasInv'
<1> DEFINE art == handle[p].art
           file == handle[p].file
<1> USE FilesAssumption, CasAssumption DEF IInv, CasInv, TypeOK
<1>1. pc[p] = "link" /\ UNCHANGED <<disk, handle, preparations, latched, published>>
  BY DEF LinkFinal
<1>2. /\ art \in Names /\ file \in File /\ handle[p] \in preparations[p] /\ ~latched[p]
      /\ fs.data[file] = art /\ disk.data[file] = art /\ file \in fs.temp
  BY <1>1, FileTypes DEF CallInv, Progress, Presented, HandlesInv, Removed
<1>3. PICK to \in {"syncfile", "readfinal"} : pc' = [pc EXCEPT ![p] = to]
  BY DEF LinkFinal, Steps
<1>4. /\ \A n \in Names : fs.name[n] # 0 => fs'.name[n] = fs.name[n]
      /\ fs'.temp = fs.temp /\ fs'.data = fs.data /\ fs'.name[art] # 0
      /\ \A n \in Names : n # art => fs'.name[n] = fs.name[n]
      /\ fs.name[art] = 0 => fs'.name[art] = file
  BY <1>2 DEF LinkFinal, Linked, Image, File
<1>5. NamesInv'
  BY <1>1, <1>2, <1>4 DEF NamesInv
<1>6. EntriesInv'
  BY <1>1, <1>2, <1>4 DEF EntriesInv
<1>7. CallInv'
  <2>1. Progress(p)'
    BY <1>1, <1>2, <1>3, <1>4 DEF CallInv, Progress, Created, Presented, Named, Settled
  <2>2. ASSUME NEW q \in Procs, q # p
        PROVE  Progress(q)'
    <3>1. pc'[q] = pc[q]
      BY <1>3, <2>2
    <3>2. pc[q] \in Named => handle[q].art \in Names /\ fs.name[handle[q].art] # 0
      BY FileTypes DEF CallInv, Progress, Presented, Named
    <3>3. pc[q] \in Settled => pc[q] \in Named
      BY DEF Settled, Named
    <3> QED
      BY <1>1, <1>4, <3>1, <3>2, <3>3 DEF CallInv, Progress
  <2> QED
    BY <2>1, <2>2 DEF CallInv
<1>8. HandlesInv'
  BY <1>1, <1>3, <1>4 DEF HandlesInv, Created, Removed
<1>9. CreatedInv'
  BY <1>1, <1>3 DEF CreatedInv, Created
<1>10. CreatorInv'
  <2>1. fs.name[art] = 0 => \A r \in published : r[2] # art
    BY <1>2 DEF PublishedInv, EntriesInv
  <2>2. /\ disposition'[p] # "none" /\ pc'[p] \in Named
        /\ disposition'[p] = "created_new" => fs.name[art] = 0
    BY <1>3 DEF LinkFinal, Named
  <2>3. ASSUME NEW q \in Procs, q # p
        PROVE  /\ disposition'[q] = disposition[q] /\ pc'[q] = pc[q]
               /\ disposition[q] = "created_new" => fs'.name[handle[q].art] = fs.name[handle[q].art]
    <3>1. disposition'[q] = disposition[q] /\ pc'[q] = pc[q]
      BY <1>3, <2>3 DEF LinkFinal
    <3>2. pc[q] \in Named => handle[q].art \in Names /\ fs.name[handle[q].art] # 0
      BY FileTypes DEF CallInv, Progress, Presented, Named
    <3> QED
      BY <1>4, <3>1, <3>2 DEF CreatorInv
  <2> QED
    BY <1>1, <1>4, <2>1, <2>2, <2>3 DEF CreatorInv
<1>11. PublishedInv'
  BY <1>1 DEF PublishedInv, OneCreator
<1> QED
  BY <1>5, <1>6, <1>7, <1>8, <1>9, <1>10, <1>11

\* publishNoReplace returns: no other call holds the file that was linked, so
\* no other can have created the object.
LEMMA FinishPublishKeeps ==
    ASSUME IInv, NEW p \in Procs, FinishPublish(p)
    PROVE  CasInv'
<1>1. CASE Ends(p, TRUE) /\ UNCHANGED <<preparations, published>>
  BY <1>1, RefusalKeeps DEF FinishPublish
<1>2. CASE ~(Ends(p, TRUE) /\ UNCHANGED <<preparations, published>>)
  <2> DEFINE done == <<handle[p].op, handle[p].art, disposition[p]>>
  <2> USE FilesAssumption, CasAssumption DEF IInv, CasInv, TypeOK
  <2>1. /\ pc[p] = "reread" /\ UNCHANGED <<fs, disk>>
        /\ preparations' = [preparations EXCEPT ![p] = @ \ {handle[p]}]
        /\ published' = published \cup {done}
        /\ pc' = [pc EXCEPT ![p] = "ready"] /\ handle' = [handle EXCEPT ![p] = NoHandle]
        /\ disposition' = [disposition EXCEPT ![p] = "none"]
        /\ latched' = [latched EXCEPT ![p] = FALSE]
    BY <1>2 DEF FinishPublish, Ends
  <2>2. /\ ~latched[p] /\ handle[p] \in preparations[p] /\ handle[p].art \in Names
        /\ fs.name[handle[p].art] # 0 /\ disk.name[handle[p].art] = fs.name[handle[p].art]
    BY <2>1, FileTypes DEF CallInv, Progress, Presented, Named, Settled
  <2>3. NamesInv' /\ EntriesInv'
    BY <2>1 DEF NamesInv, EntriesInv
  <2>4. CallInv'
    <3>1. Progress(p)'
      BY <2>1 DEF Progress, Created, Presented, Named, Settled
    <3>2. \A q \in Procs : q # p => Progress(q)'
      BY <2>1 DEF CallInv, Progress
    <3> QED
      BY <3>1, <3>2 DEF CallInv
  <2>5. HandlesInv'
    <3>1. \A q \in Procs : \A h \in preparations'[q] : h \in preparations[q] /\ (q = p => h # handle[p])
      BY <2>1
    <3>2. \A q \in Procs : pc'[q] \in Created => pc[q] \in Created /\ handle'[q] = handle[q]
      BY <2>1 DEF Created
    <3>3. \A q \in Procs : \A h \in preparations'[q] :
            ~latched'[q] /\ ~(pc'[q] \in Removed /\ h = handle'[q]) => h.file \in fs'.temp
      BY <2>1, <2>2, <3>1 DEF HandlesInv, Removed
    <3> QED
      BY <2>1, <3>1, <3>2, <3>3 DEF HandlesInv
  <2>6. CreatedInv'
    BY <2>1 DEF CreatedInv, Created
  <2>7. CreatorInv'
    <3>1. ASSUME NEW q \in Procs, q # p, disposition[q] = "created_new", disposition[p] = "created_new",
                 handle[q].art = handle[p].art
          PROVE  FALSE
      <4>1. handle[q].file = handle[p].file
        BY <3>1 DEF CreatorInv
      <4>2. handle[q] \in preparations[q]
        BY <3>1 DEF CreatorInv, CallInv, Progress, Named, Presented
      <4> QED
        BY <2>2, <3>1, <4>1, <4>2 DEF HandlesInv
    <3>2. done[2] = handle[p].art /\ done[3] = disposition[p]
      OBVIOUS
    <3> HIDE DEF done
    <3> QED
      BY <2>1, <3>1, <3>2 DEF CreatorInv, Named
  <2>8. PublishedInv'
    <3>1. done[2] = handle[p].art /\ done[3] = disposition[p]
      OBVIOUS
    <3>2. \A r \in published : r[2] = done[2] /\ r[3] = "created_new" => done[3] # "created_new"
      BY <3>1 DEF CreatorInv
    <3> HIDE DEF done
    <3>3. OneCreator'
      BY <2>1, <3>2 DEF PublishedInv, OneCreator
    <3> QED
      BY <2>1, <2>2, <3>1, <3>3 DEF PublishedInv
  <2> QED
    BY <2>3, <2>4, <2>5, <2>6, <2>7, <2>8
<1> QED
  BY <1>1, <1>2

\* A power loss keeps every durable name with its bytes.
LEMMA PowerLossKeeps ==
    ASSUME IInv, PowerLoss
    PROVE  IInv'
<1>1. TypeOK /\ CasInv
  BY DEF IInv
<1>2. /\ fs' \in Image
      /\ \A n \in Names : fs'.name[n] \in {fs.name[n], disk.name[n]}
      /\ \A i \in File : fs.data[i] = disk.data[i] => fs'.data[i] = fs.data[i]
  BY <1>1, PowerLossImage DEF PowerLoss, TypeOK
<1>3. /\ disk' = fs' /\ pc' = [q \in Procs |-> "closed"] /\ handle' = [q \in Procs |-> NoHandle]
      /\ preparations' = [q \in Procs |-> {}] /\ latched' = [q \in Procs |-> FALSE]
      /\ disposition' = [q \in Procs |-> "none"] /\ published' = published
  BY DEF PowerLoss
<1>4. TypeOK'
  BY <1>1, <1>2, <1>3, WorkTypes DEF TypeOK, Pc
<1>5. NamesInv'
  <2>1. \A n \in Names : fs.name[n] # 0 => fs.name[n] \in File
    BY <1>1 DEF TypeOK, Image, File
  <2>2. \A n \in Names : fs'.name[n] # 0 => fs'.name[n] = fs.name[n]
    BY <1>1, <1>2 DEF CasInv, EntriesInv
  <2> QED
    BY <1>1, <1>2, <1>3, <2>1, <2>2 DEF CasInv, NamesInv
<1>6. EntriesInv'
  BY <1>3 DEF EntriesInv
<1>7. CallInv' /\ HandlesInv' /\ CreatedInv' /\ CreatorInv'
  BY <1>3 DEF CallInv, Progress, HandlesInv, CreatedInv, CreatorInv, Created, Presented, Named, Settled
<1>8. PublishedInv'
  <2>1. \A r \in published : r[2] \in Names /\ disk.name[r[2]] # 0
    BY <1>1, CasAssumption DEF TypeOK, CasInv, PublishedInv
  <2>2. \A n \in Names : disk.name[n] # 0 => fs'.name[n] # 0
    BY <1>1, <1>2 DEF CasInv, EntriesInv
  <2> QED
    BY <1>1, <1>3, <2>1, <2>2 DEF CasInv, PublishedInv, OneCreator
<1> QED
  BY <1>4, <1>5, <1>6, <1>7, <1>8 DEF IInv, CasInv

-----------------------------------------------------------------------------
(* Theorems *)

\* Every step keeps the invariant.
LEMMA NextInvariant == IInv /\ [Next]_vars => IInv'
<1> SUFFICES ASSUME IInv, [Next]_vars
             PROVE  IInv'
  OBVIOUS
<1>1. ASSUME NEW p \in Procs, Step(p)
      PROVE  IInv'
  <2>1. TypeOK'
    BY <1>1, StepTypes DEF IInv, CasInv
  <2>2. CasInv'
    BY <1>1, OpenKeeps, InspectCrashStateKeeps, PrepareKeeps, WriteKeeps, SyncTemporaryKeeps,
       FinishPrepareKeeps, PresentKeeps, ReadPreparedKeeps, CompareKeeps, LinkFinalKeeps, SyncFinalKeeps,
       SyncFanoutKeeps, UnlinkTemporaryKeeps, SyncUnlinkKeeps, FinishPublishKeeps, FaultKeeps DEF Step
  <2> QED
    BY <2>1, <2>2 DEF IInv
<1>2. CASE PowerLoss
  BY <1>2, PowerLossKeeps
<1>3. CASE UNCHANGED vars
  BY <1>3 DEF vars, IInv, CasInv, TypeOK, NamesInv, EntriesInv, CallInv, Progress, HandlesInv, CreatedInv,
              CreatorInv, PublishedInv, OneCreator
<1> QED
  BY <1>1, <1>2, <1>3 DEF Next

\* Names, handles, calls and dispositions stay as the code leaves them in
\* every reachable state (createRestrictedLocalCas).
THEOREM InductiveInvariant == Spec => []IInv
<1>1. Init => IInv
  BY InitInvariant
<1>2. IInv /\ [Next]_vars => IInv'
  BY NextInvariant
<1> QED
  BY <1>1, <1>2, PTL DEF Spec

\* Every variable keeps its type through calls, faults and power losses.
THEOREM TypeCorrect == Spec => []TypeOK
<1>1. IInv => TypeOK
  BY DEF IInv
<1> QED
  BY <1>1, InductiveInvariant, PTL

\* What publishNoReplace has claimed of an object (fileDataSynced,
\* parentDirectorySynced, reopenedAndRehashed) never stops being true.
THEOREM PublishedIsDurable == Spec => []PublishedDurable
<1>1. IInv => PublishedDurable
  BY CasAssumption DEF IInv, CasInv, TypeOK, PublishedInv, PublishedDurable, EntriesInv, NamesInv, Holds
<1> QED
  BY <1>1, InductiveInvariant, PTL

\* At most one operation is ever told created_new for an object, whatever
\* races, crashes and power losses there are (publishNoReplace).
THEOREM CreatorIsUnique == Spec => []OneCreator
<1>1. IInv => OneCreator
  BY DEF IInv, CasInv, PublishedInv
<1> QED
  BY <1>1, InductiveInvariant, PTL

\* An object that is not durable yet is still linked from private-temp, which
\* inspectCrashState reports; a working CAS holds intact temporaries of its own
\* (prepare, verifyPrepared).
THEOREM UnsettledIsReported == Spec => []UnsettledReported
<1>1. IInv => UnsettledReported
  <2> SUFFICES ASSUME IInv
               PROVE  UnsettledReported
    OBVIOUS
  <2>1. ASSUME NEW n \in Names, fs.name[n] # 0, ~Holds(disk, n, n)
        PROVE  fs.name[n] \in fs.temp
    BY <2>1 DEF IInv, CasInv, EntriesInv, NamesInv, Holds
  <2>2. ASSUME NEW n \in Names, fs.name[n] # 0, ~Holds(disk, n, n)
        PROVE  CrashState = "ambiguous_published_with_linked_temporary"
    BY <2>1, <2>2 DEF CrashState
  <2>3. ASSUME NEW p \in Procs, Operational(p), NEW h \in preparations[p]
        PROVE  /\ h.file \in fs.temp /\ fs.data[h.file] = h.art
               /\ \A q \in Procs : \A g \in preparations[q] : g.file = h.file => g = h
    BY <2>3 DEF IInv, CasInv, HandlesInv, Operational, Removed
  <2> QED
    BY <2>1, <2>2, <2>3 DEF UnsettledReported
<1> QED
  BY <1>1, InductiveInvariant, PTL

-----------------------------------------------------------------------------
(***************************************************************************)
(* The import of evidence bundles.                                         *)
(***************************************************************************)

-----------------------------------------------------------------------------
(* The inductive invariant.                                                *)

Codes == Nat \X Nat
Values(list) == UNION { s[list] : s \in Scenarios }

ArtifactRow == [seq : Nat, n : Nat, art : Artifacts, recorded : Nat]
EventRow ==
  [seq : Nat, n : Nat, started : Nat, completed : Nat, recorded : Nat,
   outcome : {"retrieved_retained", "not_modified", "network_failed"},
   artifact : Bodies \cup {None}, basis : Codes \cup {None}]
CustodyRow ==
  [seq : Nat, n : Nat, occurred : Nat, recorded : Nat, art : Artifacts, copy : Values("copies"),
   kind : Values("kinds"), pred : Codes \cup {None}, backend : Values("backends")]
RunRow ==
  [seq : Nat, n : Nat, started : Nat, recorded : Nat, input : Artifacts,
   method : {"content_decoding", "parser"}, outcome : {"succeeded", "failed"}]
OutputRow ==
  [seq : Nat, n : Nat, art : Derived, kind : {"decoded_body", "extracted_text", "diagnostic"},
   produced : Nat]
CandidateRow ==
  [seq : Nat, n : Nat, chain : Values("chains"), pred : Codes \cup {None}, run : Codes, recorded : Nat]
AnyRow == ArtifactRow \cup EventRow \cup CustodyRow \cup RunRow \cup OutputRow \cup CandidateRow

\* The rows of one bundle.
Formed(rows, seq) ==
  /\ rows \in [Tables -> SUBSET AnyRow]
  /\ rows["artifacts"] \subseteq ArtifactRow /\ rows["events"] \subseteq EventRow
  /\ rows["custody"] \subseteq CustodyRow /\ rows["runs"] \subseteq RunRow
  /\ rows["outputs"] \subseteq OutputRow /\ rows["candidates"] \subseteq CandidateRow
  /\ \A t \in Tables : \A r \in rows[t] : r.seq = seq
  /\ IsFiniteSet(rows["runs"])
  /\ \A o \in rows["outputs"] : \E q \in rows["runs"] : q.n = o.n

\* The rows of a list are numbered as they were read.
Numbered(S) ==
  /\ IsFiniteSet(S)
  /\ \A r \in S : r.n \in 1..Cardinality(S)
  /\ \A i \in 1..Cardinality(S) : \E r \in S : r.n = i
  /\ \A q, r \in S : q.n = r.n => q = r

Accepted == [created : Nat, required : SUBSET Nat, rows : [Tables -> SUBSET AnyRow]]
Manifests == [seq : Nat, created : Nat, required : SUBSET Nat, rows : [Tables -> SUBSET AnyRow]]
Phases == {"idle", "artifacts", "events", "custody", "runs", "candidates", "writing", "verifying"}

ImportTypes ==
  /\ scenario \in Scenarios
  /\ accepted \in Seq(Accepted) /\ manifest \in Manifests \cup {None}
  /\ phase \in Phases /\ inserted \in Nat
  /\ phase # "idle" => manifest \in Manifests

\* Every accepted bundle passes the preflight against the bundles before it.
Stored(bundles) == \A k \in DOMAIN bundles : Formed(bundles[k].rows, k) /\ Replay(bundles, k)

\* What is known of the rows of the manifest, list by list.
RowsOk(ctx, m) ==
  /\ \A r \in m.rows["artifacts"] : ArtifactOk(ctx, m, r)
  /\ \A r \in m.rows["events"] : EventOk(ctx, m, r)
  /\ \A r \in m.rows["custody"] : CustodyOk(ctx, m, r)
  /\ \A r \in m.rows["runs"] : RunOk(ctx, m, r) /\ RunOutputsOk(ctx, m, r)
  /\ \A r \in m.rows["candidates"] : CandidateOk(ctx, m, r)

ManifestInv(ctx, m) ==
  /\ m.seq = Len(accepted) + 1 /\ Formed(m.rows, m.seq) /\ HeaderOk(ctx, m)
  /\ \A i \in DOMAIN Reading : Numbered(m.rows[Reading[i]])
  /\ RowsOk(ctx, m)

Unread == [artifacts |-> {"events", "custody", "runs", "outputs", "candidates"},
           events |-> {"custody", "runs", "outputs", "candidates"},
           custody |-> {"runs", "outputs", "candidates"}, runs |-> {"candidates"}, candidates |-> {}]

ListsInv(ctx, m) ==
  /\ phase \in Range(Reading) => \A t \in Unread[phase] : m.rows[t] = {}
  /\ phase \in {"runs", "candidates", "writing", "verifying"} => CustodyComplete(ctx, m) /\ LineageStands(ctx, m)
  /\ phase \in {"candidates", "writing", "verifying"} => DerivedGrounded(ctx, m)
  /\ phase \in {"writing", "verifying"} => DependenciesUsed(ctx, m)

ImportInv ==
  /\ ImportTypes /\ Stored(accepted)
  /\ phase # "idle" => ManifestInv(Context, manifest) /\ ListsInv(Context, manifest)
  /\ outcome # "drift"


-----------------------------------------------------------------------------
(* The tables and what the preflight has read of them.                     *)

\* The tables, and the lists in the order the preflight reads them.
LEMMA TableNames ==
    /\ Tables = {"artifacts", "events", "custody", "runs", "outputs", "candidates"}
    /\ DOMAIN Reading = 1..5
    /\ Range(Reading) = {"artifacts", "events", "custody", "runs", "candidates"}
    /\ Reading[1] = "artifacts" /\ Reading[2] = "events" /\ Reading[3] = "custody"
    /\ Reading[4] = "runs" /\ Reading[5] = "candidates"
<1>1. DOMAIN PlanTables = 1..6 /\ DOMAIN Reading = 1..5 /\ Len(Reading) = 5
  BY DEF PlanTables, Reading
<1>2. Tables = { PlanTables[i] : i \in 1..6 } /\ Range(Reading) = { Reading[i] : i \in 1..5 }
  BY <1>1 DEF Tables, Range
<1> QED
  BY <1>1, <1>2 DEF PlanTables, Reading

LEMMA BeforeParts ==
    ASSUME NEW ctx, NEW m, NEW ts, NEW r, NEW t \in Tables
    PROVE  Before(ctx, m, ts, r)[t] =
                ctx.rows[t] \cup (IF t \in ts THEN { q \in m.rows[t] : q.n < r.n } ELSE m.rows[t])
  BY DEF Before, Merge

LEMMA SeenParts ==
    ASSUME NEW ctx, NEW m, NEW t \in Tables
    PROVE  Seen(ctx, m)[t] = ctx.rows[t] \cup m.rows[t]
  BY DEF Seen, Merge

\* What is seen of a table, or of a table before a row, depends on that table alone.
LEMMA SeenSame ==
    ASSUME NEW ctx, NEW m, NEW o, NEW t \in Tables, o.rows[t] = m.rows[t]
    PROVE  Seen(ctx, o)[t] = Seen(ctx, m)[t]
<1>1. Seen(ctx, o)[t] = ctx.rows[t] \cup o.rows[t] /\ Seen(ctx, m)[t] = ctx.rows[t] \cup m.rows[t]
  BY SeenParts
<1> QED
  BY <1>1

\* Two states of one manifest, as far as a check of row r looks.
Alike(m, o) == o.seq = m.seq /\ o.created = m.created /\ o.required = m.required
Till(m, o, t, r) == { q \in o.rows[t] : q.n < r.n } = { q \in m.rows[t] : q.n < r.n }

LEMMA BeforeSame ==
    ASSUME NEW ctx, NEW m, NEW o, NEW ts, NEW r, NEW t \in Tables,
           IF t \in ts THEN Till(m, o, t, r) ELSE o.rows[t] = m.rows[t]
    PROVE  Before(ctx, o, ts, r)[t] = Before(ctx, m, ts, r)[t]
<1>1. Before(ctx, o, ts, r)[t] =
        ctx.rows[t] \cup (IF t \in ts THEN { q \in o.rows[t] : q.n < r.n } ELSE o.rows[t])
  BY BeforeParts
<1>2. Before(ctx, m, ts, r)[t] =
        ctx.rows[t] \cup (IF t \in ts THEN { q \in m.rows[t] : q.n < r.n } ELSE m.rows[t])
  BY BeforeParts
<1> QED
  BY <1>1, <1>2 DEF Till

\* A check of a row looks back only: what a manifest gains after it is read changes
\* nothing for it.  One lemma for each kind of row, one for the checks of whole lists.
LEMMA ArtifactStays ==
    ASSUME NEW ctx, NEW m, NEW o, NEW r, Alike(m, o), Till(m, o, "artifacts", r), ArtifactOk(ctx, m, r)
    PROVE  ArtifactOk(ctx, o, r)
<1>1. Before(ctx, o, {"artifacts"}, r)["artifacts"] = Before(ctx, m, {"artifacts"}, r)["artifacts"]
  BY BeforeSame, TableNames
<1> QED
  BY <1>1 DEF ArtifactOk, Alike

LEMMA EventStays ==
    ASSUME NEW ctx, NEW m, NEW o, NEW r, Alike(m, o), o.rows["artifacts"] = m.rows["artifacts"],
           Till(m, o, "events", r), EventOk(ctx, m, r)
    PROVE  EventOk(ctx, o, r)
<1>1. \A t \in {"artifacts", "events"} : Before(ctx, o, {"events"}, r)[t] = Before(ctx, m, {"events"}, r)[t]
  BY BeforeSame, TableNames
<1> QED
  BY <1>1 DEF EventOk, Alike, Pinned

LEMMA CustodyStays ==
    ASSUME NEW ctx, NEW m, NEW o, NEW r, Alike(m, o), o.rows["artifacts"] = m.rows["artifacts"],
           Till(m, o, "custody", r), CustodyOk(ctx, m, r)
    PROVE  CustodyOk(ctx, o, r)
<1>1. \A t \in {"artifacts", "custody"} : Before(ctx, o, {"custody"}, r)[t] = Before(ctx, m, {"custody"}, r)[t]
  BY BeforeSame, TableNames
<1> QED
  BY <1>1 DEF CustodyOk, Alike, Pinned

SameSources(m, o) ==
  /\ o.rows["artifacts"] = m.rows["artifacts"] /\ o.rows["events"] = m.rows["events"]
  /\ o.rows["custody"] = m.rows["custody"]

LEMMA RunStays ==
    ASSUME NEW ctx, NEW m, NEW o, NEW r, Alike(m, o), SameSources(m, o),
           Till(m, o, "runs", r), Till(m, o, "outputs", r), RunOk(ctx, m, r)
    PROVE  RunOk(ctx, o, r)
<1>1. \A t \in Tables \ {"candidates"} :
        Before(ctx, o, {"runs", "outputs"}, r)[t] = Before(ctx, m, {"runs", "outputs"}, r)[t]
  BY BeforeSame, TableNames DEF SameSources
<1> QED
  BY <1>1, TableNames DEF RunOk, Alike, Pinned

LEMMA RunOutputsStay ==
    ASSUME NEW ctx, NEW m, NEW o, NEW r, Alike(m, o), SameSources(m, o),
           Till(m, o, "runs", r), Till(m, o, "outputs", r),
           { q \in o.rows["outputs"] : q.n = r.n } = { q \in m.rows["outputs"] : q.n = r.n },
           RunOutputsOk(ctx, m, r)
    PROVE  RunOutputsOk(ctx, o, r)
<1>1. \A t \in Tables \ {"candidates"} :
        Before(ctx, o, {"runs", "outputs"}, r)[t] = Before(ctx, m, {"runs", "outputs"}, r)[t]
  BY BeforeSame, TableNames DEF SameSources
<1>2. \A q : OutputOk(ctx, m, r, q) => OutputOk(ctx, o, r, q)
  BY <1>1, TableNames DEF OutputOk, Alike, Pinned
<1> QED
  BY <1>2 DEF RunOutputsOk

LEMMA CandidateStays ==
    ASSUME NEW ctx, NEW m, NEW o, NEW r, Alike(m, o),
           o.rows["runs"] = m.rows["runs"], o.rows["outputs"] = m.rows["outputs"],
           Till(m, o, "candidates", r), CandidateOk(ctx, m, r)
    PROVE  CandidateOk(ctx, o, r)
<1>1. \A t \in {"runs", "outputs", "candidates"} :
        Before(ctx, o, {"candidates"}, r)[t] = Before(ctx, m, {"candidates"}, r)[t]
  BY BeforeSame, TableNames
<1> QED
  BY <1>1 DEF CandidateOk, Alike, Pinned

LEMMA ListsStay ==
    ASSUME NEW ctx, NEW m, NEW o, Alike(m, o), SameSources(m, o)
    PROVE  /\ CustodyComplete(ctx, m) => CustodyComplete(ctx, o)
           /\ LineageStands(ctx, m) => LineageStands(ctx, o)
           /\ o.rows["runs"] = m.rows["runs"] /\ o.rows["outputs"] = m.rows["outputs"] =>
                (DerivedGrounded(ctx, m) => DerivedGrounded(ctx, o))
<1>1. \A t \in {"artifacts", "events", "custody"} : Seen(ctx, o)[t] = Seen(ctx, m)[t]
  BY SeenSame, TableNames DEF SameSources
<1>2. o.rows["runs"] = m.rows["runs"] /\ o.rows["outputs"] = m.rows["outputs"] =>
        Seen(ctx, o)["runs"] = Seen(ctx, m)["runs"] /\ Seen(ctx, o)["outputs"] = Seen(ctx, m)["outputs"]
  BY SeenSame, TableNames
<1>3. CustodyComplete(ctx, m) => CustodyComplete(ctx, o)
  BY <1>1 DEF CustodyComplete, PlacedOk, OriginOk, RetrievalsHeld, SameSources, Alike
<1>4. LineageStands(ctx, m) => LineageStands(ctx, o)
  BY <1>1 DEF LineageStands
<1>5. ASSUME o.rows["runs"] = m.rows["runs"], o.rows["outputs"] = m.rows["outputs"], DerivedGrounded(ctx, m)
      PROVE  DerivedGrounded(ctx, o)
  BY <1>1, <1>2, <1>5 DEF DerivedGrounded, SameSources
<1> QED
  BY <1>3, <1>4, <1>5


-----------------------------------------------------------------------------
(* What earlier bundles left.                                              *)

LEMMA ContextParts ==
    ASSUME NEW S \in Seq(Accepted), NEW k \in Nat
    PROVE  /\ \A t \in Tables : \A r :
                r \in ContextOf(S, k).rows[t] <=> \E j \in DOMAIN S : j < k /\ r \in S[j].rows[t]
           /\ \A p : p \in ContextOf(S, k).receipts <=>
                \E j \in DOMAIN S : j < k /\ p = [seq |-> j, created |-> S[j].created]
  BY DEF ContextOf

\* Accepting a bundle leaves the context of every bundle before it as it was.
LEMMA ContextStays ==
    ASSUME NEW S \in Seq(Accepted), NEW b, NEW k \in 1..(Len(S) + 1)
    PROVE  ContextOf(Append(S, b), k) = ContextOf(S, k)
<1> DEFINE before == { j \in DOMAIN S : j < k }   T == Append(S, b)
<1>1. { j \in DOMAIN T : j < k } = before /\ \A j \in before : T[j] = S[j]
  <2>1. DOMAIN S = 1..Len(S) /\ DOMAIN T = 1..(Len(S) + 1) /\ \A j \in 1..Len(S) : T[j] = S[j]
    OBVIOUS
  <2> QED
    BY <2>1
<1> HIDE DEF before, T
<1>2. { [seq |-> j, created |-> T[j].created] : j \in before } = { [seq |-> j, created |-> S[j].created] : j \in before }
  BY <1>1
<1>3. \A t : { T[j].rows[t] : j \in before } = { S[j].rows[t] : j \in before }
  BY <1>1
<1>4. ContextOf(T, k) = [receipts |-> { [seq |-> j, created |-> T[j].created] : j \in before },
                         rows |-> [t \in Tables |-> UNION { T[j].rows[t] : j \in before }]]
  BY <1>1 DEF ContextOf
<1>5. ContextOf(S, k) = [receipts |-> { [seq |-> j, created |-> S[j].created] : j \in before },
                         rows |-> [t \in Tables |-> UNION { S[j].rows[t] : j \in before }]]
  BY DEF ContextOf, before
<1>6. [t \in Tables |-> UNION { T[j].rows[t] : j \in before }] = [t \in Tables |-> UNION { S[j].rows[t] : j \in before }]
  BY <1>3
<1> QED
  BY <1>2, <1>4, <1>5, <1>6 DEF T

\* The rows an earlier bundle left are rows of that bundle.
LEMMA ContextRows ==
    ASSUME ImportTypes, NEW t \in Tables
    PROVE  /\ \A r : r \in Context.rows[t] <=> \E j \in DOMAIN accepted : r \in accepted[j].rows[t]
           /\ \A p : p \in Context.receipts <=>
                \E j \in DOMAIN accepted : p = [seq |-> j, created |-> accepted[j].created]
<1>1. Len(accepted) + 1 \in Nat /\ \A j \in DOMAIN accepted : j < Len(accepted) + 1
  BY DEF ImportTypes
<1> QED
  BY <1>1, ContextParts DEF ImportTypes, Context

RowOf == [artifacts |-> ArtifactRow, events |-> EventRow, custody |-> CustodyRow, runs |-> RunRow,
          outputs |-> OutputRow, candidates |-> CandidateRow]

\* The rows of a table have its fields, and their codes are pairs of numbers.
LEMMA FormedRows ==
    ASSUME NEW rows, NEW seq, Formed(rows, seq), NEW t \in Tables
    PROVE  rows[t] \subseteq RowOf[t] /\ \A r \in rows[t] : r.seq = seq
  BY TableNames DEF Formed, RowOf

LEMMA RowCodes ==
    ASSUME NEW t \in Tables
    PROVE  \A r \in RowOf[t] : Code(r) \in Codes /\ r.n \in Nat /\ r.seq \in Nat
<1>1. t \in {"artifacts", "events", "custody", "runs", "outputs", "candidates"}
  BY TableNames
<1>2. \A r \in RowOf[t] : r.n \in Nat /\ r.seq \in Nat
  <2>1. CASE t = "artifacts"
    BY <2>1 DEF RowOf, ArtifactRow
  <2>2. CASE t = "events"
    BY <2>2 DEF RowOf, EventRow
  <2>3. CASE t = "custody"
    BY <2>3 DEF RowOf, CustodyRow
  <2>4. CASE t = "runs"
    BY <2>4 DEF RowOf, RunRow
  <2>5. CASE t = "outputs"
    BY <2>5 DEF RowOf, OutputRow
  <2>6. CASE t = "candidates"
    BY <2>6 DEF RowOf, CandidateRow
  <2> QED
    BY <1>1, <2>1, <2>2, <2>3, <2>4, <2>5, <2>6
<1> QED
  BY <1>2 DEF Code, Codes

LEMMA SeenRows ==
    ASSUME ImportTypes, Stored(accepted), NEW m, Formed(m.rows, Len(accepted) + 1), NEW t \in Tables
    PROVE  /\ Context.rows[t] \subseteq RowOf[t] /\ Seen(Context, m)[t] \subseteq RowOf[t]
           /\ \A r \in Context.rows[t] : r.seq \in Nat /\ r.seq < Len(accepted) + 1
           /\ \A r \in m.rows[t] : r.seq = Len(accepted) + 1
<1>1. \A j \in DOMAIN accepted : accepted[j].rows[t] \subseteq RowOf[t] /\ \A r \in accepted[j].rows[t] : r.seq = j
  BY FormedRows DEF Stored
<1>2. m.rows[t] \subseteq RowOf[t] /\ \A r \in m.rows[t] : r.seq = Len(accepted) + 1
  BY FormedRows
<1>3. \A r \in Context.rows[t] : \E j \in DOMAIN accepted : r \in accepted[j].rows[t]
  BY ContextRows
<1>4. DOMAIN accepted = 1..Len(accepted) /\ Len(accepted) \in Nat
  BY DEF ImportTypes
<1>5. Seen(Context, m)[t] = Context.rows[t] \cup m.rows[t]
  BY SeenParts
<1> QED
  BY <1>1, <1>2, <1>3, <1>4, <1>5

-----------------------------------------------------------------------------
(* What the next row is.                                                   *)

\* A row numbered next keeps a list numbered, and comes after every row in it.
LEMMA NumberedNext ==
    ASSUME NEW S, Numbered(S), NEW r, r.n = Cardinality(S) + 1
    PROVE  /\ Numbered(S \cup {r}) /\ Cardinality(S) \in Nat
           /\ \A q \in S : q.n \in Nat /\ q.n < r.n
<1>1. IsFiniteSet(S) /\ Cardinality(S) \in Nat
  BY FS_CardinalityType DEF Numbered
<1>2. \A q \in S : q.n \in 1..Cardinality(S) /\ q.n < r.n
  BY <1>1 DEF Numbered
<1>3. r \notin S
  BY <1>1, <1>2
<1>4. IsFiniteSet(S \cup {r}) /\ Cardinality(S \cup {r}) = Cardinality(S) + 1
  BY <1>1, <1>3, FS_AddElement
<1>5. \A i \in 1..(Cardinality(S) + 1) : i \in 1..Cardinality(S) \/ i = r.n
  BY <1>1
<1>6. \A i \in 1..(Cardinality(S) + 1) : \E q \in S \cup {r} : q.n = i
  BY <1>5 DEF Numbered
<1>7. \A q \in S \cup {r} : q.n \in 1..(Cardinality(S) + 1)
  BY <1>1, <1>2
<1>8. \A p, q \in S \cup {r} : p.n = q.n => p = q
  BY <1>1, <1>2 DEF Numbered
<1> QED
  BY <1>1, <1>2, <1>4, <1>6, <1>7, <1>8 DEF Numbered

\* A row may refer to the codes seen so far.
LEMMA KnownCodes ==
    ASSUME ImportTypes, Stored(accepted), Formed(manifest.rows, Len(accepted) + 1), NEW t \in Tables
    PROVE  CodesOf(t) \subseteq Codes \cup {None}
<1>1. Seen(Context, manifest)[t] \subseteq RowOf[t]
  BY SeenRows
<1> QED
  BY <1>1, RowCodes DEF CodesOf

Place(t) == Cardinality(manifest.rows[t]) + 1

LEMMA ScenarioTypes ==
    ASSUME ImportTypes
    PROVE  /\ scenario.artifacts \subseteq Artifacts /\ scenario.created \subseteq Nat
           /\ scenario.times.artifacts \subseteq Nat /\ scenario.times.candidates \subseteq Nat
           /\ scenario.times.events \subseteq Nat \X Nat \X Nat
           /\ scenario.times.custody \subseteq Nat \X Nat /\ scenario.times.runs \subseteq Nat \X Nat
           /\ scenario.copies \subseteq Values("copies") /\ scenario.kinds \subseteq Values("kinds")
           /\ scenario.backends \subseteq Values("backends") /\ scenario.chains \subseteq Values("chains")
  BY ScenarioAssumption DEF ImportTypes, Values

\* Whatever the manifest holds next has the fields of its list and the next number.
LEMMA NextRows ==
    ASSUME ImportTypes, Stored(accepted), manifest.seq \in Nat, Formed(manifest.rows, Len(accepted) + 1),
           \A t \in Range(Reading) : Place(t) \in Nat
    PROVE  /\ ArtifactRows \subseteq { r \in ArtifactRow : r.seq = manifest.seq /\ r.n = Place("artifacts") }
           /\ EventRows \subseteq { r \in EventRow : r.seq = manifest.seq /\ r.n = Place("events") }
           /\ CustodyRows \subseteq { r \in CustodyRow : r.seq = manifest.seq /\ r.n = Place("custody") }
           /\ RunRows \subseteq { r \in RunRow : r.seq = manifest.seq /\ r.n = Place("runs") }
           /\ OutputRows \subseteq { r \in OutputRow : r.seq = manifest.seq /\ r.n = Place("runs") }
           /\ CandidateRows \subseteq { r \in CandidateRow : r.seq = manifest.seq /\ r.n = Place("candidates") }
<1>1. /\ Place("artifacts") \in Nat /\ Place("events") \in Nat /\ Place("custody") \in Nat
      /\ Place("runs") \in Nat /\ Place("candidates") \in Nat
  BY TableNames
<1>2. \A t \in {"artifacts", "events", "custody", "runs", "candidates"} : Size(t) + 1 = Place(t)
  BY DEF Size, Place
<1> HIDE DEF Place
<1>3. \A t \in {"events", "custody", "runs", "candidates"} : CodesOf(t) \subseteq Codes \cup {None}
  BY KnownCodes, TableNames
<1>4. ArtifactRows \subseteq { r \in ArtifactRow : r.seq = manifest.seq /\ r.n = Place("artifacts") }
  BY <1>1, <1>2, ScenarioTypes DEF ArtifactRows, ArtifactRow
<1>5. EventRows \subseteq { r \in EventRow : r.seq = manifest.seq /\ r.n = Place("events") }
  <2> SUFFICES ASSUME NEW r \in EventRows
               PROVE  r \in EventRow /\ r.seq = manifest.seq /\ r.n = Place("events")
    OBVIOUS
  <2>1. PICK w \in scenario.times.events, o \in {"retrieved_retained", "not_modified", "network_failed"},
             a \in (scenario.artifacts \cap Bodies) \cup {None}, b \in CodesOf("events") :
          r = [seq |-> manifest.seq, n |-> Size("events") + 1, started |-> w[1], completed |-> w[2],
               recorded |-> w[3], outcome |-> o, artifact |-> a, basis |-> b]
    BY DEF EventRows
  <2>2. w[1] \in Nat /\ w[2] \in Nat /\ w[3] \in Nat
    BY ScenarioTypes
  <2>3. b \in Codes \cup {None} /\ Size("events") + 1 = Place("events")
    BY <1>2, <1>3
  <2> QED
    BY <1>1, <2>1, <2>2, <2>3 DEF EventRow
<1>6. CustodyRows \subseteq { r \in CustodyRow : r.seq = manifest.seq /\ r.n = Place("custody") }
  BY <1>1, <1>2, <1>3, ScenarioTypes DEF CustodyRows, CustodyRow
<1>7. RunRows \subseteq { r \in RunRow : r.seq = manifest.seq /\ r.n = Place("runs") }
  BY <1>1, <1>2, ScenarioTypes DEF RunRows, RunRow
<1>8. OutputRows \subseteq { r \in OutputRow : r.seq = manifest.seq /\ r.n = Place("runs") }
  BY <1>1, <1>2, ScenarioTypes DEF OutputRows, OutputRow
<1>9. CandidateRows \subseteq { r \in CandidateRow : r.seq = manifest.seq /\ r.n = Place("candidates") }
  BY <1>1, <1>2, <1>3, ScenarioTypes DEF CandidateRows, CandidateRow
<1> QED
  BY <1>4, <1>5, <1>6, <1>7, <1>8, <1>9


-----------------------------------------------------------------------------
(* The preflight reads a row.                                              *)

\* A manifest and the same one with a row more in list t.
Grows(m, o, t, r) ==
  /\ o \in Manifests /\ Alike(m, o) /\ o.rows[t] = m.rows[t] \cup {r}
  /\ \A u \in Tables \ {t} : o.rows[u] = m.rows[u]

\* Adding a row changes its own table alone, and at its end.
LEMMA WithGrows ==
    ASSUME manifest \in Manifests, NEW t \in Tables, NEW r \in AnyRow
    PROVE  Grows(manifest, With(t, r), t, r)
<1> DEFINE rows == [manifest.rows EXCEPT ![t] = @ \cup {r}]
<1>1. manifest.rows \in [Tables -> SUBSET AnyRow]
  BY DEF Manifests
<1>2. rows \in [Tables -> SUBSET AnyRow] /\ rows[t] = manifest.rows[t] \cup {r}
      /\ \A u \in Tables \ {t} : rows[u] = manifest.rows[u]
  BY <1>1
<1>3. With(t, r) = [manifest EXCEPT !.rows = rows]
  BY DEF With, Manifests
<1> HIDE DEF rows
<1>4. With(t, r) \in Manifests /\ Alike(manifest, With(t, r)) /\ With(t, r).rows = rows
  BY <1>2, <1>3 DEF Manifests, Alike
<1> QED
  BY <1>2, <1>4 DEF Grows

LEMMA RowsAreAny ==
    ASSUME NEW t \in Tables
    PROVE  RowOf[t] \subseteq AnyRow
  BY TableNames DEF RowOf, AnyRow

LEMMA GrownFormed ==
    ASSUME NEW m, NEW o, NEW seq, NEW t \in Range(Reading), NEW r \in RowOf[t], Grows(m, o, t, r),
           Formed(m.rows, seq), r.seq = seq
    PROVE  Formed(o.rows, seq)
<1>1. t \in {"artifacts", "events", "custody", "runs", "candidates"} /\ t \in Tables
  BY TableNames
<1>2. o.rows \in [Tables -> SUBSET AnyRow]
  BY DEF Grows, Manifests
<1>3. \A u \in Tables : o.rows[u] \subseteq RowOf[u] /\ \A q \in o.rows[u] : q.seq = seq
  <2>1. \A u \in Tables : m.rows[u] \subseteq RowOf[u] /\ \A q \in m.rows[u] : q.seq = seq
    BY FormedRows
  <2> QED
    BY <2>1 DEF Grows
<1>4. IsFiniteSet(o.rows["runs"])
  BY <1>1, TableNames, FS_AddElement DEF Grows, Formed
<1>5. \A p \in o.rows["outputs"] : \E q \in o.rows["runs"] : q.n = p.n
  BY <1>1, TableNames DEF Grows, Formed
<1> QED
  BY <1>2, <1>3, <1>4, <1>5, TableNames DEF Formed, RowOf

\* What precedes a row is the same before and after another row is added at the end.
LEMMA TillNext ==
    ASSUME NEW S, Numbered(S), NEW r, r.n = Cardinality(S) + 1, NEW q, q \in S \/ q = r
    PROVE  { p \in S \cup {r} : p.n < q.n } = { p \in S : p.n < q.n }
<1>1. Cardinality(S) \in Nat /\ \A p \in S : p.n \in Nat /\ p.n < r.n
  BY NumberedNext
<1> QED
  BY <1>1

LEMMA GrownTill ==
    ASSUME NEW m, NEW o, NEW t, NEW r, Grows(m, o, t, r), Numbered(m.rows[t]), r.n = Cardinality(m.rows[t]) + 1,
           NEW q, q \in m.rows[t] \/ q = r
    PROVE  Till(m, o, t, q)
  BY TillNext DEF Till, Grows

LEMMA SameTill ==
    ASSUME NEW m, NEW o, NEW t, NEW r, Grows(m, o, t, r), NEW u \in Tables, u # t, NEW q
    PROVE  Till(m, o, u, q) /\ o.rows[u] = m.rows[u]
  BY DEF Till, Grows

LEMMA GrownNumbers ==
    ASSUME NEW m, NEW o, NEW t \in Range(Reading), NEW r, Grows(m, o, t, r),
           r.n = Cardinality(m.rows[t]) + 1, \A i \in DOMAIN Reading : Numbered(m.rows[Reading[i]])
    PROVE  \A i \in DOMAIN Reading : Numbered(o.rows[Reading[i]])
<1>1. PICK j \in DOMAIN Reading : t = Reading[j]
  BY DEF Range
<1>2. \A i \in DOMAIN Reading : Reading[i] \in Tables
  BY TableNames
<1>3. Numbered(o.rows[t])
  BY <1>1, NumberedNext DEF Grows
<1> QED
  BY <1>2, <1>3 DEF Grows

\* The manifest while it is read.
ReadingInv == ImportTypes /\ Stored(accepted) /\ ManifestInv(Context, manifest) /\ ListsInv(Context, manifest)

LEMMA ListSizes ==
    ASSUME \A i \in DOMAIN Reading : Numbered(manifest.rows[Reading[i]])
    PROVE  \A t \in Range(Reading) : Place(t) \in Nat /\ Numbered(manifest.rows[t])
<1>1. \A t \in Range(Reading) : Numbered(manifest.rows[t])
  BY DEF Range
<1>2. \A t \in Range(Reading) : Cardinality(manifest.rows[t]) \in Nat
  BY <1>1, FS_CardinalityType DEF Numbered
<1> QED
  BY <1>1, <1>2 DEF Place

\* What the next row of a list adds, before it is checked.
LEMMA Grown ==
    ASSUME ReadingInv, NEW t \in Range(Reading), NEW r \in RowOf[t], r.seq = manifest.seq, r.n = Place(t),
           phase = t
    PROVE  LET o == With(t, r) IN
           /\ Grows(manifest, o, t, r) /\ Formed(o.rows, o.seq) /\ o.seq = Len(accepted) + 1
           /\ HeaderOk(Context, o) /\ \A i \in DOMAIN Reading : Numbered(o.rows[Reading[i]])
           /\ \A u \in Tables : \A q : u # t \/ q \in manifest.rows[t] \/ q = r => Till(manifest, o, u, q)
           /\ \A u \in Unread[t] : o.rows[u] = {}
<1> DEFINE o == With(t, r)
<1>1. t \in Tables /\ manifest \in Manifests /\ phase # "idle" /\ phase \in Range(Reading)
  BY TableNames DEF ReadingInv, ImportTypes
<1>2. Grows(manifest, o, t, r)
  BY <1>1, RowsAreAny, WithGrows
<1>3. r.n = Cardinality(manifest.rows[t]) + 1 /\ Numbered(manifest.rows[t])
  BY ListSizes DEF ReadingInv, ManifestInv, Place
<1> HIDE DEF o
<1>4. o.seq = manifest.seq /\ o.seq = Len(accepted) + 1 /\ HeaderOk(Context, o)
  BY <1>2 DEF Grows, Alike, ReadingInv, ManifestInv, HeaderOk
<1>5. Formed(o.rows, o.seq)
  BY <1>2, <1>4, GrownFormed DEF ReadingInv, ManifestInv
<1>6. \A i \in DOMAIN Reading : Numbered(o.rows[Reading[i]])
  BY <1>2, <1>3, GrownNumbers DEF ReadingInv, ManifestInv
<1>7. \A u \in Tables : \A q : u # t \/ q \in manifest.rows[t] \/ q = r => Till(manifest, o, u, q)
  BY <1>2, <1>3, GrownTill, SameTill
<1>8. \A u \in Unread[t] : o.rows[u] = {}
  <2>1. Unread[t] \subseteq Tables \ {t}
    BY TableNames DEF Unread
  <2>2. \A u \in Unread[t] : manifest.rows[u] = {}
    BY <1>1 DEF ReadingInv, ListsInv
  <2> QED
    BY <1>2, <2>1, <2>2 DEF Grows
<1> QED
  BY <1>2, <1>4, <1>5, <1>6, <1>7, <1>8 DEF o

\* A row that passes its check joins rows that still pass theirs: one lemma for each list.
LEMMA ArtifactRead ==
    ASSUME ReadingInv, phase = "artifacts", NEW r \in ArtifactRow, r.seq = manifest.seq, r.n = Place("artifacts"),
           ArtifactOk(Context, With("artifacts", r), r)
    PROVE  RowsOk(Context, With("artifacts", r))
<1> DEFINE o == With("artifacts", r)
<1>1. /\ Grows(manifest, o, "artifacts", r)
      /\ \A q : q \in manifest.rows["artifacts"] \/ q = r => Till(manifest, o, "artifacts", q)
      /\ \A u \in Unread["artifacts"] : o.rows[u] = {}
  BY TableNames, Grown DEF RowOf
<1> HIDE DEF o
<1>2. Alike(manifest, o) /\ o.rows["artifacts"] = manifest.rows["artifacts"] \cup {r}
  BY <1>1 DEF Grows
<1>3. \A q \in o.rows["artifacts"] : ArtifactOk(Context, o, q)
  <2> SUFFICES ASSUME NEW q \in manifest.rows["artifacts"]
               PROVE  ArtifactOk(Context, o, q)
    BY <1>2 DEF o
  <2> QED
    BY <1>1, <1>2, ArtifactStays DEF ReadingInv, ManifestInv, RowsOk
<1> QED
  BY <1>1, <1>3 DEF RowsOk, Unread, o

LEMMA EventRead ==
    ASSUME ReadingInv, phase = "events", NEW r \in EventRow, r.seq = manifest.seq, r.n = Place("events"),
           EventOk(Context, With("events", r), r)
    PROVE  RowsOk(Context, With("events", r))
<1> DEFINE o == With("events", r)
<1>1. /\ Grows(manifest, o, "events", r)
      /\ \A u \in Tables : \A q : u # "events" \/ q \in manifest.rows["events"] \/ q = r => Till(manifest, o, u, q)
      /\ \A u \in Unread["events"] : o.rows[u] = {}
  BY TableNames, Grown DEF RowOf
<1> HIDE DEF o
<1>2. Alike(manifest, o) /\ o.rows["events"] = manifest.rows["events"] \cup {r}
      /\ o.rows["artifacts"] = manifest.rows["artifacts"]
  BY <1>1, TableNames DEF Grows
<1>3. \A q \in o.rows["artifacts"] : ArtifactOk(Context, o, q)
  <2> SUFFICES ASSUME NEW q \in manifest.rows["artifacts"]
               PROVE  ArtifactOk(Context, o, q)
    BY <1>2
  <2> QED
    BY <1>1, <1>2, TableNames, ArtifactStays DEF ReadingInv, ManifestInv, RowsOk
<1>4. \A q \in o.rows["events"] : EventOk(Context, o, q)
  <2> SUFFICES ASSUME NEW q \in manifest.rows["events"]
               PROVE  EventOk(Context, o, q)
    BY <1>2 DEF o
  <2> QED
    BY <1>1, <1>2, TableNames, EventStays DEF ReadingInv, ManifestInv, RowsOk
<1> QED
  BY <1>1, <1>3, <1>4 DEF RowsOk, Unread, o


LEMMA CustodyRead ==
    ASSUME ReadingInv, phase = "custody", NEW r \in CustodyRow, r.seq = manifest.seq, r.n = Place("custody"),
           CustodyOk(Context, With("custody", r), r)
    PROVE  RowsOk(Context, With("custody", r))
<1> DEFINE o == With("custody", r)
<1>1. /\ Grows(manifest, o, "custody", r)
      /\ \A u \in Tables : \A q : u # "custody" \/ q \in manifest.rows["custody"] \/ q = r => Till(manifest, o, u, q)
      /\ \A u \in Unread["custody"] : o.rows[u] = {}
  BY TableNames, Grown DEF RowOf
<1> HIDE DEF o
<1>2. Alike(manifest, o) /\ o.rows["custody"] = manifest.rows["custody"] \cup {r}
      /\ o.rows["artifacts"] = manifest.rows["artifacts"] /\ o.rows["events"] = manifest.rows["events"]
  BY <1>1, TableNames DEF Grows
<1>3. \A q \in o.rows["artifacts"] : ArtifactOk(Context, o, q)
  <2> SUFFICES ASSUME NEW q \in manifest.rows["artifacts"]
               PROVE  ArtifactOk(Context, o, q)
    BY <1>2
  <2> QED
    BY <1>1, <1>2, TableNames, ArtifactStays DEF ReadingInv, ManifestInv, RowsOk
<1>4. \A q \in o.rows["events"] : EventOk(Context, o, q)
  <2> SUFFICES ASSUME NEW q \in manifest.rows["events"]
               PROVE  EventOk(Context, o, q)
    BY <1>2
  <2> QED
    BY <1>1, <1>2, TableNames, EventStays DEF ReadingInv, ManifestInv, RowsOk
<1>5. \A q \in o.rows["custody"] : CustodyOk(Context, o, q)
  <2> SUFFICES ASSUME NEW q \in manifest.rows["custody"]
               PROVE  CustodyOk(Context, o, q)
    BY <1>2 DEF o
  <2> QED
    BY <1>1, <1>2, TableNames, CustodyStays DEF ReadingInv, ManifestInv, RowsOk
<1> QED
  BY <1>1, <1>3, <1>4, <1>5 DEF RowsOk, Unread, o

LEMMA CandidateRead ==
    ASSUME ReadingInv, phase = "candidates", NEW r \in CandidateRow, r.seq = manifest.seq, r.n = Place("candidates"),
           CandidateOk(Context, With("candidates", r), r)
    PROVE  RowsOk(Context, With("candidates", r))
<1> DEFINE o == With("candidates", r)
<1>1. /\ Grows(manifest, o, "candidates", r)
      /\ \A u \in Tables : \A q : u # "candidates" \/ q \in manifest.rows["candidates"] \/ q = r => Till(manifest, o, u, q)
  BY TableNames, Grown DEF RowOf
<1> HIDE DEF o
<1>2. Alike(manifest, o) /\ o.rows["candidates"] = manifest.rows["candidates"] \cup {r}
      /\ \A t \in Tables \ {"candidates"} : o.rows[t] = manifest.rows[t]
  BY <1>1 DEF Grows
<1>3. \A q \in o.rows["artifacts"] : ArtifactOk(Context, o, q)
  <2> SUFFICES ASSUME NEW q \in manifest.rows["artifacts"]
               PROVE  ArtifactOk(Context, o, q)
    BY <1>2, TableNames
  <2> QED
    BY <1>1, <1>2, TableNames, ArtifactStays DEF ReadingInv, ManifestInv, RowsOk
<1>4. \A q \in o.rows["events"] : EventOk(Context, o, q)
  <2> SUFFICES ASSUME NEW q \in manifest.rows["events"]
               PROVE  EventOk(Context, o, q)
    BY <1>2, TableNames
  <2> QED
    BY <1>1, <1>2, TableNames, EventStays DEF ReadingInv, ManifestInv, RowsOk
<1>5. \A q \in o.rows["custody"] : CustodyOk(Context, o, q)
  <2> SUFFICES ASSUME NEW q \in manifest.rows["custody"]
               PROVE  CustodyOk(Context, o, q)
    BY <1>2, TableNames
  <2> QED
    BY <1>1, <1>2, TableNames, CustodyStays DEF ReadingInv, ManifestInv, RowsOk
<1>6. \A q \in o.rows["runs"] : RunOk(Context, o, q) /\ RunOutputsOk(Context, o, q)
  <2> SUFFICES ASSUME NEW q \in manifest.rows["runs"]
               PROVE  RunOk(Context, o, q) /\ RunOutputsOk(Context, o, q)
    BY <1>2, TableNames
  <2>1. SameSources(manifest, o) /\ o.rows["outputs"] = manifest.rows["outputs"]
    BY <1>2, TableNames DEF SameSources
  <2>2. Till(manifest, o, "runs", q) /\ Till(manifest, o, "outputs", q)
    BY <1>1, TableNames
  <2> QED
    BY <1>2, <2>1, <2>2, RunStays, RunOutputsStay DEF ReadingInv, ManifestInv, RowsOk
<1>7. \A q \in o.rows["candidates"] : CandidateOk(Context, o, q)
  <2> SUFFICES ASSUME NEW q \in manifest.rows["candidates"]
               PROVE  CandidateOk(Context, o, q)
    BY <1>2 DEF o
  <2> QED
    BY <1>1, <1>2, TableNames, CandidateStays DEF ReadingInv, ManifestInv, RowsOk
<1> QED
  BY <1>3, <1>4, <1>5, <1>6, <1>7 DEF RowsOk, o

\* A run and what it made are read together.
LEMMA WithRunParts ==
    ASSUME manifest \in Manifests, NEW r \in RunRow, NEW made \in SUBSET OutputRow
    PROVE  LET o == WithRun(r, made) IN
           /\ o \in Manifests /\ Alike(manifest, o)
           /\ o.rows["runs"] = manifest.rows["runs"] \cup {r} /\ o.rows["outputs"] = manifest.rows["outputs"] \cup made
           /\ \A u \in Tables \ {"runs", "outputs"} : o.rows[u] = manifest.rows[u]
<1> DEFINE rows == [manifest.rows EXCEPT !["runs"] = @ \cup {r}, !["outputs"] = @ \cup made]
<1>1. manifest.rows \in [Tables -> SUBSET AnyRow] /\ "runs" \in Tables /\ "outputs" \in Tables
  BY TableNames DEF Manifests
<1>2. /\ rows \in [Tables -> SUBSET AnyRow]
      /\ rows["runs"] = manifest.rows["runs"] \cup {r} /\ rows["outputs"] = manifest.rows["outputs"] \cup made
      /\ \A u \in Tables \ {"runs", "outputs"} : rows[u] = manifest.rows[u]
  BY <1>1 DEF AnyRow
<1>3. WithRun(r, made) = [manifest EXCEPT !.rows = rows]
  BY DEF WithRun, Manifests
<1> HIDE DEF rows
<1>4. WithRun(r, made) \in Manifests /\ Alike(manifest, WithRun(r, made)) /\ WithRun(r, made).rows = rows
  BY <1>2, <1>3 DEF Manifests, Alike
<1> QED
  BY <1>2, <1>4

\* A run, with what it made, is numbered next; no other run has its outputs.
LEMMA RunFormed ==
    ASSUME ReadingInv, phase = "runs", NEW r \in RunRow, r.seq = manifest.seq, r.n = Place("runs"),
           NEW made \in SUBSET { o \in OutputRow : o.seq = manifest.seq /\ o.n = Place("runs") }
    PROVE  LET o == WithRun(r, made) IN
           /\ Formed(o.rows, o.seq) /\ o.seq = Len(accepted) + 1 /\ HeaderOk(Context, o)
           /\ \A i \in DOMAIN Reading : Numbered(o.rows[Reading[i]])
           /\ \A q : q \in manifest.rows["runs"] \/ q = r => Till(manifest, o, "runs", q) /\ Till(manifest, o, "outputs", q)
           /\ \A q \in manifest.rows["runs"] :
                { p \in o.rows["outputs"] : p.n = q.n } = { p \in manifest.rows["outputs"] : p.n = q.n }
<1> DEFINE o == WithRun(r, made)
<1>0. manifest \in Manifests /\ made \in SUBSET OutputRow
  BY DEF ReadingInv, ImportTypes
<1>1. /\ o \in Manifests /\ Alike(manifest, o)
      /\ o.rows["runs"] = manifest.rows["runs"] \cup {r} /\ o.rows["outputs"] = manifest.rows["outputs"] \cup made
      /\ \A u \in Tables \ {"runs", "outputs"} : o.rows[u] = manifest.rows[u]
  BY <1>0, WithRunParts
<1> HIDE DEF o
<1>2. r.n = Cardinality(manifest.rows["runs"]) + 1 /\ Numbered(manifest.rows["runs"])
  BY ListSizes, TableNames DEF ReadingInv, ManifestInv, Place
<1>3. o.seq = manifest.seq /\ o.seq = Len(accepted) + 1 /\ HeaderOk(Context, o)
  BY <1>1 DEF Alike, ReadingInv, ManifestInv, HeaderOk
<1>4. Formed(manifest.rows, manifest.seq)
  BY DEF ReadingInv, ManifestInv
<1>5. Formed(o.rows, o.seq)
  <2>1. o.rows \in [Tables -> SUBSET AnyRow]
    BY <1>1 DEF Manifests
  <2>2. o.rows["runs"] \subseteq RunRow /\ o.rows["outputs"] \subseteq OutputRow
    BY <1>0, <1>1, <1>4 DEF Formed
  <2>3. \A u \in {"artifacts", "events", "custody", "candidates"} : o.rows[u] = manifest.rows[u]
    BY <1>1, TableNames
  <2>4. \A u \in Tables : \A q \in o.rows[u] : q.seq = o.seq
    BY <1>1, <1>3, <1>4 DEF Formed
  <2>5. IsFiniteSet(o.rows["runs"])
    <3>1. IsFiniteSet(manifest.rows["runs"])
      BY <1>4 DEF Formed
    <3> QED
      BY <1>1, <3>1, FS_AddElement
  <2>6. \A p \in o.rows["outputs"] : \E q \in o.rows["runs"] : q.n = p.n
    BY <1>1, <1>4 DEF Formed
  <2> QED
    BY <1>4, <2>1, <2>2, <2>3, <2>4, <2>5, <2>6 DEF Formed
<1>6. \A i \in DOMAIN Reading : Numbered(o.rows[Reading[i]])
  <2>1. Numbered(o.rows["runs"])
    BY <1>1, <1>2, NumberedNext
  <2>2. \A i \in DOMAIN Reading : Reading[i] = "runs" \/ Reading[i] \in Tables \ {"runs", "outputs"}
    BY TableNames
  <2> QED
    BY <1>1, <2>1, <2>2 DEF ReadingInv, ManifestInv
<1>7. /\ Cardinality(manifest.rows["runs"]) \in Nat
      /\ \A q \in manifest.rows["runs"] : q.n \in Nat /\ q.n < r.n
  BY <1>2, NumberedNext
<1>8. \A p \in made : p.n = r.n
  OBVIOUS
<1>9. \A q : q \in manifest.rows["runs"] \/ q = r => Till(manifest, o, "runs", q) /\ Till(manifest, o, "outputs", q)
  <2> SUFFICES ASSUME NEW q, q \in manifest.rows["runs"] \/ q = r
               PROVE  Till(manifest, o, "runs", q) /\ Till(manifest, o, "outputs", q)
    OBVIOUS
  <2>1. Till(manifest, o, "runs", q)
    BY <1>1, <1>2, TillNext DEF Till
  <2>2. \A p \in made : ~(p.n < q.n)
    BY <1>2, <1>7, <1>8
  <2> QED
    BY <1>1, <2>1, <2>2 DEF Till
<1>10. \A q \in manifest.rows["runs"] :
         { p \in o.rows["outputs"] : p.n = q.n } = { p \in manifest.rows["outputs"] : p.n = q.n }
  BY <1>1, <1>7, <1>8
<1> QED
  BY <1>3, <1>5, <1>6, <1>9, <1>10 DEF o

LEMMA RunRead ==
    ASSUME ReadingInv, phase = "runs", NEW r \in RunRow, r.seq = manifest.seq, r.n = Place("runs"),
           NEW made \in SUBSET { o \in OutputRow : o.seq = manifest.seq /\ o.n = Place("runs") },
           RunOk(Context, WithRun(r, {}), r), RunOutputsOk(Context, WithRun(r, made), r)
    PROVE  RowsOk(Context, WithRun(r, made)) /\ SameSources(manifest, WithRun(r, made))
           /\ WithRun(r, made).rows["candidates"] = {}
<1> DEFINE o == WithRun(r, made)   b == WithRun(r, {})
<1>0. manifest \in Manifests /\ made \in SUBSET OutputRow
  BY DEF ReadingInv, ImportTypes
<1>1. /\ Alike(manifest, o)
      /\ o.rows["runs"] = manifest.rows["runs"] \cup {r} /\ o.rows["outputs"] = manifest.rows["outputs"] \cup made
      /\ \A u \in Tables \ {"runs", "outputs"} : o.rows[u] = manifest.rows[u]
  BY <1>0, WithRunParts
<1>2. /\ Alike(manifest, b) /\ b.rows["runs"] = manifest.rows["runs"] \cup {r}
      /\ \A u \in Tables \ {"runs", "outputs"} : b.rows[u] = manifest.rows[u]
  BY <1>0, WithRunParts
<1>3. /\ \A q : q \in manifest.rows["runs"] \/ q = r => Till(manifest, o, "runs", q) /\ Till(manifest, o, "outputs", q)
      /\ \A q \in manifest.rows["runs"] :
           { p \in o.rows["outputs"] : p.n = q.n } = { p \in manifest.rows["outputs"] : p.n = q.n }
  BY RunFormed
<1>4. Till(manifest, b, "runs", r) /\ Till(manifest, b, "outputs", r)
  BY RunFormed
<1>5. RunOk(Context, b, r) /\ RunOutputsOk(Context, o, r)
  OBVIOUS
<1> HIDE DEF o, b
<1>6. o.rows["candidates"] = {}
  <2>1. manifest.rows["candidates"] = {}
    BY TableNames DEF ReadingInv, ListsInv, Unread
  <2> QED
    BY <1>1, <2>1, TableNames
<1>7. SameSources(manifest, o) /\ SameSources(b, o) /\ Alike(b, o)
  BY <1>1, <1>2, TableNames DEF SameSources, Alike
<1>8. \A q \in o.rows["artifacts"] : ArtifactOk(Context, o, q)
  <2> SUFFICES ASSUME NEW q \in manifest.rows["artifacts"]
               PROVE  ArtifactOk(Context, o, q)
    BY <1>7 DEF SameSources
  <2>1. Till(manifest, o, "artifacts", q)
    BY <1>7 DEF SameSources, Till
  <2> QED
    BY <1>1, <2>1, ArtifactStays DEF ReadingInv, ManifestInv, RowsOk
<1>9. \A q \in o.rows["events"] : EventOk(Context, o, q)
  <2> SUFFICES ASSUME NEW q \in manifest.rows["events"]
               PROVE  EventOk(Context, o, q)
    BY <1>7 DEF SameSources
  <2>1. Till(manifest, o, "events", q) /\ o.rows["artifacts"] = manifest.rows["artifacts"]
    BY <1>7 DEF SameSources, Till
  <2> QED
    BY <1>1, <2>1, EventStays DEF ReadingInv, ManifestInv, RowsOk
<1>10. \A q \in o.rows["custody"] : CustodyOk(Context, o, q)
  <2> SUFFICES ASSUME NEW q \in manifest.rows["custody"]
               PROVE  CustodyOk(Context, o, q)
    BY <1>7 DEF SameSources
  <2>1. Till(manifest, o, "custody", q) /\ o.rows["artifacts"] = manifest.rows["artifacts"]
    BY <1>7 DEF SameSources, Till
  <2> QED
    BY <1>1, <2>1, CustodyStays DEF ReadingInv, ManifestInv, RowsOk
<1>11. \A q \in manifest.rows["runs"] : RunOk(Context, o, q) /\ RunOutputsOk(Context, o, q)
  BY <1>1, <1>3, <1>7, RunStays, RunOutputsStay DEF ReadingInv, ManifestInv, RowsOk
<1>12. RunOk(Context, o, r)
  <2>1. Till(b, o, "runs", r) /\ Till(b, o, "outputs", r)
    BY <1>3, <1>4 DEF Till
  <2> QED
    BY <1>5, <1>7, <2>1, RunStays
<1> QED
  BY <1>1, <1>5, <1>6, <1>7, <1>8, <1>9, <1>10, <1>11, <1>12 DEF RowsOk, o


-----------------------------------------------------------------------------
(* Every step of an import keeps the invariant.                            *)

\* A reading step that changes the manifest alone.
LEMMA ReadKeeps ==
    ASSUME ImportInv, phase \in Range(Reading), NEW o \in Manifests, manifest' = o,
           UNCHANGED <<scenario, accepted, phase, inserted, outcome>>,
           o.seq = Len(accepted) + 1, Formed(o.rows, o.seq), HeaderOk(Context, o),
           \A i \in DOMAIN Reading : Numbered(o.rows[Reading[i]]), RowsOk(Context, o),
           ListsInv(Context, o)
    PROVE  ImportInv'
<1>1. ImportTypes'
  BY DEF ImportInv, ImportTypes
<1>2. Context' = Context
  BY DEF Context, ContextOf
<1>3. ManifestInv(Context, manifest)'
  BY <1>2 DEF ManifestInv
<1>4. ListsInv(Context, manifest)'
  BY <1>2 DEF ListsInv
<1>5. Stored(accepted)'
  BY DEF ImportInv
<1> QED
  BY <1>1, <1>3, <1>4, <1>5 DEF ImportInv

LEMMA ReadingNow ==
    ASSUME ImportInv, phase # "idle"
    PROVE  ReadingInv /\ manifest \in Manifests
  BY DEF ImportInv, ReadingInv, ImportTypes

LEMMA NextRow ==
    ASSUME ReadingInv
    PROVE  /\ \A r \in ArtifactRows : r \in ArtifactRow /\ r.seq = manifest.seq /\ r.n = Place("artifacts")
           /\ \A r \in EventRows : r \in EventRow /\ r.seq = manifest.seq /\ r.n = Place("events")
           /\ \A r \in CustodyRows : r \in CustodyRow /\ r.seq = manifest.seq /\ r.n = Place("custody")
           /\ \A r \in RunRows : r \in RunRow /\ r.seq = manifest.seq /\ r.n = Place("runs")
           /\ OutputRows \subseteq { r \in OutputRow : r.seq = manifest.seq /\ r.n = Place("runs") }
           /\ \A r \in CandidateRows : r \in CandidateRow /\ r.seq = manifest.seq /\ r.n = Place("candidates")
<1>1. manifest.seq \in Nat
  BY DEF ReadingInv, ManifestInv, ImportTypes
<1>2. \A t \in Range(Reading) : Place(t) \in Nat
  BY ListSizes DEF ReadingInv, ManifestInv
<1>3. Formed(manifest.rows, Len(accepted) + 1)
  BY DEF ReadingInv, ManifestInv
<1> QED
  BY <1>1, <1>2, <1>3, NextRows DEF ReadingInv

\* The reading of each list, one lemma for each action.
LEMMA ReadArtifactKeeps ==
    ASSUME ImportInv, ReadArtifact, UNCHANGED scenario
    PROVE  ImportInv'
<1>1. PICK r \in ArtifactRows : ArtifactOk(Context, With("artifacts", r), r) /\ manifest' = With("artifacts", r)
  BY DEF ReadArtifact, Read
<1>2. phase = "artifacts" /\ UNCHANGED <<scenario, accepted, phase, inserted, outcome>>
  BY DEF ReadArtifact, Read
<1>3. ReadingInv
  BY <1>2, ReadingNow
<1>4. r \in ArtifactRow /\ r.seq = manifest.seq /\ r.n = Place("artifacts")
  BY <1>3, NextRow
<1> DEFINE o == With("artifacts", r)
<1>5. /\ Grows(manifest, o, "artifacts", r) /\ Formed(o.rows, o.seq) /\ o.seq = Len(accepted) + 1
      /\ HeaderOk(Context, o) /\ \A i \in DOMAIN Reading : Numbered(o.rows[Reading[i]])
      /\ \A u \in Unread["artifacts"] : o.rows[u] = {}
  BY <1>2, <1>3, <1>4, TableNames, Grown DEF RowOf
<1>6. RowsOk(Context, o)
  BY <1>1, <1>2, <1>3, <1>4, ArtifactRead
<1> HIDE DEF o
<1>7. ListsInv(Context, o)
  BY <1>2, <1>5 DEF ListsInv
<1> QED
  BY <1>1, <1>2, <1>5, <1>6, <1>7, TableNames, ReadKeeps DEF Grows, o

LEMMA ReadEventKeeps ==
    ASSUME ImportInv, ReadEvent, UNCHANGED scenario
    PROVE  ImportInv'
<1>1. PICK r \in EventRows : EventOk(Context, With("events", r), r) /\ manifest' = With("events", r)
  BY DEF ReadEvent, Read
<1>2. phase = "events" /\ UNCHANGED <<scenario, accepted, phase, inserted, outcome>>
  BY DEF ReadEvent, Read
<1>3. ReadingInv
  BY <1>2, ReadingNow
<1>4. r \in EventRow /\ r.seq = manifest.seq /\ r.n = Place("events")
  BY <1>3, NextRow
<1> DEFINE o == With("events", r)
<1>5. /\ Grows(manifest, o, "events", r) /\ Formed(o.rows, o.seq) /\ o.seq = Len(accepted) + 1
      /\ HeaderOk(Context, o) /\ \A i \in DOMAIN Reading : Numbered(o.rows[Reading[i]])
      /\ \A u \in Unread["events"] : o.rows[u] = {}
  BY <1>2, <1>3, <1>4, TableNames, Grown DEF RowOf
<1>6. RowsOk(Context, o)
  BY <1>1, <1>2, <1>3, <1>4, EventRead
<1> HIDE DEF o
<1>7. ListsInv(Context, o)
  BY <1>2, <1>5 DEF ListsInv
<1> QED
  BY <1>1, <1>2, <1>5, <1>6, <1>7, TableNames, ReadKeeps DEF Grows, o

LEMMA ReadCustodyKeeps ==
    ASSUME ImportInv, ReadCustody, UNCHANGED scenario
    PROVE  ImportInv'
<1>1. PICK r \in CustodyRows : CustodyOk(Context, With("custody", r), r) /\ manifest' = With("custody", r)
  BY DEF ReadCustody, Read
<1>2. phase = "custody" /\ UNCHANGED <<scenario, accepted, phase, inserted, outcome>>
  BY DEF ReadCustody, Read
<1>3. ReadingInv
  BY <1>2, ReadingNow
<1>4. r \in CustodyRow /\ r.seq = manifest.seq /\ r.n = Place("custody")
  BY <1>3, NextRow
<1> DEFINE o == With("custody", r)
<1>5. /\ Grows(manifest, o, "custody", r) /\ Formed(o.rows, o.seq) /\ o.seq = Len(accepted) + 1
      /\ HeaderOk(Context, o) /\ \A i \in DOMAIN Reading : Numbered(o.rows[Reading[i]])
      /\ \A u \in Unread["custody"] : o.rows[u] = {}
  BY <1>2, <1>3, <1>4, TableNames, Grown DEF RowOf
<1>6. RowsOk(Context, o)
  BY <1>1, <1>2, <1>3, <1>4, CustodyRead
<1> HIDE DEF o
<1>7. ListsInv(Context, o)
  BY <1>2, <1>5 DEF ListsInv
<1> QED
  BY <1>1, <1>2, <1>5, <1>6, <1>7, TableNames, ReadKeeps DEF Grows, o

LEMMA ReadCandidateKeeps ==
    ASSUME ImportInv, ReadCandidate, UNCHANGED scenario
    PROVE  ImportInv'
<1>1. PICK r \in CandidateRows : CandidateOk(Context, With("candidates", r), r) /\ manifest' = With("candidates", r)
  BY DEF ReadCandidate, Read
<1>2. phase = "candidates" /\ UNCHANGED <<scenario, accepted, phase, inserted, outcome>>
  BY DEF ReadCandidate, Read
<1>3. ReadingInv
  BY <1>2, ReadingNow
<1>4. r \in CandidateRow /\ r.seq = manifest.seq /\ r.n = Place("candidates")
  BY <1>3, NextRow
<1> DEFINE o == With("candidates", r)
<1>5. /\ Grows(manifest, o, "candidates", r) /\ Formed(o.rows, o.seq) /\ o.seq = Len(accepted) + 1
      /\ HeaderOk(Context, o) /\ \A i \in DOMAIN Reading : Numbered(o.rows[Reading[i]])
  BY <1>2, <1>3, <1>4, TableNames, Grown DEF RowOf
<1>6. RowsOk(Context, o)
  BY <1>1, <1>2, <1>3, <1>4, CandidateRead
<1> HIDE DEF o
<1>7. ListsInv(Context, o)
  <2>1. /\ Alike(manifest, o) /\ SameSources(manifest, o)
        /\ o.rows["runs"] = manifest.rows["runs"] /\ o.rows["outputs"] = manifest.rows["outputs"]
    BY <1>5, TableNames DEF Grows, SameSources
  <2>2. CustodyComplete(Context, o) /\ LineageStands(Context, o) /\ DerivedGrounded(Context, o)
    BY <1>2, <1>3, <2>1, ListsStay DEF ReadingInv, ListsInv
  <2> QED
    BY <1>2, <2>2 DEF ListsInv, Unread
<1> QED
  BY <1>1, <1>2, <1>5, <1>6, <1>7, TableNames, ReadKeeps DEF Grows, o

LEMMA ReadRunKeeps ==
    ASSUME ImportInv, ReadRun, UNCHANGED scenario
    PROVE  ImportInv'
<1>1. PICK r \in RunRows : RunOk(Context, WithRun(r, {}), r) /\
        \E made \in {{}} \cup {{o} : o \in OutputRows} :
          RunOutputsOk(Context, WithRun(r, made), r) /\ manifest' = WithRun(r, made)
  BY DEF ReadRun
<1>2. PICK made \in {{}} \cup {{o} : o \in OutputRows} :
        RunOutputsOk(Context, WithRun(r, made), r) /\ manifest' = WithRun(r, made)
  BY <1>1
<1>3. phase = "runs" /\ UNCHANGED <<scenario, accepted, phase, inserted, outcome>>
  BY DEF ReadRun
<1>4. ReadingInv /\ manifest \in Manifests
  BY <1>3, ReadingNow
<1>5. /\ r \in RunRow /\ r.seq = manifest.seq /\ r.n = Place("runs")
      /\ made \in SUBSET { o \in OutputRow : o.seq = manifest.seq /\ o.n = Place("runs") }
  BY <1>4, NextRow
<1> DEFINE o == WithRun(r, made)
<1>6. /\ Formed(o.rows, o.seq) /\ o.seq = Len(accepted) + 1 /\ HeaderOk(Context, o)
      /\ \A i \in DOMAIN Reading : Numbered(o.rows[Reading[i]])
  BY <1>3, <1>4, <1>5, RunFormed
<1>7. RowsOk(Context, o) /\ SameSources(manifest, o) /\ o.rows["candidates"] = {}
  BY <1>1, <1>2, <1>3, <1>4, <1>5, RunRead
<1>8. o \in Manifests /\ Alike(manifest, o)
  BY <1>4, <1>5, WithRunParts
<1>9. manifest' = o
  BY <1>2
<1> HIDE DEF o
<1>10. ListsInv(Context, o)
  <2>1. CustodyComplete(Context, o) /\ LineageStands(Context, o)
    BY <1>3, <1>4, <1>7, <1>8, ListsStay DEF ReadingInv, ListsInv
  <2> QED
    BY <1>3, <1>7, <2>1 DEF ListsInv, Unread
<1> QED
  BY <1>3, <1>6, <1>7, <1>8, <1>9, <1>10, TableNames, ReadKeeps


LEMMA ReadHeaderKeeps ==
    ASSUME ImportInv, UNCHANGED scenario, NEW created \in scenario.created, NEW required \in SUBSET DOMAIN accepted,
           ReadHeader(created, required)
    PROVE  ImportInv'
<1> DEFINE m == [seq |-> Len(accepted) + 1, created |-> created, required |-> required, rows |-> NoRows]
<1>1. /\ HeaderOk(Context, m) /\ manifest' = m /\ phase' = "artifacts" /\ outcome' = None
      /\ UNCHANGED <<accepted, inserted>>
  BY TableNames DEF ReadHeader
<1>2. NoRows \in [Tables -> SUBSET AnyRow] /\ \A t \in Tables : NoRows[t] = {}
  BY DEF NoRows
<1>3. Len(accepted) \in Nat /\ DOMAIN accepted \subseteq Nat /\ created \in Nat
  BY ScenarioTypes DEF ImportInv, ImportTypes
<1>4. m \in Manifests
  BY <1>2, <1>3 DEF Manifests
<1>5. m.seq = Len(accepted) + 1 /\ m.rows = NoRows
  OBVIOUS
<1> HIDE DEF m
<1>6. ImportTypes'
  BY <1>1, <1>4 DEF ImportInv, ImportTypes, Phases
<1>7. Formed(m.rows, m.seq)
  BY <1>2, <1>5, TableNames, FS_EmptySet DEF Formed
<1>8. \A i \in DOMAIN Reading : Numbered(m.rows[Reading[i]])
  <2>1. \A i \in DOMAIN Reading : m.rows[Reading[i]] = {}
    BY <1>2, <1>5, TableNames
  <2> QED
    BY <2>1, FS_EmptySet DEF Numbered
<1>9. RowsOk(Context, m)
  BY <1>2, <1>5, TableNames DEF RowsOk
<1>10. Context' = Context
  BY <1>1 DEF Context, ContextOf
<1>11. ManifestInv(Context, manifest)'
  BY <1>1, <1>5, <1>7, <1>8, <1>9, <1>10 DEF ManifestInv
<1>12. ListsInv(Context, manifest)'
  BY <1>1, <1>2, <1>5, TableNames DEF ListsInv, Unread
<1>13. outcome' # "drift" /\ Stored(accepted)'
  BY <1>1, OutcomeAssumption DEF Outcomes, ImportInv
<1> QED
  BY <1>6, <1>11, <1>12, <1>13 DEF ImportInv

\* The call ends, and what was accepted before still is.
LEMMA EndKeeps ==
    ASSUME ImportInv, UNCHANGED <<scenario, accepted>>, NEW result, CallEnds(result), result # "drift"
    PROVE  ImportInv'
<1>1. ImportTypes'
  BY DEF ImportInv, ImportTypes, CallEnds, Phases
<1> QED
  BY <1>1 DEF ImportInv, CallEnds

\* The phase alone moves on.
LEMMA PhaseKeeps ==
    ASSUME ImportInv, phase # "idle", UNCHANGED <<scenario, accepted, manifest, outcome>>,
           inserted' \in Nat, phase' \in Phases \ {"idle"},
           ListsInv(Context, manifest)'
    PROVE  ImportInv'
<1>1. ImportTypes'
  BY DEF ImportInv, ImportTypes
<1>2. Context' = Context
  BY DEF Context, ContextOf
<1>3. ManifestInv(Context, manifest)'
  BY <1>2 DEF ImportInv, ManifestInv
<1>4. Stored(accepted)' /\ outcome' # "drift"
  BY DEF ImportInv
<1> QED
  BY <1>1, <1>3, <1>4 DEF ImportInv

\* What is checked when a list has been read.
LEMMA NextListKeeps ==
    ASSUME ImportInv, UNCHANGED scenario, NextList
    PROVE  ImportInv'
<1>1. PICK i \in 1..4 : /\ phase = Reading[i] /\ ListOk(phase) /\ phase' = Reading[i + 1]
                        /\ UNCHANGED <<accepted, manifest, inserted, outcome>>
  <2>1. Len(Reading) = 5
    BY DEF Reading
  <2> QED
    BY <2>1 DEF NextList
<1>2. Context' = Context
  BY <1>1 DEF Context, ContextOf
<1>3. phase # "idle" /\ phase' \in Phases \ {"idle"} /\ inserted' \in Nat
  BY <1>1, TableNames DEF Phases, ImportInv, ImportTypes
<1>4. ListsInv(Context, manifest)
  BY <1>3 DEF ImportInv
<1>5. ListsInv(Context, manifest)'
  <2>1. CASE i = 1
    BY <1>1, <1>2, <1>4, <2>1, TableNames DEF ListsInv, Unread
  <2>2. CASE i = 2
    BY <1>1, <1>2, <1>4, <2>2, TableNames DEF ListsInv, Unread
  <2>3. CASE i = 3
    <3>1. CustodyComplete(Context, manifest) /\ LineageStands(Context, manifest)
      BY <1>1, <2>3, TableNames DEF ListOk
    <3> QED
      BY <1>1, <1>2, <1>4, <2>3, <3>1, TableNames DEF ListsInv, Unread
  <2>4. CASE i = 4
    <3>1. DerivedGrounded(Context, manifest)
      BY <1>1, <2>4, TableNames DEF ListOk
    <3> QED
      BY <1>1, <1>2, <1>4, <2>4, <3>1, TableNames DEF ListsInv, Unread
  <2> QED
    BY <2>1, <2>2, <2>3, <2>4
<1> QED
  BY <1>1, <1>3, <1>5, PhaseKeeps

LEMMA PlanKeeps ==
    ASSUME ImportInv, UNCHANGED scenario, Plan
    PROVE  ImportInv'
<1>1. phase = "candidates" /\ DependenciesUsed(Context, manifest)
  BY DEF Plan, ListOk
<1>2. CASE InsertReceipt(Context.receipts, manifest)
  <2>1. phase' = "writing" /\ UNCHANGED <<accepted, manifest, inserted, outcome>>
    BY <1>2 DEF Plan
  <2>2. Context' = Context
    BY <2>1 DEF Context, ContextOf
  <2>3. ListsInv(Context, manifest)'
    BY <1>1, <2>1, <2>2, TableNames DEF ImportInv, ListsInv
  <2> QED
    BY <1>1, <2>1, <2>3, PhaseKeeps DEF Phases, ImportInv, ImportTypes
<1>3. CASE ~InsertReceipt(Context.receipts, manifest)
  BY <1>3, EndKeeps DEF Plan
<1> QED
  BY <1>2, <1>3

\* The transaction changes neither the manifest nor what was accepted.
LEMMA WriteTableKeeps ==
    ASSUME ImportInv, UNCHANGED scenario, WriteTable \/ Commit
    PROVE  ImportInv'
<1>1. phase = "writing" /\ inserted \in Nat
  BY DEF WriteTable, Commit, ImportInv, ImportTypes
<1>2. CASE UNCHANGED <<accepted, manifest, outcome>> /\ phase' \in {"writing", "verifying"} /\ inserted' \in Nat
  <2>1. Context' = Context
    BY <1>2 DEF Context, ContextOf
  <2>2. ListsInv(Context, manifest)'
    BY <1>1, <1>2, <2>1, TableNames DEF ImportInv, ListsInv
  <2> QED
    BY <1>1, <1>2, <2>2, PhaseKeeps DEF Phases
<1>3. CASE CallEnds("rejected") /\ UNCHANGED accepted
  BY <1>3, EndKeeps
<1> QED
  BY <1>1, <1>2, <1>3 DEF WriteTable, Commit

\* What was checked row by row and list by list is the whole preflight.
LEMMA AllAccepts ==
    ASSUME ImportInv, phase = "verifying"
    PROVE  PreflightAccepts(Context, manifest)
<1>1. ManifestInv(Context, manifest) /\ ListsInv(Context, manifest)
  BY DEF ImportInv
<1> QED
  BY <1>1 DEF ManifestInv, ListsInv, RowsOk, PreflightAccepts

LEMMA BundleIs ==
    ASSUME NEW m \in Manifests, NEW b, b.created = m.created, b.required = m.required, b.rows = m.rows
    PROVE  Bundle(b, m.seq) = m
  BY DEF Bundle, Manifests

\* A bundle more changes nothing for those before it.
LEMMA ReplayStays ==
    ASSUME NEW S \in Seq(Accepted), NEW b \in Accepted, NEW k \in DOMAIN S
    PROVE  Replay(Append(S, b), k) <=> Replay(S, k)
<1>1. k \in 1..(Len(S) + 1) /\ Append(S, b)[k] = S[k]
  OBVIOUS
<1>2. ContextOf(Append(S, b), k) = ContextOf(S, k)
  BY <1>1, ContextStays
<1> QED
  BY <1>1, <1>2 DEF Replay

\* The bundle that was read passes its replay, and so do those before it.
LEMMA CandidateStored ==
    ASSUME ImportInv, phase = "verifying"
    PROVE  Stored(Candidate) /\ Candidate \in Seq(Accepted)
<1> DEFINE b == [created |-> manifest.created, required |-> manifest.required, rows |-> manifest.rows]
<1>1. manifest \in Manifests /\ accepted \in Seq(Accepted) /\ ManifestInv(Context, manifest)
  BY DEF ImportInv, ImportTypes
<1>2. b \in Accepted /\ b.created = manifest.created /\ b.required = manifest.required /\ b.rows = manifest.rows
  BY <1>1 DEF Manifests, Accepted
<1>3. Candidate = Append(accepted, b)
  BY DEF Candidate
<1> HIDE DEF b
<1>4. Candidate \in Seq(Accepted) /\ DOMAIN Candidate = DOMAIN accepted \cup {Len(accepted) + 1}
      /\ Candidate[Len(accepted) + 1] = b /\ \A k \in DOMAIN accepted : Candidate[k] = accepted[k]
  BY <1>1, <1>2, <1>3
<1>5. \A k \in DOMAIN accepted : Formed(Candidate[k].rows, k) /\ Replay(Candidate, k)
  BY <1>1, <1>2, <1>3, <1>4, ReplayStays DEF ImportInv, Stored
<1>6. Formed(Candidate[Len(accepted) + 1].rows, Len(accepted) + 1)
  BY <1>1, <1>2, <1>4 DEF ManifestInv
<1>7. Replay(Candidate, Len(accepted) + 1)
  <2>1. manifest.seq = Len(accepted) + 1
    BY <1>1 DEF ManifestInv
  <2>2. Bundle(b, Len(accepted) + 1) = manifest
    BY <1>1, <1>2, <2>1, BundleIs
  <2>3. Len(accepted) + 1 \in 1..(Len(accepted) + 1)
    BY <1>1
  <2>4. ContextOf(Candidate, Len(accepted) + 1) = Context
    BY <1>1, <1>3, <2>3, ContextStays DEF Context
  <2> QED
    BY <1>4, <2>2, <2>4, AllAccepts DEF Replay
<1> QED
  BY <1>4, <1>5, <1>6, <1>7 DEF Stored

\* Bundles that pass their replay do not drift.
LEMMA StoredVerifies ==
    ASSUME NEW S, Stored(S), NEW k, 1..k \subseteq DOMAIN S, NEW good, good # "drift"
    PROVE  Verification(S, k, good) # "drift"
  BY DEF Verification, Stored

LEMMA ConcludeKeeps ==
    ASSUME ImportInv, UNCHANGED scenario, Conclude
    PROVE  ImportInv'
<1>1. phase = "verifying"
  BY DEF Conclude
<1>2. Stored(Candidate) /\ Candidate \in Seq(Accepted)
  BY <1>1, CandidateStored
<1> DEFINE verdict == Verification(Candidate, Len(Candidate), "verified")
<1>3. verdict # "drift"
  <2>1. 1..Len(Candidate) \subseteq DOMAIN Candidate
    BY <1>2
  <2> QED
    BY <1>2, <2>1, StoredVerifies
<1>4. CallEnds(verdict) /\ accepted' \in {accepted, Candidate}
  BY DEF Conclude
<1> HIDE DEF verdict
<1>5. Stored(accepted)' /\ accepted' \in Seq(Accepted)
  <2>1. CASE accepted' = accepted
    BY <2>1 DEF ImportInv, ImportTypes
  <2>2. CASE accepted' = Candidate
    BY <1>2, <2>2 DEF Stored, Replay, ContextOf
  <2> QED
    BY <1>4, <2>1, <2>2
<1>6. ImportTypes'
  BY <1>4, <1>5 DEF ImportInv, ImportTypes, CallEnds, Phases
<1> QED
  BY <1>3, <1>4, <1>5, <1>6 DEF ImportInv, CallEnds

LEMMA VerifyKeeps ==
    ASSUME ImportInv, UNCHANGED scenario, NEW k \in DOMAIN accepted, Verify(k)
    PROVE  ImportInv'
<1>1. 1..k \subseteq DOMAIN accepted
  BY DEF ImportInv, ImportTypes
<1>2. Verification(accepted, k, "no_op") # "drift"
  BY <1>1, StoredVerifies DEF ImportInv
<1> QED
  BY <1>2, EndKeeps DEF Verify

LEMMA ImportBegins == ImportInit => ImportInv
<1> SUFFICES ASSUME ImportInit
             PROVE  ImportInv
  OBVIOUS
<1>1. accepted = <<>> /\ accepted \in Seq(Accepted) /\ DOMAIN accepted = {}
  BY DEF ImportInit
<1> QED
  BY <1>1, OutcomeAssumption DEF ImportInit, ImportInv, ImportTypes, Stored, Phases, Outcomes

\* Every step keeps the invariant.
LEMMA ImportStep == ImportInv /\ [ImportNext]_importVars => ImportInv'
<1> SUFFICES ASSUME ImportInv, [ImportNext]_importVars
             PROVE  ImportInv'
  OBVIOUS
<1>1. CASE UNCHANGED importVars
  <2>1. UNCHANGED <<scenario, accepted, manifest, phase, inserted, outcome>>
    BY <1>1 DEF importVars
  <2>2. Context' = Context
    BY <2>1 DEF Context, ContextOf
  <2>3. ImportTypes' /\ Stored(accepted)'
    BY <2>1 DEF ImportInv, ImportTypes
  <2>4. phase # "idle" => ManifestInv(Context, manifest)' /\ ListsInv(Context, manifest)'
    BY <2>1, <2>2 DEF ImportInv, ManifestInv, ListsInv
  <2> QED
    BY <2>1, <2>3, <2>4 DEF ImportInv
<1>2. CASE ImportNext
  <2>1. UNCHANGED scenario
    BY <1>2 DEF ImportNext
  <2>2. ASSUME NEW created \in scenario.created, NEW required \in SUBSET DOMAIN accepted, ReadHeader(created, required)
        PROVE  ImportInv'
    BY <2>1, <2>2, ReadHeaderKeeps
  <2>3. CASE ReadArtifact \/ ReadEvent \/ ReadCustody \/ ReadRun \/ ReadCandidate
    BY <2>1, <2>3, ReadArtifactKeeps, ReadEventKeeps, ReadCustodyKeeps, ReadRunKeeps, ReadCandidateKeeps
  <2>4. CASE NextList \/ Plan
    BY <2>1, <2>4, NextListKeeps, PlanKeeps
  <2>5. CASE Refuse \/ WorkerDies
    BY <2>1, <2>5, EndKeeps DEF Refuse, WorkerDies
  <2>6. CASE WriteTable \/ Commit
    BY <2>1, <2>6, WriteTableKeeps
  <2>7. CASE Conclude
    BY <2>1, <2>7, ConcludeKeeps
  <2>8. ASSUME NEW k \in DOMAIN accepted, Verify(k)
        PROVE  ImportInv'
    BY <2>1, <2>8, VerifyKeeps
  <2> QED
    BY <1>2, <2>2, <2>3, <2>4, <2>5, <2>6, <2>7, <2>8 DEF ImportNext
<1> QED
  BY <1>1, <1>2

\* The invariant of the import: the rows of the manifest passed their checks, and every
\* accepted bundle passes its replay (coordinator.mjs, verifier.mjs).
LEMMA AlwaysImport == ImportSpec => []ImportInv
  BY ImportBegins, ImportStep, PTL DEF ImportSpec

\* A bundle once written passes the preflight again, against the bundles before
\* it, whatever later bundles have done (verifier.mjs).
THEOREM WrittenReplays == ImportSpec => []ReplayAccepts
<1>1. ImportInv => ReplayAccepts
  BY DEF ImportInv, ReplayAccepts
<1> QED
  BY <1>1, AlwaysImport, PTL


-----------------------------------------------------------------------------
(* What a body or a run leads to.                                          *)

\* Any numbers that there are have a least one among them.
LEMMA LeastNumber ==
    ASSUME NEW T \in SUBSET Nat, T # {}
    PROVE  \E n \in T : \A k \in T : n <= k
<1> DEFINE R == OpToRel(<, Nat)
<1>1. IsWellFoundedOn(R, Nat)
  BY NatLessThanWellFounded
<1> HIDE DEF R
<1>2. PICK n \in T : \A k \in T : ~(<<k, n>> \in R)
  BY <1>1, WFMin
<1>3. \A k \in Nat : k < n => <<k, n>> \in R
  BY DEF R, OpToRel
<1>4. \A k \in T : ~(k < n)
  BY <1>2, <1>3
<1> QED
  BY <1>4

\* The last place of a run of places.
LEMMA LargestPlace ==
    ASSUME NEW n \in Nat, NEW T \in SUBSET (1..n), T # {}
    PROVE  Max(T) \in T /\ \A y \in T : Max(T) >= y
<1> DEFINE U == { i \in Nat : n - i \in T }
<1>1. PICK x \in T : TRUE
  OBVIOUS
<1>2. n - x \in U
  BY <1>1
<1>3. PICK i \in U : \A k \in U : i <= k
  BY <1>2, LeastNumber
<1>4. \A y \in T : n - i >= y
  <2> SUFFICES ASSUME NEW y \in T
               PROVE  n - i >= y
    OBVIOUS
  <2>1. n - y \in U
    OBVIOUS
  <2>2. i <= n - y
    BY <1>3, <2>1
  <2> QED
    BY <2>2
<1>5. n - i \in T
  OBVIOUS
<1> QED
  BY <1>4, <1>5 DEF Max

\* The step of the fold, and what it computes: a function on the sets of places.
Ground(known, q, outputs) ==
  IF q.input \in known THEN known \cup {o.art : o \in {o \in outputs : Code(o) = Code(q)}}
  ELSE known
Folds(f, D, base, seq, outputs) ==
  f = [s \in SUBSET D |->
         IF s = {} THEN base ELSE Ground(f[s \ {Max(s)}], seq[Max(s)], outputs)]

\* What is grounded is a function of the places done, as FoldLeft defines it.
LEMMA GroundedFolds ==
    ASSUME NEW events, NEW runs, NEW outputs
    PROVE  LET seq == InOrder(runs)
               base == {e.artifact : e \in events} \ {None}
           IN GroundedIn(events, runs, outputs) =
                (CHOOSE f : Folds(f, DOMAIN seq, base, seq, outputs))[DOMAIN seq]
  BY DEF GroundedIn, FoldLeft, MapThenFoldSet, Folds, Ground

\* The function is built up by the number of places.
LEMMA FoldExists ==
    ASSUME NEW base, NEW seq, NEW outputs, NEW n \in Nat
    PROVE  \E f : Folds(f, 1..n, base, seq, outputs)
<1> DEFINE Bad == { m \in Nat : ~ \E f : Folds(f, 1..m, base, seq, outputs) }
<1> SUFFICES ASSUME Bad # {}
             PROVE  FALSE
  OBVIOUS
<1>1. PICK m \in Bad : \A k \in Bad : m <= k
  BY LeastNumber
<1>2. CASE m = 0
  <2> DEFINE f == [s \in SUBSET (1..0) |-> base]
  <2>1. \A s \in SUBSET (1..0) : s = {}
    OBVIOUS
  <2>2. f = [s \in SUBSET (1..0) |->
               IF s = {} THEN base ELSE Ground(f[s \ {Max(s)}], seq[Max(s)], outputs)]
    BY <2>1
  <2>3. Folds(f, 1..0, base, seq, outputs)
    BY <2>2 DEF Folds
  <2> QED
    BY <1>1, <1>2, <2>3
<1>3. CASE m # 0
  <2>1. m - 1 \in Nat /\ m - 1 \notin Bad
    BY <1>1, <1>3
  <2>2. PICK g : Folds(g, 1..(m - 1), base, seq, outputs)
    BY <2>1
  <2> DEFINE f == [s \in SUBSET (1..m) |->
                     IF m \in s THEN Ground(g[s \ {m}], seq[m], outputs) ELSE g[s]]
  <2>3. ASSUME NEW s \in SUBSET (1..m)
        PROVE  f[s] = IF s = {} THEN base ELSE Ground(f[s \ {Max(s)}], seq[Max(s)], outputs)
    <3>1. CASE m \in s
      <4>1. Max(s) = m
        <5>1. Max(s) \in s /\ \A y \in s : Max(s) >= y
          BY <1>1, <3>1, LargestPlace
        <5>2. Max(s) \in 1..m /\ Max(s) >= m
          BY <3>1, <5>1
        <5> QED
          BY <5>2, <1>1
      <4>2. f[s \ {m}] = g[s \ {m}]
        OBVIOUS
      <4> QED
        BY <3>1, <4>1, <4>2
    <3>2. CASE m \notin s
      <4>1. s \in SUBSET (1..(m - 1)) /\ f[s] = g[s]
        BY <1>1, <3>2
      <4>2. g[s] = IF s = {} THEN base ELSE Ground(g[s \ {Max(s)}], seq[Max(s)], outputs)
        BY <2>2, <4>1 DEF Folds
      <4>3. f[s \ {Max(s)}] = g[s \ {Max(s)}]
        BY <3>2
      <4> QED
        BY <4>1, <4>2, <4>3
    <3> QED
      BY <3>1, <3>2
  <2>4. f = [s \in SUBSET (1..m) |->
               IF s = {} THEN base ELSE Ground(f[s \ {Max(s)}], seq[Max(s)], outputs)]
    <3> HIDE DEF f
    <3> QED
      BY <2>3 DEF f
  <2>5. Folds(f, 1..m, base, seq, outputs)
    BY <2>4 DEF Folds
  <2> QED
    BY <1>1, <2>5
<1> QED
  BY <1>2, <1>3

\* It holds nothing but the base and what the outputs produced.
LEMMA FoldBound ==
    ASSUME NEW base, NEW seq, NEW outputs, NEW n \in Nat, NEW f, Folds(f, 1..n, base, seq, outputs)
    PROVE  f[1..n] \subseteq base \cup { o.art : o \in outputs }
<1> DEFINE B == base \cup { o.art : o \in outputs }
           Bad == { m \in 0..n : ~(f[1..m] \subseteq B) }
<1> SUFFICES ASSUME Bad # {}
             PROVE  FALSE
  <2>1. n \in 0..n
    OBVIOUS
  <2> QED
    BY <2>1
<1>0. Bad \in SUBSET Nat
  OBVIOUS
<1>1. PICK m \in Bad : \A k \in Bad : m <= k
  <2> HIDE DEF Bad
  <2> QED
    BY <1>0, LeastNumber
<1>2. m \in 0..n /\ 1..m \in SUBSET (1..n)
  OBVIOUS
<1>3. f[1..m] = IF 1..m = {} THEN base ELSE Ground(f[(1..m) \ {Max(1..m)}], seq[Max(1..m)], outputs)
  BY <1>2 DEF Folds
<1>4. CASE m = 0
  <2>1. 1..m = {}
    BY <1>4
  <2> QED
    BY <1>1, <1>3, <2>1
<1>5. CASE m # 0
  <2>1. m \in 1..m /\ m \in Nat
    BY <1>2, <1>5
  <2>2. Max(1..m) \in 1..m /\ \A y \in 1..m : Max(1..m) >= y
    BY <2>1, LargestPlace
  <2>3. Max(1..m) \in 1..m /\ Max(1..m) >= m
    BY <2>1, <2>2
  <2>4. Max(1..m) = m
    BY <2>1, <2>3
  <2>5. (1..m) \ {m} = 1..(m - 1)
    BY <2>1
  <2>6. f[1..m] = Ground(f[1..(m - 1)], seq[m], outputs)
    BY <1>3, <2>1, <2>4, <2>5
  <2>7. m - 1 \notin Bad /\ m - 1 \in 0..n
    BY <1>1, <1>2, <1>5
  <2>8. f[1..(m - 1)] \subseteq B
    BY <2>7
  <2>9. f[1..m] \subseteq B
    BY <2>6, <2>8 DEF Ground
  <2> QED
    BY <1>1, <2>9
<1> QED
  BY <1>4, <1>5

\* Nothing is grounded but what was retained or produced.
LEMMA GroundedBound ==
    ASSUME NEW events, NEW runs, NEW outputs, IsFiniteSet(runs)
    PROVE  GroundedIn(events, runs, outputs) \subseteq
             ({ e.artifact : e \in events } \ {None}) \cup { o.art : o \in outputs }
<1> DEFINE seq == InOrder(runs)
           base == { e.artifact : e \in events } \ {None}
           n == Cardinality(runs)
<1>1. n \in Nat
  BY FS_CardinalityType
<1>2. DOMAIN seq = 1..n
  BY DEF InOrder
<1>3. Folds(CHOOSE f : Folds(f, 1..n, base, seq, outputs), 1..n, base, seq, outputs)
  BY <1>1, FoldExists
<1>4. GroundedIn(events, runs, outputs) = (CHOOSE f : Folds(f, DOMAIN seq, base, seq, outputs))[DOMAIN seq]
  BY GroundedFolds
<1> HIDE DEF seq, base, n
<1>5. GroundedIn(events, runs, outputs) = (CHOOSE f : Folds(f, 1..n, base, seq, outputs))[1..n]
  BY <1>2, <1>4
<1>6. GroundedIn(events, runs, outputs) \subseteq base \cup { o.art : o \in outputs }
  BY <1>1, <1>3, <1>5, FoldBound
<1> QED
  BY <1>6 DEF base

-----------------------------------------------------------------------------
(* Lineage.                                                                *)

\* What an accepted bundle was found to be.
LEMMA StoredBundle ==
    ASSUME ImportTypes, Stored(accepted), NEW j \in DOMAIN accepted
    PROVE  LET m == Bundle(accepted[j], j)
               ctx == ContextOf(accepted, j)
           IN
           /\ j \in Nat /\ m.seq = j /\ m.rows = accepted[j].rows /\ Formed(m.rows, j)
           /\ PreflightAccepts(ctx, m)
           /\ \A t \in Tables : \A r :
                r \in ctx.rows[t] <=> \E i \in DOMAIN accepted : i < j /\ r \in accepted[i].rows[t]
           /\ \A t \in Tables : IsFiniteSet(accepted[j].rows["runs"])
<1>1. DOMAIN accepted = 1..Len(accepted) /\ Len(accepted) \in Nat /\ j \in Nat
  BY DEF ImportTypes
<1> QED
  BY <1>1, ContextParts DEF ImportTypes, Stored, Replay, Bundle, Formed

\* A row of an accepted bundle is on record, under that bundle's sequence.
LEMMA RowTable ==
    ASSUME ImportTypes, Stored(accepted), NEW j \in DOMAIN accepted, NEW t \in Tables, NEW r \in accepted[j].rows[t]
    PROVE  r \in RowOf[t] /\ r.seq = j /\ r.n \in Nat /\ j \in Nat /\ r \in Evidence[t]
<1>1. Formed(accepted[j].rows, j) /\ DOMAIN accepted = 1..Len(accepted) /\ Len(accepted) \in Nat
  BY DEF Stored, ImportTypes
<1> QED
  BY <1>1, FormedRows, RowCodes, ContextRows DEF Evidence

RunsThrough(i) == UNION { accepted[j].rows["runs"] : j \in 1..i }

\* The runs on record are finitely many.
LEMMA FiniteRuns ==
    ASSUME ImportTypes, Stored(accepted), NEW k \in 1..(Len(accepted) + 1)
    PROVE  IsFiniteSet(ContextOf(accepted, k).rows["runs"])
<1> DEFINE Bad == { i \in 0..(k - 1) : ~IsFiniteSet(RunsThrough(i)) }
<1>1. Len(accepted) \in Nat /\ DOMAIN accepted = 1..Len(accepted) /\ k \in Nat /\ k - 1 \in Nat
  BY DEF ImportTypes
<1>2. Bad \in SUBSET Nat
  OBVIOUS
<1>3. ASSUME Bad # {}
      PROVE  FALSE
  <2>1. PICK m \in Bad : \A i \in Bad : m <= i
    <3> HIDE DEF Bad
    <3> QED
      BY <1>2, <1>3, LeastNumber
  <2>2. CASE m = 0
    <3>1. RunsThrough(0) = {}
      BY DEF RunsThrough
    <3> QED
      BY <2>1, <2>2, <3>1, FS_EmptySet
  <2>3. CASE m # 0
    <3>1. m - 1 \in 0..(k - 1) /\ m \in 1..(k - 1)
      BY <1>1, <2>1, <2>3
    <3>2. IsFiniteSet(RunsThrough(m - 1))
      <4>1. m - 1 \notin Bad
        BY <1>1, <2>1, <2>3
      <4> QED
        BY <3>1, <4>1
    <3>3. 1..m = 1..(m - 1) \cup {m}
      BY <3>1
    <3>4. RunsThrough(m) = RunsThrough(m - 1) \cup accepted[m].rows["runs"]
      <4>1. \A r : r \in RunsThrough(m) <=> \E j \in 1..m : r \in accepted[j].rows["runs"]
        BY DEF RunsThrough
      <4>2. \A r : r \in RunsThrough(m - 1) <=> \E j \in 1..(m - 1) : r \in accepted[j].rows["runs"]
        BY DEF RunsThrough
      <4> QED
        BY <3>3, <4>1, <4>2
    <3>5. IsFiniteSet(accepted[m].rows["runs"])
      <4>1. m \in DOMAIN accepted
        BY <3>1, <1>1
      <4> QED
        BY <4>1 DEF Stored, Formed
    <3> QED
      BY <2>1, <3>2, <3>4, <3>5, FS_Union
  <2> QED
    BY <2>2, <2>3
<1>4. k - 1 \in 0..(k - 1) /\ k - 1 \notin Bad
  BY <1>1, <1>3
<1>5. { j \in DOMAIN accepted : j < k } = 1..(k - 1)
  BY <1>1
<1>6. ContextOf(accepted, k).rows["runs"] = RunsThrough(k - 1)
  BY <1>5, TableNames DEF ContextOf, RunsThrough
<1> QED
  BY <1>4, <1>6

\* Every derived artifact on record was produced by a run, in its own bundle or before:
\* by the bundle that introduced it first, which found it grounded (DerivedGrounded).
LEMMA DerivedProduced ==
    ASSUME ImportTypes, Stored(accepted), NEW a \in Evidence.artifacts, a.art \in Derived
    PROVE  \E o \in Evidence.outputs : o.art = a.art
<1>1. PICK j \in DOMAIN accepted : a \in accepted[j].rows["artifacts"]
  BY ContextRows, TableNames DEF Evidence
<1> DEFINE ctx == ContextOf(accepted, j)
           m == Bundle(accepted[j], j)
           seen == Seen(ctx, m)
<1>2. /\ PreflightAccepts(ctx, m) /\ m.rows = accepted[j].rows
      /\ \A t \in Tables : \A r :
           r \in ctx.rows[t] <=> \E i \in DOMAIN accepted : i < j /\ r \in accepted[i].rows[t]
      /\ IsFiniteSet(accepted[j].rows["runs"])
  BY StoredBundle, TableNames
<1>3. \A t \in Tables : seen[t] = ctx.rows[t] \cup m.rows[t]
  BY SeenParts
<1>4. \A t \in Tables : \A r \in seen[t] : \E i \in DOMAIN accepted : r \in accepted[i].rows[t]
  BY <1>2, <1>3
<1>5. IsFiniteSet(seen["runs"])
  <2>1. j \in 1..(Len(accepted) + 1)
    BY DEF ImportTypes
  <2>2. IsFiniteSet(ctx.rows["runs"]) /\ IsFiniteSet(m.rows["runs"])
    BY <1>2, <2>1, FiniteRuns
  <2>3. seen["runs"] = ctx.rows["runs"] \cup m.rows["runs"]
    BY <1>3, TableNames
  <2> HIDE DEF seen, ctx, m
  <2> QED
    BY <2>2, <2>3, FS_Union
<1>6. a.art \in GroundedIn(seen["events"], seen["runs"], seen["outputs"])
  BY <1>1, <1>2 DEF PreflightAccepts, DerivedGrounded
<1> HIDE DEF seen, ctx, m
<1>7. a.art \in ({ e.artifact : e \in seen["events"] } \ {None}) \cup { o.art : o \in seen["outputs"] }
  BY <1>5, <1>6, GroundedBound
<1>8. \A e \in seen["events"] : e.artifact \in Bodies \cup {None}
  <2>1. \A e \in seen["events"] : e \in EventRow
    BY <1>4, RowTable, TableNames DEF RowOf
  <2> QED
    BY <2>1 DEF EventRow
<1>9. PICK o \in seen["outputs"] : o.art = a.art
  BY <1>7, <1>8, EvidenceAssumption
<1>10. o \in Evidence["outputs"]
  BY <1>4, <1>9, RowTable, TableNames
<1> QED
  BY <1>9, <1>10

\* The body of an artifact on record was retrieved by the bundle that introduced it.
LEMMA BodyRetrieved ==
    ASSUME ImportTypes, Stored(accepted), NEW i \in DOMAIN accepted, NEW a \in accepted[i].rows["artifacts"],
           a.art \in Bodies
    PROVE  \E e \in Evidence.events : e.artifact = a.art /\ e.seq = i /\ e.completed <= a.recorded /\ e \in EventRow
<1>1. OriginOk(Bundle(accepted[i], i)) /\ Bundle(accepted[i], i).rows = accepted[i].rows
  BY StoredBundle DEF PreflightAccepts, CustodyComplete
<1>2. PICK e \in accepted[i].rows["events"] : e.artifact = a.art /\ e.completed <= a.recorded
  BY <1>1 DEF OriginOk
<1>3. e \in RowOf["events"] /\ e.seq = i /\ e \in Evidence["events"]
  BY <1>2, RowTable, TableNames
<1> QED
  BY <1>2, <1>3 DEF RowOf

\* Every run on record worked on a body retained before it started, or on what an earlier
\* run produced: a check the bundle of the run passed, and later bundles leave as it is.
LEMMA RunFounded ==
    ASSUME ImportTypes, Stored(accepted), NEW q \in Evidence.runs
    PROVE  IF q.input \in Bodies
           THEN \E e \in Evidence.events : e.artifact = q.input /\ e.seq <= q.seq /\ e.completed <= q.started
           ELSE \E o \in Evidence.outputs : o.art = q.input /\ Earlier(o, q)
<1>1. PICK j \in DOMAIN accepted : q \in accepted[j].rows["runs"]
  BY ContextRows, TableNames DEF Evidence
<1> DEFINE ctx == ContextOf(accepted, j)
           m == Bundle(accepted[j], j)
           seen == Before(ctx, m, {"runs", "outputs"}, q)
<1>2. /\ RunOk(ctx, m, q) /\ m.rows = accepted[j].rows
      /\ \A t \in Tables : \A r :
           r \in ctx.rows[t] <=> \E i \in DOMAIN accepted : i < j /\ r \in accepted[i].rows[t]
      /\ IsFiniteSet(accepted[j].rows["runs"])
  BY <1>1, StoredBundle, TableNames DEF PreflightAccepts
<1>3. q \in RunRow /\ q.seq = j /\ q.n \in Nat /\ j \in Nat
  BY <1>1, RowTable, TableNames DEF RowOf
<1>4. \A t \in Tables : seen[t] = ctx.rows[t] \cup
        (IF t \in {"runs", "outputs"} THEN { p \in m.rows[t] : p.n < q.n } ELSE m.rows[t])
  BY BeforeParts
<1>5. \A t \in Tables : \A r \in seen[t] : \E i \in DOMAIN accepted :
        /\ r \in accepted[i].rows[t] /\ i \in Nat
        /\ i < j \/ (i = j /\ (t \in {"runs", "outputs"} => r.n < q.n))
  <2>1. \A i \in DOMAIN accepted : i \in Nat
    BY DEF ImportTypes
  <2> HIDE DEF seen, ctx, m
  <2> QED
    BY <1>2, <1>4, <2>1
<1>6. /\ q.input \in GroundedIn(seen["events"], seen["runs"], seen["outputs"])
      /\ \E a \in seen["artifacts"] : a.art = q.input /\ a.recorded <= q.started
  BY <1>2 DEF RunOk
<1>7. IsFiniteSet(seen["runs"])
  <2>1. j \in 1..(Len(accepted) + 1)
    BY DEF ImportTypes
  <2>2. { p \in m.rows["runs"] : p.n < q.n } \in SUBSET m.rows["runs"]
    OBVIOUS
  <2>3. IsFiniteSet({ p \in m.rows["runs"] : p.n < q.n })
    BY <1>2, <2>2, FS_Subset
  <2>4. IsFiniteSet(ctx.rows["runs"])
    BY <2>1, FiniteRuns
  <2> DEFINE own == { p \in m.rows["runs"] : p.n < q.n }
             past == ctx.rows["runs"]
  <2>5. seen["runs"] = past \cup own
    BY <1>4, TableNames
  <2>6. IsFiniteSet(own)
    BY <2>3
  <2>7. IsFiniteSet(past)
    BY <2>4
  <2> HIDE DEF seen, ctx, m, own, past
  <2> QED
    BY <2>6, <2>7, <2>5, FS_Union
<1> HIDE DEF seen, ctx, m
<1>8. CASE q.input \in Bodies
  <2>1. PICK a \in seen["artifacts"] : a.art = q.input /\ a.recorded <= q.started
    BY <1>6
  <2>2. PICK i \in DOMAIN accepted : a \in accepted[i].rows["artifacts"] /\ i \in Nat /\ i <= j
    BY <1>3, <1>5, <2>1, TableNames
  <2>3. a \in ArtifactRow
    BY <2>2, RowTable, TableNames DEF RowOf
  <2>4. PICK e \in Evidence.events : e.artifact = a.art /\ e.seq = i /\ e.completed <= a.recorded /\ e \in EventRow
    BY <1>8, <2>1, <2>2, BodyRetrieved
  <2>5. e.completed \in Nat /\ a.recorded \in Nat /\ q.started \in Nat
    BY <1>3, <2>3, <2>4 DEF EventRow, ArtifactRow, RunRow
  <2> QED
    BY <1>3, <1>8, <2>1, <2>2, <2>4, <2>5
<1>9. CASE q.input \notin Bodies
  <2>1. q.input \in ({ e.artifact : e \in seen["events"] } \ {None}) \cup { o.art : o \in seen["outputs"] }
    BY <1>6, <1>7, GroundedBound
  <2>2. \A e \in seen["events"] : e.artifact \in Bodies \cup {None}
    <3>1. \A e \in seen["events"] : e \in EventRow
      BY <1>5, RowTable, TableNames DEF RowOf
    <3> QED
      BY <3>1 DEF EventRow
  <2>3. PICK o \in seen["outputs"] : o.art = q.input
    BY <1>9, <2>1, <2>2
  <2>4. PICK i \in DOMAIN accepted : /\ o \in accepted[i].rows["outputs"] /\ i \in Nat
                                     /\ i < j \/ (i = j /\ o.n < q.n)
    BY <1>5, <2>3, TableNames
  <2>5. o.seq = i /\ o \in Evidence["outputs"]
    BY <2>4, RowTable, TableNames
  <2>6. Earlier(o, q)
    BY <1>3, <2>4, <2>5 DEF Earlier
  <2> QED
    BY <1>9, <2>3, <2>5, <2>6
<1> QED
  BY <1>8, <1>9

\* Every derived artifact on record was produced by a run, and every run worked on a
\* body retained before it started or on what a run before it produced
\* (preflight.mjs): no lineage is circular, whichever bundles hold its links.
THEOREM LineageIsGrounded == ImportSpec => []LineageGrounded
<1>1. ImportInv => LineageGrounded
  BY DerivedProduced, RunFounded DEF ImportInv, LineageGrounded
<1> QED
  BY <1>1, AlwaysImport, PTL

-----------------------------------------------------------------------------
(* What the transaction sees.                                              *)

WritingNow ==
  /\ ImportTypes /\ Stored(accepted) /\ ManifestInv(Context, manifest) /\ CustodyComplete(Context, manifest)
  /\ manifest \in Manifests

\* The tables as they are when row r of table t enters.
Rows(t, r) == [Database EXCEPT ![t] = @ \cup { q \in manifest.rows[t] : q.n < r.n }]

\* What a trigger sees: the context, the tables filled before, the table's earlier rows.
LEMMA RowsParts ==
    ASSUME NEW r, NEW t \in Tables, NEW u \in Tables
    PROVE  Rows(t, r)[u] = Context.rows[u]
             \cup (IF \E i \in 1..inserted : PlanTables[i] = u THEN manifest.rows[u] ELSE {})
             \cup (IF u = t THEN { q \in manifest.rows[t] : q.n < r.n } ELSE {})
<1>1. Database[u] = Context.rows[u] \cup (IF \E i \in 1..inserted : PlanTables[i] = u THEN manifest.rows[u] ELSE {})
  BY DEF Database, Merge
<1>2. Database = [v \in Tables |-> Database[v]]
  BY DEF Database, Merge
<1> QED
  BY <1>1, <1>2 DEF Rows

LEMMA RowsSeen ==
    ASSUME inserted \in Nat, inserted < 6, NEW t, t = PlanTables[inserted + 1], NEW r
    PROVE  /\ t \in Tables
           /\ \A u \in Tables : u = t => Rows(t, r)[u] = Context.rows[u] \cup { q \in manifest.rows[u] : q.n < r.n }
           /\ \A i \in 1..inserted : Rows(t, r)[PlanTables[i]] = Context.rows[PlanTables[i]] \cup manifest.rows[PlanTables[i]]
           /\ \A i \in (inserted + 2)..6 : Rows(t, r)[PlanTables[i]] = Context.rows[PlanTables[i]]
<1>1. \A i, j \in 1..6 : PlanTables[i] \in Tables /\ (PlanTables[i] = PlanTables[j] => i = j)
  <2>1. \A i \in 1..6 : i = 1 \/ i = 2 \/ i = 3 \/ i = 4 \/ i = 5 \/ i = 6
    OBVIOUS
  <2>2. PlanTables[1] = "artifacts" /\ PlanTables[2] = "events" /\ PlanTables[3] = "custody"
        /\ PlanTables[4] = "runs" /\ PlanTables[5] = "outputs" /\ PlanTables[6] = "candidates"
    BY DEF PlanTables
  <2> QED
    BY <2>1, <2>2, TableNames
<1>2. inserted + 1 \in 1..6 /\ t \in Tables
  BY <1>1
<1>3. ~ \E i \in 1..inserted : PlanTables[i] = t
  BY <1>1, <1>2
<1>4. Rows(t, r)[t] = Context.rows[t] \cup { q \in manifest.rows[t] : q.n < r.n }
  BY <1>2, <1>3, RowsParts
<1>5. ASSUME NEW i \in 1..inserted
      PROVE  Rows(t, r)[PlanTables[i]] = Context.rows[PlanTables[i]] \cup manifest.rows[PlanTables[i]]
  <2>1. PlanTables[i] \in Tables /\ PlanTables[i] # t
    BY <1>1, <1>2
  <2> QED
    BY <1>2, <2>1, RowsParts
<1>6. ASSUME NEW i \in (inserted + 2)..6
      PROVE  Rows(t, r)[PlanTables[i]] = Context.rows[PlanTables[i]]
  <2>1. PlanTables[i] \in Tables /\ PlanTables[i] # t /\ ~ \E j \in 1..inserted : PlanTables[j] = PlanTables[i]
    BY <1>1, <1>2
  <2>2. \A u \in Tables : u # t /\ ~(\E j \in 1..inserted : PlanTables[j] = u) => Rows(t, r)[u] = Context.rows[u]
    <3> SUFFICES ASSUME NEW u \in Tables, u # t, ~ \E j \in 1..inserted : PlanTables[j] = u
                 PROVE  Rows(t, r)[u] = Context.rows[u]
      OBVIOUS
    <3>1. Rows(t, r)[u] = Context.rows[u]
             \cup (IF \E j \in 1..inserted : PlanTables[j] = u THEN manifest.rows[u] ELSE {})
             \cup (IF u = t THEN { q \in manifest.rows[t] : q.n < r.n } ELSE {})
      BY <1>2, RowsParts
    <3>2. (IF \E j \in 1..inserted : PlanTables[j] = u THEN manifest.rows[u] ELSE {}) = {}
      OBVIOUS
    <3>3. (IF u = t THEN { q \in manifest.rows[t] : q.n < r.n } ELSE {}) = {}
      OBVIOUS
    <3> QED
      BY <3>1, <3>2, <3>3
  <2> QED
    BY <2>1, <2>2
<1> QED
  BY <1>2, <1>4, <1>5, <1>6

\* The tables as the preflight reads them and as the transaction does.
SameRows(db, ts, r, tables) == \A u \in tables : db[u] = Before(Context, manifest, ts, r)[u]

\* Of the tables a trigger looks into, the transaction sees what the preflight had seen,
\* except outputs and later runs, which the order of the tables fills late or early.
LEMMA ReadAsWritten ==
    ASSUME inserted \in Nat, inserted < 6, NEW t, t = PlanTables[inserted + 1], NEW r
    PROVE  /\ t = "artifacts" => SameRows(Rows(t, r), {"artifacts"}, r, {"artifacts"})
           /\ t = "events" => SameRows(Rows(t, r), {"events"}, r, {"artifacts", "events"})
           /\ t = "custody" => SameRows(Rows(t, r), {"custody"}, r, {"artifacts", "custody"})
           /\ t = "runs" => /\ SameRows(Rows(t, r), {"runs", "outputs"}, r, {"artifacts", "events", "custody", "runs"})
                            /\ Rows(t, r)["outputs"] = Context.rows["outputs"]
           /\ t = "outputs" => /\ SameRows(Rows(t, r), {"runs", "outputs"}, r, {"artifacts", "outputs"})
                               /\ Rows(t, r)["runs"] = Context.rows["runs"] \cup manifest.rows["runs"]
           /\ t = "candidates" => SameRows(Rows(t, r), {"candidates"}, r, {"runs", "outputs", "candidates"})
<1> DEFINE full(u) == Rows(t, r)[u] = Context.rows[u] \cup manifest.rows[u]
           now(u) == Rows(t, r)[u] = Context.rows[u] \cup { q \in manifest.rows[u] : q.n < r.n }
<1>1. PlanTables[1] = "artifacts" /\ PlanTables[2] = "events" /\ PlanTables[3] = "custody"
      /\ PlanTables[4] = "runs" /\ PlanTables[5] = "outputs" /\ PlanTables[6] = "candidates"
  BY DEF PlanTables
<1>2. \A ts, u : u \in Tables => Before(Context, manifest, ts, r)[u] =
        Context.rows[u] \cup (IF u \in ts THEN { q \in manifest.rows[u] : q.n < r.n } ELSE manifest.rows[u])
  BY BeforeParts
<1>3. t \in Tables /\ now(t)
  BY RowsSeen
<1>4. inserted \in 0..5
  OBVIOUS
<1>5. \A i \in 1..inserted : full(PlanTables[i])
  BY RowsSeen
<1>6. \A i \in (inserted + 2)..6 : Rows(t, r)[PlanTables[i]] = Context.rows[PlanTables[i]]
  BY RowsSeen
<1>a. \A ts, u : u \in Tables /\ u \in ts /\ now(u) => Rows(t, r)[u] = Before(Context, manifest, ts, r)[u]
  BY <1>2
<1>b. \A ts, u : u \in Tables /\ u \notin ts /\ full(u) => Rows(t, r)[u] = Before(Context, manifest, ts, r)[u]
  BY <1>2
<1>c. full("runs") => Rows(t, r)["runs"] = Context.rows["runs"] \cup manifest.rows["runs"]
  OBVIOUS
<1>d. \A u : u \in {"artifacts", "events", "custody", "runs", "outputs", "candidates"} => u \in Tables
  BY TableNames
<1> HIDE DEF full, now
<1>7. CASE inserted = 0
  <2>1. t = "artifacts"
    BY <1>1, <1>7
  <2> QED
    BY <1>a, <1>d, <1>3, <2>1 DEF SameRows
<1>8. CASE inserted = 1
  <2>1. t = "events" /\ full("artifacts")
    BY <1>1, <1>5, <1>8
  <2> QED
    BY <1>a, <1>b, <1>c, <1>d, <1>3, <2>1 DEF SameRows
<1>9. CASE inserted = 2
  <2>1. t = "custody" /\ full("artifacts")
    BY <1>1, <1>5, <1>9
  <2> QED
    BY <1>a, <1>b, <1>c, <1>d, <1>3, <2>1 DEF SameRows
<1>10. CASE inserted = 3
  <2>1. t = "runs" /\ full("artifacts") /\ full("events") /\ full("custody")
    BY <1>1, <1>5, <1>10
  <2>2. Rows(t, r)["outputs"] = Context.rows["outputs"]
    BY <1>1, <1>6, <1>10
  <2> QED
    BY <1>a, <1>b, <1>d, <1>3, <2>1, <2>2 DEF SameRows
<1>11. CASE inserted = 4
  <2>1. t = "outputs" /\ full("artifacts") /\ full("runs")
    BY <1>1, <1>5, <1>11
  <2> QED
    BY <1>a, <1>b, <1>c, <1>d, <1>3, <2>1 DEF SameRows
<1>12. CASE inserted = 5
  <2>1. t = "candidates" /\ full("runs") /\ full("outputs")
    BY <1>1, <1>5, <1>12
  <2> QED
    BY <1>a, <1>b, <1>c, <1>d, <1>3, <2>1 DEF SameRows
<1> QED
  BY <1>4, <1>7, <1>8, <1>9, <1>10, <1>11, <1>12

\* What is on record before row r.
LEMMA RowKinds ==
    ASSUME WritingNow, NEW t \in Tables
    PROVE  /\ \A ts, r : Before(Context, manifest, ts, r)[t] \subseteq RowOf[t]
           /\ manifest.rows[t] \subseteq RowOf[t] /\ Context.rows[t] \subseteq RowOf[t]
           /\ \A r \in manifest.rows[t] : r.seq = manifest.seq
           /\ \A r \in Context.rows[t] : r.seq \in Nat /\ r.seq < manifest.seq
           /\ manifest.seq \in Nat
<1>1. Formed(manifest.rows, Len(accepted) + 1) /\ manifest.seq = Len(accepted) + 1
  BY DEF WritingNow, ManifestInv
<1>2. /\ Context.rows[t] \subseteq RowOf[t] /\ Seen(Context, manifest)[t] \subseteq RowOf[t]
      /\ \A r \in Context.rows[t] : r.seq \in Nat /\ r.seq < Len(accepted) + 1
      /\ \A r \in manifest.rows[t] : r.seq = Len(accepted) + 1
  BY <1>1, SeenRows DEF WritingNow
<1>3. Seen(Context, manifest)[t] = Context.rows[t] \cup manifest.rows[t]
  BY SeenParts
<1>4. \A ts, r : Before(Context, manifest, ts, r)[t] =
        Context.rows[t] \cup (IF t \in ts THEN { q \in manifest.rows[t] : q.n < r.n } ELSE manifest.rows[t])
  BY BeforeParts
<1> QED
  BY <1>1, <1>2, <1>3, <1>4 DEF WritingNow, ImportTypes

-----------------------------------------------------------------------------
(* What the preflight accepted, the triggers accept.                       *)

\* What the preflight accepted of a row, the trigger of its table accepts: one lemma for
\* each table.
LEMMA ArtifactInserted ==
    ASSUME WritingNow, NEW r \in manifest.rows["artifacts"], NEW db, SameRows(db, {"artifacts"}, r, {"artifacts"})
    PROVE  InsertArtifact(db, manifest, r)
<1>1. ArtifactOk(Context, manifest, r)
  BY DEF WritingNow, ManifestInv, RowsOk
<1>2. db["artifacts"] = Before(Context, manifest, {"artifacts"}, r)["artifacts"]
  BY DEF SameRows
<1> QED
  BY <1>1, <1>2 DEF ArtifactOk, InsertArtifact

LEMMA EventInserted ==
    ASSUME WritingNow, NEW r \in manifest.rows["events"], NEW db, SameRows(db, {"events"}, r, {"artifacts", "events"})
    PROVE  InsertEvent(db, manifest, r)
<1> DEFINE seen == Before(Context, manifest, {"events"}, r)
<1>1. EventOk(Context, manifest, r)
  BY DEF WritingNow, ManifestInv, RowsOk
<1>2. db["artifacts"] = seen["artifacts"] /\ db["events"] = seen["events"]
  BY DEF SameRows
<1>3. r.artifact # None <=> r.outcome = "retrieved_retained"
  BY <1>1, EvidenceAssumption DEF EventOk, Artifacts
<1>4. r.artifact # None => r.artifact \in Bodies
  BY <1>1 DEF EventOk
<1>5. r.artifact # None => \E a \in db["artifacts"] : a.art = r.artifact /\ a.art \in Bodies /\ a.recorded <= r.recorded
  BY <1>1, <1>2, <1>4 DEF EventOk
<1>6. r.basis # None => \E e \in db["events"] :
        Code(e) = r.basis /\ e.outcome = "retrieved_retained" /\ e.completed < r.started
  BY <1>1, <1>2 DEF EventOk
<1> HIDE DEF seen
<1> QED
  BY <1>1, <1>3, <1>5, <1>6 DEF InsertEvent, EventOk

\* The two statements of which custody event may follow which agree.
LEMMA SuccessorSucceeds ==
    ASSUME NEW p, NEW r, SuccessorOk(p, r)
    PROVE  Succession(p, r)
  BY DEF SuccessorOk, Succession

LEMMA CustodyInserted ==
    ASSUME WritingNow, NEW r \in manifest.rows["custody"], NEW db, SameRows(db, {"custody"}, r, {"artifacts", "custody"})
    PROVE  InsertCustody(db, manifest, r)
<1> DEFINE seen == Before(Context, manifest, {"custody"}, r)
<1>1. CustodyOk(Context, manifest, r)
  BY DEF WritingNow, ManifestInv, RowsOk
<1>2. db["artifacts"] = seen["artifacts"] /\ db["custody"] = seen["custody"]
  BY DEF SameRows
<1>3. /\ r.occurred <= r.recorded /\ r.recorded <= manifest.created
      /\ \E a \in db["artifacts"] : a.art = r.art /\ a.recorded <= r.recorded
  BY <1>1, <1>2 DEF CustodyOk
<1>4. \A p \in db["custody"] : Code(p) # None
  <2>1. \A p \in db["custody"] : p \in RowOf["custody"]
    BY <1>2, RowKinds, TableNames
  <2> QED
    BY <2>1, RowCodes, TableNames, EvidenceAssumption DEF Codes
<1>5. CASE r.kind = "placed"
  <2>1. r.pred = None /\ ~ \E c \in db["custody"] : c.pred = None /\ c.art = r.art /\ c.copy = r.copy
    BY <1>1, <1>2, <1>5 DEF CustodyOk
  <2>2. \A c \in db["custody"] : c.pred = None => <<c.art, c.copy>> # <<r.art, r.copy>>
    BY <2>1
  <2> QED
    BY <1>3, <1>5, <2>1, <2>2 DEF InsertCustody
<1>6. CASE r.kind # "placed"
  <2>1. PICK p \in db["custody"] :
          /\ Code(p) = r.pred /\ p.art = r.art /\ p.copy = r.copy
          /\ p.recorded < r.recorded /\ p.occurred <= r.occurred
          /\ ~ \E s \in db["custody"] : s.pred = r.pred
          /\ SuccessorOk(p, r)
    BY <1>1, <1>2, <1>6 DEF CustodyOk
  <2>2. Succession(p, r) /\ r.pred # None
    BY <1>4, <2>1, SuccessorSucceeds
  <2> QED
    BY <1>3, <1>6, <2>1, <2>2 DEF InsertCustody
<1> QED
  BY <1>5, <1>6

\* The rows before the n-th row of a list are n - 1.
LEMMA NumberedBefore ==
    ASSUME NEW S, Numbered(S), NEW r \in S
    PROVE  Cardinality({ q \in S : q.n < r.n }) = r.n - 1
<1> DEFINE T == { q \in S : q.n < r.n }
           f == [i \in 1..(r.n - 1) |-> CHOOSE q \in S : q.n = i]
<1>1. Cardinality(S) \in Nat /\ r.n \in 1..Cardinality(S)
  BY FS_CardinalityType DEF Numbered
<1>2. \A i \in 1..(r.n - 1) : i \in 1..Cardinality(S)
  BY <1>1
<1>3. \A i \in 1..(r.n - 1) : f[i] \in S /\ f[i].n = i
  BY <1>2 DEF Numbered
<1>4. f \in [1..(r.n - 1) -> T]
  <2>1. \A i \in 1..(r.n - 1) : f[i] \in T
    <3>1. \A i \in 1..(r.n - 1) : i < r.n
      BY <1>1
    <3> HIDE DEF f
    <3> QED
      BY <1>3, <3>1
  <2> QED
    BY <2>1
<1>5. \A i, j \in 1..(r.n - 1) : f[i] = f[j] => i = j
  BY <1>3
<1>6. \A q \in T : \E i \in 1..(r.n - 1) : f[i] = q
  <2> SUFFICES ASSUME NEW q \in T
               PROVE  \E i \in 1..(r.n - 1) : f[i] = q
    OBVIOUS
  <2>1. q.n \in 1..(r.n - 1)
    BY <1>1 DEF Numbered
  <2>2. f[q.n] = q
    BY <1>3, <2>1 DEF Numbered
  <2> QED
    BY <2>1, <2>2
<1> HIDE DEF T, f
<1>7. f \in Bijection(1..(r.n - 1), T)
  BY <1>4, <1>5, <1>6 DEF Bijection, Injection, Surjection, IsInjective
<1>8. ExistsBijection(1..(r.n - 1), T) /\ r.n - 1 \in Nat
  BY <1>1, <1>7 DEF ExistsBijection
<1>9. Cardinality(T) = r.n - 1
  BY <1>8, FS_CountingElements
<1> QED
  BY <1>9 DEF T

\* The run's input was retrieved, or produced, before it started.
LEMMA InputFounded ==
    ASSUME WritingNow, ~Chained, NEW r \in manifest.rows["runs"], NEW a, a.art = r.input, a.recorded <= r.started,
           a \in Context.rows["artifacts"] \cup manifest.rows["artifacts"]
    PROVE  IF r.input \in Bodies
           THEN \E e \in Context.rows["events"] \cup manifest.rows["events"] :
                  e.artifact = r.input /\ e.completed <= r.started
           ELSE \E o \in Context.rows["outputs"] : o.art = r.input /\ Earlier(o, r)
<1>1. r \in RunRow /\ r.seq = manifest.seq /\ a \in ArtifactRow
  BY RowKinds, TableNames DEF RowOf
<1>2. CASE r.input \in Bodies
  <2>1. PICK e \in Context.rows["events"] \cup manifest.rows["events"] :
          e.artifact = r.input /\ e.completed <= a.recorded /\ e \in EventRow
    <3>1. CASE a \in Context.rows["artifacts"]
      <4>1. PICK i \in DOMAIN accepted : a \in accepted[i].rows["artifacts"]
        BY <3>1, ContextRows, TableNames DEF WritingNow
      <4> QED
        BY <1>2, <4>1, BodyRetrieved DEF WritingNow, Evidence
    <3>2. CASE a \in manifest.rows["artifacts"]
      <4>1. PICK e \in manifest.rows["events"] : e.artifact = a.art /\ e.completed <= a.recorded
        BY <1>2, <3>2 DEF WritingNow, CustodyComplete, OriginOk
      <4>2. e \in EventRow
        BY <4>1, RowKinds, TableNames DEF RowOf
      <4> QED
        BY <4>1, <4>2
    <3> QED
      BY <3>1, <3>2
  <2>2. e.completed \in Nat /\ a.recorded \in Nat /\ r.started \in Nat
    BY <1>1, <2>1 DEF RunRow, ArtifactRow, EventRow
  <2> QED
    BY <1>2, <2>1, <2>2
<1>3. CASE r.input \notin Bodies
  <2>1. r.input \in Derived
    BY <1>1, <1>3 DEF RunRow, Artifacts
  <2>2. PICK o \in Context.rows["outputs"] : o.art = r.input
    BY <2>1 DEF Chained
  <2>3. o.seq \in Nat /\ o.seq < manifest.seq
    BY RowKinds, TableNames
  <2>4. Earlier(o, r)
    BY <1>1, <2>3 DEF Earlier
  <2> QED
    BY <1>3, <2>2, <2>4
<1> QED
  BY <1>2, <1>3

LEMMA RunInserted ==
    ASSUME WritingNow, ~Chained, NEW r \in manifest.rows["runs"], NEW db,
           SameRows(db, {"runs", "outputs"}, r, {"artifacts", "events", "custody", "runs"}),
           db["outputs"] = Context.rows["outputs"]
    PROVE  InsertRun(db, manifest, r)
<1> DEFINE seen == Before(Context, manifest, {"runs", "outputs"}, r)
<1>1. RunOk(Context, manifest, r)
  BY DEF WritingNow, ManifestInv, RowsOk
<1>2. /\ db["artifacts"] = seen["artifacts"] /\ db["events"] = seen["events"]
      /\ db["custody"] = seen["custody"] /\ db["runs"] = seen["runs"]
  BY DEF SameRows
<1>3. /\ seen["artifacts"] = Context.rows["artifacts"] \cup manifest.rows["artifacts"]
      /\ seen["events"] = Context.rows["events"] \cup manifest.rows["events"]
      /\ seen["runs"] = Context.rows["runs"] \cup { q \in manifest.rows["runs"] : q.n < r.n }
  BY BeforeParts, TableNames
<1> HIDE DEF seen
<1>4. r.n = Cardinality({ q \in db["runs"] : q.seq = manifest.seq }) + 1
  <2>1. \A q \in Context.rows["runs"] : q.seq # manifest.seq
    BY RowKinds, TableNames
  <2>2. \A q \in manifest.rows["runs"] : q.seq = manifest.seq
    BY RowKinds, TableNames
  <2>3. { q \in db["runs"] : q.seq = manifest.seq } = { q \in manifest.rows["runs"] : q.n < r.n }
    BY <1>2, <1>3, <2>1, <2>2
  <2>4. Numbered(manifest.rows["runs"])
    BY TableNames DEF WritingNow, ManifestInv
  <2>5. r.n \in Nat
    BY RowKinds, RowCodes, TableNames
  <2> QED
    BY <2>3, <2>4, <2>5, NumberedBefore
<1>5. PICK a \in db["artifacts"] : a.art = r.input /\ a.recorded <= r.started
  BY <1>1, <1>2 DEF RunOk, seen
<1>6. r.started <= r.recorded /\ r.recorded <= manifest.created /\ (r.method = "content_decoding" => r.input \in Bodies)
  BY <1>1 DEF RunOk
<1>7. \E c \in db["custody"] :
        /\ c.art = r.input /\ c.seq <= manifest.seq /\ c.occurred <= r.started /\ c.kind \in Available
        /\ ~ \E s \in db["custody"] :
             s.pred = Code(c) /\ s.art = r.input /\ s.seq <= manifest.seq /\ s.occurred <= r.started
  <2>1. AvailableAt(db["custody"], r.input, r.started, manifest.seq)
    BY <1>1, <1>2 DEF RunOk, seen
  <2> QED
    BY <2>1 DEF AvailableAt, CustodyAt
<1>8. IF r.input \in Bodies
      THEN \E e \in db["events"] : e.artifact = r.input /\ e.completed <= r.started
      ELSE \E o \in db["outputs"] : o.art = r.input /\ Earlier(o, r)
  BY <1>2, <1>3, <1>5, InputFounded
<1> QED
  BY <1>4, <1>5, <1>6, <1>7, <1>8 DEF InsertRun

\* The outputs before row o belong to runs before it, so that the lineage is the same
\* whether or not the later runs are on record.
LEMMA SameReach ==
    ASSUME WritingNow, NEW q \in manifest.rows["runs"], NEW a, NEW z
    PROVE  LET before == Before(Context, manifest, {"runs", "outputs"}, q) IN
           Reaches(Context.rows["runs"] \cup manifest.rows["runs"], before["outputs"], a, z)
             <=> Reaches(before["runs"], before["outputs"], a, z)
<1> DEFINE before == Before(Context, manifest, {"runs", "outputs"}, q)
           all == Context.rows["runs"] \cup manifest.rows["runs"]
<1>1. /\ before["runs"] = Context.rows["runs"] \cup { p \in manifest.rows["runs"] : p.n < q.n }
      /\ before["outputs"] = Context.rows["outputs"] \cup { p \in manifest.rows["outputs"] : p.n < q.n }
  BY BeforeParts, TableNames
<1> HIDE DEF before
<1>2. \A p \in all, o \in before["outputs"] : Code(o) = Code(p) => p \in before["runs"]
  <2> SUFFICES ASSUME NEW p \in all, NEW o \in before["outputs"], Code(o) = Code(p)
               PROVE  p \in before["runs"]
    OBVIOUS
  <2>1. o.seq = p.seq /\ o.n = p.n
    BY DEF Code
  <2>2. CASE o \in Context.rows["outputs"]
    <3>1. o.seq < manifest.seq /\ o.seq \in Nat
      BY <2>2, RowKinds, TableNames
    <3>2. \A s \in manifest.rows["runs"] : s.seq = manifest.seq /\ manifest.seq \in Nat
      BY RowKinds, TableNames
    <3> QED
      BY <1>1, <2>1, <3>1, <3>2
  <2>3. CASE o \in manifest.rows["outputs"] /\ o.n < q.n
    <3>1. o.seq = manifest.seq
      BY <2>3, RowKinds, TableNames
    <3>2. \A s \in Context.rows["runs"] : s.seq \in Nat /\ s.seq < manifest.seq /\ manifest.seq \in Nat
      BY RowKinds, TableNames
    <3> QED
      BY <1>1, <2>1, <2>3, <3>1, <3>2
  <2> QED
    BY <1>1, <2>2, <2>3
<1>3. before["runs"] \subseteq all
  BY <1>1
<1>4. \A e : (\E p \in all, o \in before["outputs"] : Code(o) = Code(p) /\ p.input = e[1] /\ o.art = e[2])
        <=> (\E p \in before["runs"], o \in before["outputs"] : Code(o) = Code(p) /\ p.input = e[1] /\ o.art = e[2])
  BY <1>2, <1>3
<1>5. Flow(all, before["outputs"]) = Flow(before["runs"], before["outputs"])
  BY <1>4 DEF Flow
<1>6. Reaches(all, before["outputs"], a, z) <=> Reaches(before["runs"], before["outputs"], a, z)
  BY <1>5 DEF Reaches
<1> QED
  BY <1>6 DEF before

LEMMA OutputInserted ==
    ASSUME WritingNow, NEW r \in manifest.rows["outputs"], NEW db,
           SameRows(db, {"runs", "outputs"}, r, {"artifacts", "outputs"}),
           db["runs"] = Context.rows["runs"] \cup manifest.rows["runs"]
    PROVE  InsertOutput(db, manifest, r)
<1>1. PICK q \in manifest.rows["runs"] : q.n = r.n
  BY DEF WritingNow, ManifestInv, Formed
<1> DEFINE seen == Before(Context, manifest, {"runs", "outputs"}, q)
<1>2. OutputOk(Context, manifest, q, r)
  BY <1>1 DEF WritingNow, ManifestInv, RowsOk, RunOutputsOk
<1>3. /\ db["artifacts"] = seen["artifacts"] /\ db["outputs"] = seen["outputs"]
      /\ seen["artifacts"] = Context.rows["artifacts"] \cup manifest.rows["artifacts"]
      /\ seen["outputs"] = Context.rows["outputs"] \cup { p \in manifest.rows["outputs"] : p.n < q.n }
  <2>1. \A s, t : t \in Tables => Before(Context, manifest, {"runs", "outputs"}, s)[t] =
          Context.rows[t] \cup (IF t \in {"runs", "outputs"} THEN { p \in manifest.rows[t] : p.n < s.n } ELSE manifest.rows[t])
    BY BeforeParts
  <2>2. /\ seen["artifacts"] = Context.rows["artifacts"] \cup manifest.rows["artifacts"]
        /\ seen["outputs"] = Context.rows["outputs"] \cup { p \in manifest.rows["outputs"] : p.n < q.n }
    BY <2>1, TableNames
  <2>3. /\ db["artifacts"] = Context.rows["artifacts"] \cup manifest.rows["artifacts"]
        /\ db["outputs"] = Context.rows["outputs"] \cup { p \in manifest.rows["outputs"] : p.n < r.n }
    BY <2>1, TableNames DEF SameRows
  <2> QED
    BY <1>1, <2>2, <2>3
<1>4. ~Reaches(db["runs"], db["outputs"], r.art, q.input)
  BY <1>2, <1>3, SameReach DEF OutputOk
<1>5. q.seq = manifest.seq /\ r.seq = manifest.seq /\ r.n \in Nat /\ q.n \in Nat /\ manifest.seq \in Nat
  BY RowKinds, RowCodes, TableNames
<1>6. Code(q) = Code(r) /\ q \in db["runs"]
  BY <1>1, <1>5 DEF Code
<1>7. PICK a \in db["artifacts"] :
        /\ a.art = r.art /\ a.recorded <= q.recorded
        /\ a.seq = manifest.seq /\ ~(\E p \in db["outputs"] : p.art = r.art) => r.produced <= a.recorded
  BY <1>2, <1>3 DEF OutputOk
<1>8. \/ a.seq < manifest.seq \/ r.produced <= a.recorded
      \/ \E o \in db["outputs"] : o.art = r.art /\ Earlier(o, r)
  <2>1. CASE a \in Context.rows["artifacts"]
    BY <2>1, RowKinds, TableNames
  <2>2. CASE a \in manifest.rows["artifacts"]
    <3>1. a.seq = manifest.seq
      BY <2>2, RowKinds, TableNames
    <3>2. \A p \in db["outputs"] : Earlier(p, r)
      <4>1. \A p \in Context.rows["outputs"] : p.seq < manifest.seq
        BY RowKinds, TableNames
      <4>2. \A p \in manifest.rows["outputs"] : p.seq = manifest.seq
        BY RowKinds, TableNames
      <4> HIDE DEF seen
      <4> QED
        BY <1>1, <1>3, <1>5, <4>1, <4>2 DEF Earlier
    <3> QED
      BY <1>7, <3>1, <3>2
  <2> QED
    BY <1>3, <1>7, <2>1, <2>2
<1> HIDE DEF seen
<1>9. /\ q.outcome = "succeeded" /\ r.kind \in Makes(q.method) /\ r.art \in Derived
      /\ q.started <= r.produced /\ r.produced <= q.recorded
  BY <1>2 DEF OutputOk
<1> QED
  BY <1>4, <1>6, <1>7, <1>8, <1>9 DEF InsertOutput

\* A run that produced something succeeded, in whichever bundle.
LEMMA ProducerSucceeded ==
    ASSUME WritingNow, NEW q \in Context.rows["runs"] \cup manifest.rows["runs"],
           NEW o \in Context.rows["outputs"] \cup manifest.rows["outputs"], Code(q) = Code(o)
    PROVE  q.outcome = "succeeded"
<1>1. q.seq = o.seq /\ q.n = o.n
  BY DEF Code
<1>2. CASE q \in manifest.rows["runs"]
  <2>1. o \in manifest.rows["outputs"]
    <3>1. q.seq = manifest.seq /\ manifest.seq \in Nat
      BY <1>2, RowKinds, TableNames
    <3>2. \A p \in Context.rows["outputs"] : p.seq \in Nat /\ p.seq < manifest.seq
      BY RowKinds, TableNames
    <3>3. o.seq \in Nat /\ o.seq = manifest.seq
      BY <1>1, <3>1
    <3>4. o \notin Context.rows["outputs"]
      BY <3>2, <3>3
    <3> QED
      BY <3>4
  <2> QED
    BY <1>1, <1>2, <2>1 DEF WritingNow, ManifestInv, RowsOk, RunOutputsOk, OutputOk
<1>3. CASE q \in Context.rows["runs"]
  <2>1. PICK j \in DOMAIN accepted : q \in accepted[j].rows["runs"]
    BY <1>3, ContextRows, TableNames DEF WritingNow
  <2>2. q.seq = j /\ j \in Nat
    BY <2>1, RowTable, TableNames DEF WritingNow
  <2>3. o \in Context.rows["outputs"]
    <3>1. q.seq \in Nat /\ q.seq < manifest.seq /\ manifest.seq \in Nat
      BY <1>3, RowKinds, TableNames
    <3>2. \A p \in manifest.rows["outputs"] : p.seq = manifest.seq
      BY RowKinds, TableNames
    <3> QED
      BY <1>1, <3>1, <3>2
  <2>4. PICK i \in DOMAIN accepted : o \in accepted[i].rows["outputs"]
    BY <2>3, ContextRows, TableNames DEF WritingNow
  <2>5. o.seq = i
    BY <2>4, RowTable, TableNames DEF WritingNow
  <2>6. RunOutputsOk(ContextOf(accepted, j), Bundle(accepted[j], j), q) /\ Bundle(accepted[j], j).rows = accepted[j].rows
    BY <2>1, StoredBundle DEF WritingNow, PreflightAccepts
  <2> QED
    BY <1>1, <2>2, <2>4, <2>5, <2>6 DEF RunOutputsOk, OutputOk
<1> QED
  BY <1>2, <1>3

LEMMA CandidateInserted ==
    ASSUME WritingNow, NEW r \in manifest.rows["candidates"], NEW db,
           SameRows(db, {"candidates"}, r, {"runs", "outputs", "candidates"})
    PROVE  InsertCandidate(db, manifest, r)
<1> DEFINE seen == Before(Context, manifest, {"candidates"}, r)
<1>1. CandidateOk(Context, manifest, r)
  BY DEF WritingNow, ManifestInv, RowsOk
<1>2. db["runs"] = seen["runs"] /\ db["outputs"] = seen["outputs"] /\ db["candidates"] = seen["candidates"]
  BY DEF SameRows
<1>3. /\ seen["runs"] = Context.rows["runs"] \cup manifest.rows["runs"]
      /\ seen["outputs"] = Context.rows["outputs"] \cup manifest.rows["outputs"]
  BY BeforeParts, TableNames
<1>4. \E o \in db["outputs"], q \in db["runs"] :
        /\ Code(o) = r.run /\ Code(q) = r.run /\ o.kind # "diagnostic"
        /\ q.outcome = "succeeded" /\ q.recorded <= r.recorded
  <2>1. PICK q \in db["runs"], o \in db["outputs"] :
          Code(q) = r.run /\ Code(o) = r.run /\ o.kind # "diagnostic" /\ q.recorded <= r.recorded
    BY <1>1, <1>2 DEF CandidateOk
  <2>2. q.outcome = "succeeded"
    BY <1>2, <1>3, <2>1, ProducerSucceeded
  <2> QED
    BY <2>1, <2>2
<1>5. IF r.pred = None
      THEN \A c \in db["candidates"] : c.pred = None => c.chain # r.chain
      ELSE \E p \in db["candidates"] :
             /\ Code(p) = r.pred /\ p.chain = r.chain /\ p.recorded < r.recorded
             /\ \A s \in db["candidates"] : s.pred # r.pred
  BY <1>1, <1>2 DEF CandidateOk
<1>6. r.recorded <= manifest.created
  BY <1>1 DEF CandidateOk
<1> QED
  BY <1>4, <1>5, <1>6 DEF InsertCandidate

\* So no table is refused, unless a run is chained.
LEMMA TableInserted ==
    ASSUME WritingNow, ~Chained, inserted \in Nat, inserted < 6, NEW t, t = PlanTables[inserted + 1]
    PROVE  InsertsAll(t, Database, manifest, manifest.rows[t])
<1> SUFFICES ASSUME NEW r \in manifest.rows[t]
             PROVE  Insert(t, Rows(t, r), manifest, r)
  BY DEF InsertsAll, Rows
<1>1. t \in {"artifacts", "events", "custody", "runs", "outputs", "candidates"}
  BY RowsSeen, TableNames
<1>2. CASE t = "artifacts"
  BY <1>2, ReadAsWritten, ArtifactInserted DEF Insert
<1>3. CASE t = "events"
  BY <1>3, ReadAsWritten, EventInserted DEF Insert
<1>4. CASE t = "custody"
  BY <1>4, ReadAsWritten, CustodyInserted DEF Insert
<1>5. CASE t = "runs"
  BY <1>5, ReadAsWritten, RunInserted DEF Insert
<1>6. CASE t = "outputs"
  BY <1>6, ReadAsWritten, OutputInserted DEF Insert
<1>7. CASE t = "candidates"
  BY <1>7, ReadAsWritten, CandidateInserted DEF Insert
<1> QED
  BY <1>1, <1>2, <1>3, <1>4, <1>5, <1>6, <1>7

\* Only a table that is refused ends a call as rejected.
LEMMA RejectionChained ==
    ASSUME ImportInv, ImportNext, outcome # "rejected", outcome' = "rejected"
    PROVE  Chained
<1>1. CASE Plan
  <2>1. phase = "candidates" /\ ~InsertReceipt(Context.receipts, manifest)
    BY <1>1 DEF Plan
  <2>2. HeaderOk(Context, manifest)
    BY <2>1 DEF ImportInv, ManifestInv
  <2>3. InsertReceipt(Context.receipts, manifest)
    BY <2>2 DEF HeaderOk, InsertReceipt
  <2> QED
    BY <2>1, <2>3
<1>2. CASE WriteTable
  <2> DEFINE t == PlanTables[inserted + 1]
  <2>1. phase = "writing" /\ inserted < 6 /\ ~InsertsAll(t, Database, manifest, manifest.rows[t])
    BY <1>2 DEF WriteTable, PlanTables
  <2>2. WritingNow /\ inserted \in Nat
    BY <2>1 DEF ImportInv, ImportTypes, WritingNow, ListsInv
  <2> QED
    BY <2>1, <2>2, TableInserted
<1>3. \A created, required : ~ReadHeader(created, required)
  BY OutcomeAssumption DEF ReadHeader, Outcomes
<1>4. ~(ReadArtifact \/ ReadEvent \/ ReadCustody \/ ReadRun \/ ReadCandidate \/ NextList \/ Commit)
  BY DEF ReadArtifact, ReadEvent, ReadCustody, ReadRun, ReadCandidate, Read, NextList, Commit
<1>5. ~(Refuse \/ WorkerDies)
  BY DEF Refuse, WorkerDies, CallEnds
<1>6. \A S, k, good : good # "rejected" => Verification(S, k, good) # "rejected"
  BY DEF Verification
<1>7. ~Conclude /\ \A k \in DOMAIN accepted : ~Verify(k)
  BY <1>6 DEF Conclude, Verify, CallEnds
<1> QED
  BY <1>1, <1>2, <1>3, <1>4, <1>5, <1>7 DEF ImportNext

\* The preflight against the triggers of migration 005: the transaction refuses nothing
\* the preflight accepted, but for a run chained to another run of its own manifest.
THEOREM AcceptedWrites == ImportSpec => AcceptedIsWritten
<1>1. ImportInv /\ [ImportNext]_importVars => [outcome # "rejected" /\ outcome' = "rejected" => Chained]_importVars
  BY RejectionChained
<1> QED
  BY <1>1, AlwaysImport, PTL DEF ImportSpec, AcceptedIsWritten
=============================================================================
