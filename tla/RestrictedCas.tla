---------------------------- MODULE RestrictedCas ----------------------------
(***************************************************************************)
(* The content-addressed store of primary custody                          *)
(* (createRestrictedLocalCas, d9/custody/cas.mjs): an object is prepared   *)
(* as a private temporary, verified, and published under its digest by a   *)
(* hard link that never replaces; an error after temporary state exists    *)
(* latches the instance, and nothing is ever cleaned up.                   *)
(*                                                                         *)
(* An artifact is its own content address: Names = Bytes.  A handle is the *)
(* temporary file it stands for, with the operation that prepared it.      *)
(***************************************************************************)
EXTENDS NoReplaceFiles

CONSTANTS
    Procs,    \* processes that may hold a CAS
    Ops       \* operation identities and nonces

ASSUME CasAssumption == Names = Bytes

\* closed: no CAS object.  t: prepare.  v: verifyPrepared.  The rest is
\* publishNoReplace.
Pc == {"closed", "ready", "t.write", "t.syncfile", "t.syncdir", "v.read", "readtemp", "link",
       "readfinal", "syncfile", "syncdir", "unlink", "syncunlink", "reread"}

Handle == [op: Ops, art: Bytes, file: File, verified: BOOLEAN]

\* What a call works on: a handle, one whose file is not created yet, or none.
Work == [op: Ops \cup {"none"}, art: Bytes \cup {Torn}, file: 0 .. MaxFiles, verified: BOOLEAN]

VARIABLES
    fs,            \* the image the processes see
    disk,          \* the durable image
    pc,            \* pc[p]: the step p's call is at
    handle,        \* handle[p]: what p's call works on
    preparations,  \* preparations[p]: the current handles of p's CAS
    latched,       \* latched[p]: recoveryRequired
    disposition,   \* disposition[p]: created_new or existing_exact, "none" before
    published      \* history: operation, artifact and disposition of each publish
                   \*   that has returned

vars == <<fs, disk, pc, handle, preparations, latched, disposition, published>>

NoHandle == [op |-> "none", art |-> Torn, file |-> 0, verified |-> FALSE]
Dispositions == {"created_new", "existing_exact"}

TypeOK ==
    /\ fs \in Image
    /\ disk \in Image
    /\ pc \in [Procs -> Pc]
    /\ handle \in [Procs -> Work]
    /\ preparations \in [Procs -> SUBSET Handle]
    /\ latched \in [Procs -> BOOLEAN]
    /\ disposition \in [Procs -> Dispositions \cup {"none"}]
    /\ published \subseteq Ops \X Bytes \X Dispositions

\* The fixed layout has been provisioned and synchronized.
Init ==
    /\ fs = EmptyImage
    /\ disk = EmptyImage
    /\ pc = [p \in Procs |-> "closed"]
    /\ handle = [p \in Procs |-> NoHandle]
    /\ preparations = [p \in Procs |-> {}]
    /\ latched = [p \in Procs |-> FALSE]
    /\ disposition = [p \in Procs |-> "none"]
    /\ published = {}

-----------------------------------------------------------------------------

Steps(p, from, to) == pc[p] = from /\ pc' = [pc EXCEPT ![p] = to]

\* p's call ends; its CAS is latched iff latch.
Ends(p, latch) ==
    /\ pc' = [pc EXCEPT ![p] = "ready"]
    /\ handle' = [handle EXCEPT ![p] = NoHandle]
    /\ disposition' = [disposition EXCEPT ![p] = "none"]
    /\ latched' = [latched EXCEPT ![p] = latch]

\* The constructor: temporaries from before are unresolved state.
Open(p) ==
    /\ Steps(p, "closed", "ready")
    /\ latched' = [latched EXCEPT ![p] = fs.temp # {}]
    /\ UNCHANGED <<fs, disk, handle, preparations, disposition, published>>

\* assertOperational
Operational(p) == pc[p] = "ready" /\ ~latched[p]

Unused(i) ==
    /\ Free(fs, i)
    /\ Free(disk, i)
    /\ \A p \in Procs : handle[p].file # i /\ \A h \in preparations[p] : h.file # i

\* prepare reads the source descriptor whole before it creates anything.
Prepare(p, o, a) ==
    /\ Operational(p)
    /\ ~\E h \in preparations[p] : h.op = o /\ h.art = a
    /\ Steps(p, "ready", "t.write")
    /\ handle' = [handle EXCEPT ![p] = [op |-> o, art |-> a, file |-> 0, verified |-> FALSE]]
    /\ UNCHANGED <<fs, disk, preparations, latched, disposition, published>>

WriteTemporary(p) ==
    /\ Steps(p, "t.write", "t.syncfile")
    /\ \E i \in File :
         /\ Unused(i)
         /\ \A j \in File : Unused(j) => i <= j
         /\ fs' = Written(fs, i, handle[p].art)
         /\ disk' = [disk EXCEPT !.data[i] = Torn]
         /\ handle' = [handle EXCEPT ![p].file = i]
    /\ UNCHANGED <<preparations, latched, disposition, published>>

SyncTemporary(p) ==
    /\ Steps(p, "t.syncfile", "t.syncdir")
    /\ disk' = FileSynced(disk, fs, handle[p].file)
    /\ UNCHANGED <<fs, handle, preparations, latched, disposition, published>>

FinishPrepare(p) ==
    /\ pc[p] = "t.syncdir"
    /\ disk' = TempsSynced(disk, fs)
    /\ preparations' = [preparations EXCEPT ![p] = @ \cup {handle[p]}]
    /\ Ends(p, FALSE)
    /\ UNCHANGED <<fs, published>>

-----------------------------------------------------------------------------

VerifyPrepared(p, h) ==
    /\ Operational(p)
    /\ h \in preparations[p]
    /\ Steps(p, "ready", "v.read")
    /\ handle' = [handle EXCEPT ![p] = h]
    /\ UNCHANGED <<fs, disk, preparations, latched, disposition, published>>

\* The verified handle takes the place of the one presented.
ReadPrepared(p) ==
    LET h == handle[p] IN
    /\ pc[p] = "v.read"
    /\ \/ /\ Exact(fs, h.file, h.art)
          /\ preparations' = [preparations EXCEPT ![p] =
                                (@ \ {h}) \cup {[h EXCEPT !.verified = TRUE]}]
          /\ Ends(p, FALSE)
       \/ /\ ~Exact(fs, h.file, h.art)
          /\ Ends(p, TRUE)
          /\ UNCHANGED preparations
    /\ UNCHANGED <<fs, disk, published>>

-----------------------------------------------------------------------------

\* Only the current verified handle publishes.
PublishNoReplace(p, h) ==
    /\ Operational(p)
    /\ h \in preparations[p]
    /\ h.verified
    /\ Steps(p, "ready", "readtemp")
    /\ handle' = [handle EXCEPT ![p] = h]
    /\ UNCHANGED <<fs, disk, preparations, latched, disposition, published>>

\* A step that compares a file with the artifact, and latches when it differs.
Compares(p, from, to, i) ==
    /\ pc[p] = from
    /\ \/ /\ Exact(fs, i, handle[p].art)
          /\ Steps(p, from, to)
          /\ UNCHANGED <<handle, latched, disposition>>
       \/ /\ ~Exact(fs, i, handle[p].art)
          /\ Ends(p, TRUE)
    /\ UNCHANGED <<fs, disk, preparations, published>>

ReadTemporary(p) == Compares(p, "readtemp", "link", handle[p].file)

\* Mutant: the temporary is renamed over the object.
LinkFinal_replaces(p) ==
    /\ pc[p] = "link"
    /\ Steps(p, "link", "syncfile")
    /\ fs' = Linked(fs, handle[p].art, handle[p].file)
    /\ disposition' = [disposition EXCEPT ![p] = "created_new"]
    /\ UNCHANGED <<disk, handle, preparations, latched, published>>

LinkFinal(p) ==
    LET a == handle[p].art IN
    /\ pc[p] = "link"
    /\ \/ /\ fs.name[a] = 0
          /\ Steps(p, "link", "syncfile")
          /\ fs' = Linked(fs, a, handle[p].file)
          /\ disposition' = [disposition EXCEPT ![p] = "created_new"]
       \/ /\ fs.name[a] # 0
          /\ Steps(p, "link", "readfinal")
          /\ disposition' = [disposition EXCEPT ![p] = "existing_exact"]
          /\ UNCHANGED fs
    /\ UNCHANGED <<disk, handle, preparations, latched, published>>

Final(p) == fs.name[handle[p].art]

ReadFinal(p) == Compares(p, "readfinal", "syncfile", Final(p))

SyncFinal(p) ==
    /\ Steps(p, "syncfile", "syncdir")
    /\ disk' = FileSynced(disk, fs, Final(p))
    /\ UNCHANGED <<fs, handle, preparations, latched, disposition, published>>

\* Mutant: the fan-out directory is not synchronized.
SyncFanout_skipped(p) ==
    /\ Steps(p, "syncdir", "unlink")
    /\ disk' = disk
    /\ UNCHANGED <<fs, handle, preparations, latched, disposition, published>>

SyncFanout(p) ==
    /\ Steps(p, "syncdir", "unlink")
    /\ disk' = NamesSynced(disk, fs)
    /\ UNCHANGED <<fs, handle, preparations, latched, disposition, published>>

UnlinkTemporary(p) ==
    /\ Steps(p, "unlink", "syncunlink")
    /\ fs' = Unlinked(fs, handle[p].file)
    /\ UNCHANGED <<disk, handle, preparations, latched, disposition, published>>

SyncUnlink(p) ==
    /\ Steps(p, "syncunlink", "reread")
    /\ disk' = TempsSynced(disk, fs)
    /\ UNCHANGED <<fs, handle, preparations, latched, disposition, published>>

\* The published object is reopened and hashed once more.
FinishPublish(p) ==
    /\ pc[p] = "reread"
    /\ \/ /\ Exact(fs, Final(p), handle[p].art)
          /\ preparations' = [preparations EXCEPT ![p] = @ \ {handle[p]}]
          /\ published' = published \cup {<<handle[p].op, handle[p].art, disposition[p]>>}
          /\ Ends(p, FALSE)
       \/ /\ ~Exact(fs, Final(p), handle[p].art)
          /\ Ends(p, TRUE)
          /\ UNCHANGED <<preparations, published>>
    /\ UNCHANGED <<fs, disk>>

-----------------------------------------------------------------------------

CrashState ==
    IF \E i \in fs.temp : \E n \in Names : fs.name[n] = i
    THEN "ambiguous_published_with_linked_temporary"
    ELSE IF fs.temp # {} THEN "temporary_present" ELSE "stable"

\* A live object with a second link that no temporary explains.
UnexplainedLink ==
    \E n \in Names : fs.name[n] # 0 /\ Links(fs, fs.name[n]) # 1 /\ fs.name[n] \notin fs.temp

\* inspectCrashState latches unless everything is settled.
InspectCrashState(p) ==
    /\ pc[p] = "ready"
    /\ latched' = [latched EXCEPT ![p] = @ \/ UnexplainedLink \/ CrashState # "stable"]
    /\ UNCHANGED <<fs, disk, pc, handle, preparations, disposition, published>>

-----------------------------------------------------------------------------
(* Faults *)

CutShort(p) ==
    {fs} \cup (IF pc[p] = "t.write"
               THEN {Written(fs, i, Torn) : i \in {j \in File : Unused(j)}} ELSE {})

\* A file operation throws: the instance latches, except before prepare has
\* created its temporary.
IoError(p) ==
    /\ pc[p] \notin {"closed", "ready"}
    /\ \E f \in CutShort(p) :
         /\ fs' = f
         /\ Ends(p, pc[p] # "t.write" \/ f # fs)
    /\ UNCHANGED <<disk, preparations, published>>

\* The process ends, killed or not.
Stop(p) ==
    /\ pc[p] # "closed"
    /\ fs' \in CutShort(p)
    /\ pc' = [pc EXCEPT ![p] = "closed"]
    /\ handle' = [handle EXCEPT ![p] = NoHandle]
    /\ preparations' = [preparations EXCEPT ![p] = {}]
    /\ latched' = [latched EXCEPT ![p] = FALSE]
    /\ disposition' = [disposition EXCEPT ![p] = "none"]
    /\ UNCHANGED <<disk, published>>

PowerLoss ==
    /\ fs' \in AfterPowerLoss(fs, disk)
    /\ disk' = fs'
    /\ pc' = [p \in Procs |-> "closed"]
    /\ handle' = [p \in Procs |-> NoHandle]
    /\ preparations' = [p \in Procs |-> {}]
    /\ latched' = [p \in Procs |-> FALSE]
    /\ disposition' = [p \in Procs |-> "none"]
    /\ UNCHANGED published

-----------------------------------------------------------------------------

Step(p) ==
    \/ Open(p) \/ InspectCrashState(p)
    \/ \E o \in Ops : \E a \in Bytes : Prepare(p, o, a)
    \/ WriteTemporary(p) \/ SyncTemporary(p) \/ FinishPrepare(p)
    \/ \E h \in preparations[p] : VerifyPrepared(p, h) \/ PublishNoReplace(p, h)
    \/ ReadPrepared(p)
    \/ ReadTemporary(p) \/ LinkFinal(p) \/ ReadFinal(p) \/ SyncFinal(p) \/ SyncFanout(p)
    \/ UnlinkTemporary(p) \/ SyncUnlink(p) \/ FinishPublish(p)
    \/ IoError(p) \/ Stop(p)

Next == (\E p \in Procs : Step(p)) \/ PowerLoss

Spec == Init /\ [][Next]_vars

-----------------------------------------------------------------------------
(* Properties *)

\* What publishNoReplace claims of an object (fileDataSynced,
\* parentDirectorySynced, reopenedAndRehashed) stays true: the object is on
\* the disk, whole, through errors, restarts and power losses.
PublishedDurable == \A r \in published : Holds(disk, r[2], r[2])

\* One operation at most is told that it created an object; the receipts'
\* counts of prepared and reused objects rest on it (no_replace_enforced).
OneCreator ==
    \A r, s \in published :
        r[2] = s[2] /\ r[3] = "created_new" /\ s[3] = "created_new" => r = s

\* An object that a power loss could still take back is visible as such:
\* it keeps its temporary name, so inspectCrashState reports it as ambiguous
\* and every CAS opened from then on starts latched.  And a handle a working
\* CAS holds is backed by its own intact temporary, which no other shares.
UnsettledReported ==
    /\ \A n \in Names : fs.name[n] # 0 /\ ~Holds(disk, n, n) =>
         /\ fs.name[n] \in fs.temp
         /\ CrashState = "ambiguous_published_with_linked_temporary"
    /\ \A p \in Procs : Operational(p) =>
         \A h \in preparations[p] :
            /\ h.file \in fs.temp /\ fs.data[h.file] = h.art
            /\ \A q \in Procs : \A g \in preparations[q] : g.file = h.file => g = h
=============================================================================
