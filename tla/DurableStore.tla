---------------------------- MODULE DurableStore ----------------------------
(***************************************************************************)
(* The append-only namespace store of the custody journal                  *)
(* (createDurableNamespaceStore, d9/custody/durable-store.mjs): processes  *)
(* that each hold a store over one protected root append records, with     *)
(* I/O errors, kills and power losses between the file operations.         *)
(*                                                                         *)
(* Bytes carry their record code, as every record the journal broker       *)
(* writes does, so a replay key stands for the code.  One namespace is     *)
(* modelled: namespaces share nothing but the pending directory.           *)
(***************************************************************************)
EXTENDS NoReplaceFiles

CONSTANTS
    Procs,         \* processes that may hold a store
    CodeOf(_)      \* the record code the bytes name

ASSUME CodeAssumption == \A b \in Bytes : CodeOf(b) \in Names

\* closed: no store object.  x: the EEXIST path of append.
Pc == {"closed", "ready", "write", "syncfile", "syncpending", "link", "syncdir", "unlink",
       "syncunlink", "x.unlink", "x.syncpending", "x.read", "x.syncfile", "x.syncdir"}

VARIABLES
    fs,        \* the image the processes see
    disk,      \* the durable image
    pc,        \* pc[p]: the step p's append is at
    bytes,     \* bytes[p]: what p's append stores (Torn between calls)
    pending,   \* pending[p]: the file p's append has created, 0 when none
    replay,    \* replay[p]: the records p's store remembers
    latched,   \* latched[p]: recoveryRequired
    acked      \* history: the records an append has returned

vars == <<fs, disk, pc, bytes, pending, replay, latched, acked>>

TypeOK ==
    /\ fs \in Image
    /\ disk \in Image
    /\ pc \in [Procs -> Pc]
    /\ bytes \in [Procs -> Bytes \cup {Torn}]
    /\ pending \in [Procs -> 0 .. MaxFiles]
    /\ replay \in [Procs -> SUBSET Bytes]
    /\ latched \in [Procs -> BOOLEAN]
    /\ acked \subseteq Bytes

\* The root has been initialized and synchronized.
Init ==
    /\ fs = EmptyImage
    /\ disk = EmptyImage
    /\ pc = [p \in Procs |-> "closed"]
    /\ bytes = [p \in Procs |-> Torn]
    /\ pending = [p \in Procs |-> 0]
    /\ replay = [p \in Procs |-> {}]
    /\ latched = [p \in Procs |-> FALSE]
    /\ acked = {}

-----------------------------------------------------------------------------

\* p's append ends, and its store is latched iff latch.
Ends(p, latch) ==
    /\ pc' = [pc EXCEPT ![p] = "ready"]
    /\ bytes' = [bytes EXCEPT ![p] = Torn]
    /\ pending' = [pending EXCEPT ![p] = 0]
    /\ latched' = [latched EXCEPT ![p] = latch]

\* p's append returns: the record is remembered and acknowledged.
Returns(p) ==
    /\ Ends(p, FALSE)
    /\ replay' = [replay EXCEPT ![p] = @ \cup {bytes[p]}]
    /\ acked' = acked \cup {bytes[p]}

Steps(p, from, to) == pc[p] = from /\ pc' = [pc EXCEPT ![p] = to]

\* The constructor refuses a root with an unresolved append.
Open(p) ==
    /\ Steps(p, "closed", "ready")
    /\ fs.temp = {}
    /\ UNCHANGED <<fs, disk, bytes, pending, replay, latched, acked>>

\* assertOperational
Operational(p) == pc[p] = "ready" /\ ~latched[p] /\ fs.temp = {}

Remembered(p, b) == \E r \in replay[p] : CodeOf(r) = CodeOf(b)

\* An append of a remembered record: replayed when it is the same, refused
\* when the bytes differ.
Replay(p, b) ==
    /\ Operational(p)
    /\ b \in replay[p]
    /\ acked' = acked \cup {b}
    /\ UNCHANGED <<fs, disk, pc, bytes, pending, replay, latched>>

Append(p, b) ==
    /\ Operational(p)
    /\ ~Remembered(p, b)
    /\ pc' = [pc EXCEPT ![p] = "write"]
    /\ bytes' = [bytes EXCEPT ![p] = b]
    /\ UNCHANGED <<fs, disk, pending, replay, latched, acked>>

\* A file nothing links to and no append works on.
Unused(i) == Free(fs, i) /\ Free(disk, i) /\ \A p \in Procs : pending[p] # i

WritePending(p) ==
    /\ Steps(p, "write", "syncfile")
    /\ \E i \in File :
         /\ Unused(i)
         /\ \A j \in File : Unused(j) => i <= j
         /\ fs' = Written(fs, i, bytes[p])
         /\ disk' = [disk EXCEPT !.data[i] = Torn]
         /\ pending' = [pending EXCEPT ![p] = i]
    /\ UNCHANGED <<bytes, replay, latched, acked>>

SyncFile(p) ==
    /\ Steps(p, "syncfile", "syncpending")
    /\ disk' = FileSynced(disk, fs, pending[p])
    /\ UNCHANGED <<fs, bytes, pending, replay, latched, acked>>

SyncPending(p) ==
    /\ Steps(p, "syncpending", "link")
    /\ disk' = TempsSynced(disk, fs)
    /\ UNCHANGED <<fs, bytes, pending, replay, latched, acked>>

\* linkSync; EEXIST latches the store until the existing record is checked.
Link(p) ==
    /\ \/ /\ fs.name[CodeOf(bytes[p])] = 0
          /\ Steps(p, "link", "syncdir")
          /\ fs' = Linked(fs, CodeOf(bytes[p]), pending[p])
          /\ UNCHANGED latched
       \/ /\ fs.name[CodeOf(bytes[p])] # 0
          /\ Steps(p, "link", "x.unlink")
          /\ latched' = [latched EXCEPT ![p] = TRUE]
          /\ UNCHANGED fs
    /\ UNCHANGED <<disk, bytes, pending, replay, acked>>

\* Mutant: the pending name goes before the link is synchronized.
SyncDirectory_skipped(p) ==
    /\ Steps(p, "syncdir", "unlink")
    /\ UNCHANGED <<fs, disk, bytes, pending, replay, latched, acked>>

SyncDirectory(p) ==
    /\ Steps(p, "syncdir", "unlink")
    /\ disk' = NamesSynced(disk, fs)
    /\ UNCHANGED <<fs, bytes, pending, replay, latched, acked>>

UnlinkPending(p) ==
    /\ Steps(p, "unlink", "syncunlink")
    /\ fs' = Unlinked(fs, pending[p])
    /\ UNCHANGED <<disk, bytes, pending, replay, latched, acked>>

SyncUnlink(p) ==
    /\ pc[p] = "syncunlink"
    /\ disk' = TempsSynced(disk, fs)
    /\ Returns(p)
    /\ UNCHANGED fs

-----------------------------------------------------------------------------
(* EEXIST: the record is already there, from before a restart or from      *)
(* another process.                                                        *)

UnlinkDuplicate(p) ==
    /\ Steps(p, "x.unlink", "x.syncpending")
    /\ fs' = Unlinked(fs, pending[p])
    /\ UNCHANGED <<disk, bytes, pending, replay, latched, acked>>

SyncDuplicate(p) ==
    /\ Steps(p, "x.syncpending", "x.read")
    /\ disk' = TempsSynced(disk, fs)
    /\ UNCHANGED <<fs, bytes, pending, replay, latched, acked>>

Existing(p) == fs.name[CodeOf(bytes[p])]

\* readExactFile: one link, same length, same digest.
ExistingMatches(p) == Exact(fs, Existing(p), bytes[p])

ReadExisting(p) ==
    /\ pc[p] = "x.read"
    /\ \/ /\ ExistingMatches(p)
          /\ Steps(p, "x.read", "x.syncfile")
          /\ UNCHANGED <<bytes, pending, latched>>
       \/ /\ ~ExistingMatches(p)
          /\ Ends(p, TRUE)
    /\ UNCHANGED <<fs, disk, replay, acked>>

SyncExistingFile(p) ==
    /\ Steps(p, "x.syncfile", "x.syncdir")
    /\ disk' = FileSynced(disk, fs, Existing(p))
    /\ UNCHANGED <<fs, bytes, pending, replay, latched, acked>>

SyncExistingName(p) ==
    /\ pc[p] = "x.syncdir"
    /\ disk' = NamesSynced(disk, fs)
    /\ Returns(p)
    /\ UNCHANGED fs

-----------------------------------------------------------------------------
(* Faults *)

\* The catch block removes the pending name only when nothing was linked.
CleansUp(p) == pc[p] \in {"write", "syncfile", "syncpending", "link"}

\* What a write that fails or is killed may leave of the pending file.
CutShort(p) ==
    {fs} \cup (IF pc[p] = "write"
               THEN {Written(fs, i, Torn) : i \in {j \in File : Unused(j)}} ELSE {})

\* A file operation throws.  The cleanup may itself fail.
IoError(p) ==
    /\ pc[p] \notin {"closed", "ready"}
    /\ \/ /\ CleansUp(p)
          /\ fs' = IF pending[p] = 0 THEN fs ELSE Unlinked(fs, pending[p])
          /\ disk' \in {TempsSynced(disk, fs')} \cup (IF pending[p] = 0 THEN {disk} ELSE {})
          /\ Ends(p, FALSE)
       \/ /\ \/ fs' \in CutShort(p)
             \/ CleansUp(p) /\ fs' = Unlinked(fs, pending[p])
          /\ disk' = disk
          /\ Ends(p, TRUE)
    /\ UNCHANGED <<replay, acked>>

\* The process ends, killed or not; what it remembered is gone.
Stop(p) ==
    /\ pc[p] # "closed"
    /\ fs' \in CutShort(p)
    /\ pc' = [pc EXCEPT ![p] = "closed"]
    /\ bytes' = [bytes EXCEPT ![p] = Torn]
    /\ pending' = [pending EXCEPT ![p] = 0]
    /\ replay' = [replay EXCEPT ![p] = {}]
    /\ latched' = [latched EXCEPT ![p] = FALSE]
    /\ UNCHANGED <<disk, acked>>

PowerLoss ==
    /\ fs' \in AfterPowerLoss(fs, disk)
    /\ disk' = fs'
    /\ pc' = [p \in Procs |-> "closed"]
    /\ bytes' = [p \in Procs |-> Torn]
    /\ pending' = [p \in Procs |-> 0]
    /\ replay' = [p \in Procs |-> {}]
    /\ latched' = [p \in Procs |-> FALSE]
    /\ UNCHANGED acked

-----------------------------------------------------------------------------

Step(p) ==
    \/ \E b \in Bytes : Append(p, b) \/ Replay(p, b)
    \/ Open(p) \/ WritePending(p) \/ SyncFile(p) \/ SyncPending(p) \/ Link(p)
    \/ SyncDirectory(p) \/ UnlinkPending(p) \/ SyncUnlink(p)
    \/ UnlinkDuplicate(p) \/ SyncDuplicate(p) \/ ReadExisting(p)
    \/ SyncExistingFile(p) \/ SyncExistingName(p)
    \/ IoError(p) \/ Stop(p)

Next == (\E p \in Procs : Step(p)) \/ PowerLoss

Spec == Init /\ [][Next]_vars

-----------------------------------------------------------------------------
(* Properties *)

Durable(b) == Holds(disk, CodeOf(b), b)

\* A record whose append has returned is on the disk, whole, whatever
\* follows: errors of other appends, restarts, power losses (append).  And
\* nothing a reader can be given goes away: when a store accepts work, each
\* record it lists is already on the disk with the bytes it shows
\* (assertOperational before read and inventory).  And a record code never
\* names bytes that were cut short, nor another record's file (the link
\* follows both fsyncs).
RecordsDurable ==
    /\ \A b \in acked : Durable(b)
    /\ \A n \in Names : fs.name[n] # 0 =>
         /\ fs.data[fs.name[n]] \in {b \in Bytes : CodeOf(b) = n}
         /\ \A p \in Procs : Operational(p) =>
              disk.name[n] = fs.name[n] /\ Holds(disk, n, fs.data[fs.name[n]])
=============================================================================
