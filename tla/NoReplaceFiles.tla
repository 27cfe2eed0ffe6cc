--------------------------- MODULE NoReplaceFiles ---------------------------
(***************************************************************************)
(* The file layout the custody stores share (d9/custody/durable-store.mjs  *)
(* and d9/custody/cas.mjs): a private directory of temporaries and a       *)
(* directory of final names that are hard-linked from a temporary and      *)
(* never replaced.                                                         *)
(*                                                                         *)
(* An image f records what the directories and the files hold:             *)
(*   name   the file each final name links to, 0 when there is none;       *)
(*   temp   the files that still have a temporary name;                    *)
(*   data   the bytes of each file, Torn when a write was cut short.       *)
(* A running system has two images: what its processes see, and what is    *)
(* on the disk and survives a power loss.                                  *)
(***************************************************************************)
EXTENDS Naturals, FiniteSets

CONSTANTS
    Names,      \* final names: record codes, or content addresses
    Bytes,      \* byte sequences a client may store
    Torn,       \* the bytes of a write that was cut short
    MaxFiles    \* bound: files that exist at once

ASSUME FilesAssumption ==
    /\ Torn \notin Bytes
    /\ MaxFiles \in Nat

File == 1 .. MaxFiles

Image == [name: [Names -> 0 .. MaxFiles], temp: SUBSET File, data: [File -> Bytes \cup {Torn}]]

EmptyImage == [name |-> [n \in Names |-> 0], temp |-> {}, data |-> [i \in File |-> Torn]]

\* nlink of file i.
Links(f, i) ==
    Cardinality({n \in Names : f.name[n] = i}) + (IF i \in f.temp THEN 1 ELSE 0)

\* No directory entry refers to file i.
Free(f, i) == i \notin f.temp /\ \A n \in Names : f.name[n] # i

\* A private single-link file with exactly the bytes b.
Exact(f, i, b) == Links(f, i) = 1 /\ f.data[i] = b

Holds(f, n, b) == f.name[n] # 0 /\ f.data[f.name[n]] = b

Written(f, i, b) == [f EXCEPT !.temp = @ \cup {i}, !.data[i] = b]
Linked(f, n, i) == [f EXCEPT !.name[n] = i]
Unlinked(f, i) == [f EXCEPT !.temp = @ \ {i}]

\* fsync of one file, of the temporaries' directory, of the final directory.
FileSynced(d, f, i) == [d EXCEPT !.data[i] = f.data[i]]
TempsSynced(d, f) == [d EXCEPT !.temp = f.temp]
NamesSynced(d, f) == [d EXCEPT !.name = f.name]

\* The names in N, the temporary entries in T and the bytes of the files in
\* W are kept of what was not synchronized.
Surviving(f, d, N, T, W) ==
    [name |-> [n \in Names |-> IF n \in N THEN f.name[n] ELSE d.name[n]],
     temp |-> (f.temp \cap d.temp) \cup T,
     data |-> [i \in File |-> IF f.data[i] = d.data[i] \/ i \in W THEN f.data[i] ELSE Torn]]

\* What a power loss may leave: each entry and each file that was not
\* synchronized is kept, lost or, for bytes, cut short.
AfterPowerLoss(f, d) ==
    {Surviving(f, d, N, T, W) :
        N \in SUBSET {n \in Names : f.name[n] # d.name[n]},
        T \in SUBSET ((f.temp \ d.temp) \cup (d.temp \ f.temp)),
        W \in SUBSET {i \in File : f.data[i] # d.data[i]}}
=============================================================================
