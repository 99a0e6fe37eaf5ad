----------------------------- MODULE CacheStore -----------------------------
(***************************************************************************)
(* gruel-cache/src/store.rs: the on-disk store that gruel processes share. *)
(* A step is one file-system operation, so the processes interleave inside *)
(* open, put and clean, and may crash between any two operations.          *)
(*                                                                         *)
(* A blob is identified by the schema version of the build that wrote it:  *)
(* that is all the properties below tell apart.  The parent directories    *)
(* are created in one step (a half-made layout is also what a concurrent   *)
(* wipe leaves of a complete one).  Directory operations are taken to be   *)
(* durable in order, file contents only once synced.                       *)
(***************************************************************************)
EXTENDS Naturals, FiniteSets

CONSTANTS
    Procs,       \* slots for gruel processes; a slot is reused after an exit
    Versions,    \* the CACHE_SCHEMA_VERSIONs of the builds in use
    Kinds,       \* CacheKind
    Keys,        \* content hashes
    NoFile,      \* a path that does not exist
    Torn,        \* what is read from a file created but not (durably) written
    MaxFaults,   \* bound on crashes, power losses and I/O errors
    MayClean     \* whether `gruel cache clean` is used

ASSUME StoreAssumption ==
    /\ NoFile \notin Versions \cup {Torn}
    /\ Torn \notin Versions
    /\ MaxFaults \in Nat
    /\ MayClean \in BOOLEAN

VARIABLES
    dirs,        \* the directories that exist: the root, tmp, one per kind
    version,     \* content of <root>/version
    entries,     \* content of <root>/<kind>/<key>
    staged,      \* content of the tmp/ file of each process's current put
    litter,      \* whether tmp/ holds files whose put failed or died
    pc,          \* where each process is
    build,       \* the schema version compiled into each process
    target,      \* the path each process's current put will rename to
    answer,      \* the latest result of get, with its path
    faults       \* crashes, power losses and I/O errors so far

disk == <<dirs, version, entries, staged, litter>>
vars == <<dirs, version, entries, staged, litter, pc, build, target, answer, faults>>

Paths == Kinds \X Keys
Layout == Kinds \cup {"root", "tmp"}
File == [data : Versions \cup {Torn}, synced : BOOLEAN]
Blob(v) == [data |-> v, synced |-> TRUE]

\* The states of a process that holds an open CacheStore.
Opened == {"ready", "write", "sync", "rename"}
PCs == Opened \cup {"idle", "check", "read", "wipe", "mkdirs", "persist",
                    "create", "writever", "lostver", "clean"}

Init ==
    /\ dirs = {}
    /\ version = NoFile
    /\ entries = [e \in Paths |-> NoFile]
    /\ staged = [p \in Procs |-> NoFile]
    /\ litter = FALSE
    /\ pc = [p \in Procs |-> "idle"]
    /\ build \in [Procs -> Versions]
    /\ target \in [Procs -> Paths]
    /\ answer = <<>>
    /\ faults = 0

Goto(p, l) == pc' = [pc EXCEPT ![p] = l]

-----------------------------------------------------------------------------
(* CacheStore::open and ensure_layout                                      *)

\* A process starts; its build fixes CACHE_SCHEMA_VERSION.
Start(p, v) ==
    /\ pc[p] = "idle"
    /\ build' = [build EXCEPT ![p] = v]
    /\ Goto(p, "check")
    /\ UNCHANGED <<disk, target, answer, faults>>

\* self.root.exists() && version_path.exists()
CheckVersion(p) ==
    /\ pc[p] = "check"
    /\ Goto(p, IF version = NoFile THEN "mkdirs" ELSE "read")
    /\ UNCHANGED <<disk, build, target, answer, faults>>

\* Mutant: a mismatch rewrites the version without wiping.
ReadVersionNoWipe(p) ==
    /\ pc[p] = "read"
    /\ Goto(p, "mkdirs")
    /\ UNCHANGED <<disk, build, target, answer, faults>>

\* read_to_string and parse: a mismatch, an unparsable file and a file that
\* vanished since the existence check all lead to remove_dir_all.
ReadVersion(p) ==
    /\ pc[p] = "read"
    /\ Goto(p, IF version = build[p] THEN "mkdirs" ELSE "wipe")
    /\ UNCHANGED <<disk, build, target, answer, faults>>

MakeDirs(p) ==
    /\ pc[p] = "mkdirs"
    /\ dirs' = Layout
    /\ Goto(p, "persist")
    /\ UNCHANGED <<version, entries, staged, litter, build, target, answer, faults>>

\* if !version_path.exists()
CheckPersist(p) ==
    /\ pc[p] = "persist"
    /\ Goto(p, IF version = NoFile THEN "create" ELSE "ready")
    /\ UNCHANGED <<disk, build, target, answer, faults>>

\* fs::write, first half: create or truncate.  Without the root it fails and
\* the process goes on without a cache.
CreateVersion(p) ==
    /\ pc[p] = "create"
    /\ IF "root" \in dirs
       THEN version' = Torn /\ Goto(p, "writever")
       ELSE UNCHANGED version /\ Goto(p, "idle")
    /\ UNCHANGED <<dirs, entries, staged, litter, build, target, answer, faults>>

\* Mutant: the version persisted is one past the build's own.
WriteVersionBumped(p) ==
    /\ pc[p] \in {"writever", "lostver"}
    /\ version' = IF pc[p] = "writever" THEN build[p] + 1 ELSE version
    /\ Goto(p, "ready")
    /\ UNCHANGED <<dirs, entries, staged, litter, build, target, answer, faults>>

\* fs::write, second half.  Once the file has been unlinked the bytes go to
\* an inode that no path names any more.
WriteVersion(p) ==
    /\ pc[p] \in {"writever", "lostver"}
    /\ version' = IF pc[p] = "writever" THEN build[p] ELSE version
    /\ Goto(p, "ready")
    /\ UNCHANGED <<dirs, entries, staged, litter, build, target, answer, faults>>

-----------------------------------------------------------------------------
(* fs::remove_dir_all(root), called by ensure_layout and by clean.  The     *)
(* entries of a directory go in whatever order readdir lists them.          *)

Wiping(p) == pc[p] \in {"wipe", "clean"}

UnlinkVersion(p) ==
    /\ Wiping(p)
    /\ version # NoFile
    /\ version' = NoFile
    /\ pc' = [q \in Procs |-> IF pc[q] = "writever" THEN "lostver" ELSE pc[q]]
    /\ UNCHANGED <<dirs, entries, staged, litter, build, target, answer, faults>>

UnlinkEntry(p, e) ==
    /\ Wiping(p)
    /\ entries[e] # NoFile
    /\ entries' = [entries EXCEPT ![e] = NoFile]
    /\ UNCHANGED <<dirs, version, staged, litter, pc, build, target, answer, faults>>

UnlinkStaged(p) ==
    /\ Wiping(p)
    /\ \/ litter /\ litter' = FALSE /\ UNCHANGED staged
       \/ \E q \in Procs : /\ staged[q] # NoFile
                           /\ staged' = [staged EXCEPT ![q] = NoFile]
                           /\ UNCHANGED litter
    /\ UNCHANGED <<dirs, version, entries, pc, build, target, answer, faults>>

EmptyDir(d) ==
    CASE d = "root" -> dirs = {"root"} /\ version = NoFile
      [] d = "tmp"  -> ~litter /\ \A q \in Procs : staged[q] = NoFile
      [] OTHER      -> \A k \in Keys : entries[<<d, k>>] = NoFile

\* rmdir; removing the root ends the wipe.  ensure_layout goes on to create
\* the directories, clean starts ensure_layout from the top.
RemoveDir(p, d) ==
    /\ Wiping(p)
    /\ d \in dirs
    /\ EmptyDir(d)
    /\ dirs' = dirs \ {d}
    /\ IF d = "root" THEN Goto(p, IF pc[p] = "wipe" THEN "mkdirs" ELSE "check")
                     ELSE UNCHANGED pc
    /\ UNCHANGED <<version, entries, staged, litter, build, target, answer, faults>>

\* remove_dir_all reports an error when another process changed the tree
\* under it (a path already gone, a directory refilled); open and clean
\* pass the error on and the caller gives the store up.
WipeError(p) ==
    /\ Wiping(p)
    /\ "root" \notin dirs \/ \E q \in Procs \ {p} : pc[q] # "idle"
    /\ Goto(p, "idle")
    /\ UNCHANGED <<disk, build, target, answer, faults>>

-----------------------------------------------------------------------------
(* The operations of an open store                                         *)

\* File::open fixes the inode, and an entry's inode never changes once it
\* has been renamed into place: open and read_to_end are one step.
Get(p, e) ==
    /\ pc[p] = "ready"
    /\ answer' = <<e, IF entries[e] = NoFile THEN NoFile ELSE entries[e].data>>
    /\ UNCHANGED <<disk, pc, build, target, faults>>

\* Mutant: put writes to the final path instead of a staging file.
PutCreateInPlace(p, e) ==
    /\ pc[p] = "ready"
    /\ e[1] \in dirs
    /\ entries' = [entries EXCEPT ![e] = [data |-> Torn, synced |-> FALSE]]
    /\ staged' = [staged EXCEPT ![p] = [data |-> Torn, synced |-> FALSE]]
    /\ target' = [target EXCEPT ![p] = e]
    /\ Goto(p, "write")
    /\ UNCHANGED <<dirs, version, litter, build, answer, faults>>

\* put: File::create(tmp/<pid>-<n>-<key>.tmp).  The name is this put's own.
PutCreate(p, e) ==
    /\ pc[p] = "ready"
    /\ "tmp" \in dirs
    /\ staged' = [staged EXCEPT ![p] = [data |-> Torn, synced |-> FALSE]]
    /\ target' = [target EXCEPT ![p] = e]
    /\ Goto(p, "write")
    /\ UNCHANGED <<dirs, version, entries, litter, build, answer, faults>>

\* put: write_all.  A staging file that a wipe unlinked takes the bytes along.
PutWrite(p) ==
    /\ pc[p] = "write"
    /\ staged' = IF staged[p] = NoFile THEN staged
                 ELSE [staged EXCEPT ![p] = [data |-> build[p], synced |-> FALSE]]
    /\ Goto(p, "sync")
    /\ UNCHANGED <<dirs, version, entries, litter, build, target, answer, faults>>

\* Mutant: put without sync_all.
PutNoSync(p) ==
    /\ pc[p] = "sync"
    /\ Goto(p, "rename")
    /\ UNCHANGED <<disk, build, target, answer, faults>>

\* put: sync_all
PutSync(p) ==
    /\ pc[p] = "sync"
    /\ staged' = IF staged[p] = NoFile THEN staged
                 ELSE [staged EXCEPT ![p].synced = TRUE]
    /\ Goto(p, "rename")
    /\ UNCHANGED <<dirs, version, entries, litter, build, target, answer, faults>>

\* put: rename, which fails when a wipe took the staging file or the kind's
\* directory; a failing put leaves its staging file behind.
PutRename(p) ==
    /\ pc[p] = "rename"
    /\ IF staged[p] # NoFile /\ target[p][1] \in dirs
       THEN entries' = [entries EXCEPT ![target[p]] = staged[p]] /\ UNCHANGED litter
       ELSE litter' = (litter \/ staged[p] # NoFile) /\ UNCHANGED entries
    /\ staged' = [staged EXCEPT ![p] = NoFile]
    /\ Goto(p, "ready")
    /\ UNCHANGED <<dirs, version, build, target, answer, faults>>

\* `gruel cache clean`: clean returns at once when there is no root.
Clean(p) ==
    /\ MayClean
    /\ pc[p] = "ready"
    /\ "root" \in dirs
    /\ Goto(p, "clean")
    /\ UNCHANGED <<disk, build, target, answer, faults>>

Exit(p) ==
    /\ pc[p] = "ready"
    /\ Goto(p, "idle")
    /\ UNCHANGED <<disk, build, target, answer, faults>>

-----------------------------------------------------------------------------
(* The environment                                                         *)

Fault == faults < MaxFaults /\ faults' = faults + 1

\* write_all or sync_all fails (a full disk): put returns the error and
\* leaves its staging file.
PutError(p) ==
    /\ Fault
    /\ pc[p] \in {"write", "sync"}
    /\ litter' = (litter \/ staged[p] # NoFile)
    /\ staged' = [staged EXCEPT ![p] = NoFile]
    /\ Goto(p, "ready")
    /\ UNCHANGED <<dirs, version, entries, build, target, answer>>

\* The process is killed; its next incarnation has another pid, so the
\* staging file is nobody's.
Crash(p) ==
    /\ Fault
    /\ pc[p] # "idle"
    /\ litter' = (litter \/ staged[p] # NoFile)
    /\ staged' = [staged EXCEPT ![p] = NoFile]
    /\ Goto(p, "idle")
    /\ UNCHANGED <<dirs, version, entries, build, target, answer>>

Survive(f) == IF f = NoFile \/ f.synced THEN f ELSE [data |-> Torn, synced |-> TRUE]

\* The machine loses power: every process dies and contents that were never
\* synced, the version file's among them, may be gone.
PowerLoss ==
    /\ Fault
    /\ version' \in {version} \cup (IF version = NoFile THEN {} ELSE {Torn})
    /\ entries' = [e \in Paths |-> Survive(entries[e])]
    /\ litter' = (litter \/ \E q \in Procs : staged[q] # NoFile)
    /\ staged' = [q \in Procs |-> NoFile]
    /\ pc' = [q \in Procs |-> "idle"]
    /\ UNCHANGED <<dirs, build, target, answer>>

-----------------------------------------------------------------------------
OpenStep(p) ==
    \/ \E v \in Versions : Start(p, v)
    \/ CheckVersion(p) \/ ReadVersion(p) \/ MakeDirs(p)
    \/ CheckPersist(p) \/ CreateVersion(p) \/ WriteVersion(p)

WipeStep(p) ==
    \/ UnlinkVersion(p) \/ UnlinkStaged(p) \/ WipeError(p)
    \/ \E e \in Paths : UnlinkEntry(p, e)
    \/ \E d \in Layout : RemoveDir(p, d)

UseStep(p) ==
    \/ \E e \in Paths : Get(p, e) \/ PutCreate(p, e)
    \/ PutWrite(p) \/ PutSync(p) \/ PutRename(p)
    \/ Clean(p) \/ Exit(p)

Next ==
    \/ \E p \in Procs : OpenStep(p) \/ WipeStep(p) \/ UseStep(p)
    \/ \E p \in Procs : PutError(p) \/ Crash(p)
    \/ PowerLoss

Spec == Init /\ [][Next]_vars

-----------------------------------------------------------------------------
(* Properties                                                              *)

\* Type invariant.
TypeOK ==
    /\ dirs \in SUBSET Layout
    /\ version \in Versions \cup {Torn, NoFile}
    /\ entries \in [Paths -> File \cup {NoFile}]
    /\ staged \in [Procs -> File \cup {NoFile}]
    /\ litter \in BOOLEAN
    /\ pc \in [Procs -> PCs]
    /\ build \in [Procs -> Versions]
    /\ target \in [Procs -> Paths]
    /\ answer \in {<<>>} \cup (Paths \X (Versions \cup {Torn, NoFile}))
    /\ faults \in Nat

\* Every entry a reader can see is complete and on stable storage: put stages
\* and syncs the blob before the rename, so neither a concurrent process, nor
\* a kill, nor a power loss exposes part of one.
WholeEntries == \A e \in Paths : entries[e] # NoFile => entries[e] \in {Blob(v) : v \in Versions}

\* What makes WholeEntries inductive: a put that is about to sync has written
\* its blob, and one that is about to rename has synced it, unless a wipe has
\* taken the staging file.
StagedInOrder ==
    \A p \in Procs : staged[p] # NoFile =>
        /\ pc[p] = "sync" => staged[p].data \in Versions
        /\ pc[p] = "rename" => staged[p] \in {Blob(v) : v \in Versions}

StoreInv == TypeOK /\ WholeEntries /\ StagedInOrder

\* The blob under each path, as get would return it.
Stored == [e \in Paths |-> IF entries[e] = NoFile THEN NoFile ELSE entries[e].data]

\* The store implements the lossy map of ContentStore: get answers with a miss
\* or with a blob some put completed, whatever wipes, crashes and races happen.
Abstract == INSTANCE ContentStore WITH
    Blobs <- Versions,
    Absent <- NoFile,
    map <- Stored
ImplementsContentStore == Abstract!ContentSpec

\* "On CacheStore::open, if the persisted version doesn't match
\* CACHE_SCHEMA_VERSION, the entire cache directory is wiped and recreated":
\* a process holding an open store finds only entries of its own schema.
OnlyOwnSchema ==
    \A p \in Procs : pc[p] \in Opened =>
        \A e \in Paths : entries[e] # NoFile => entries[e].data = build[p]

\* "This is the only path by which the store deletes data": when every build
\* has the same schema version and nobody runs clean, no entry disappears.
KeepsEntries ==
    [][\A e \in Paths : entries[e] # NoFile => entries'[e] # NoFile]_vars
=============================================================================
