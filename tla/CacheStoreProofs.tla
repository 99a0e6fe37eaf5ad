-------------------------- MODULE CacheStoreProofs --------------------------
(***************************************************************************)
(* Theorems about CacheStore, for any number of processes, builds, kinds   *)
(* and keys and any number of faults.                                      *)
(***************************************************************************)
EXTENDS CacheStore, TLAPS

\* The initial states satisfy the inductive invariant: nothing is on disk.
LEMMA InitStoreInv == Init => StoreInv
<1> SUFFICES ASSUME Init PROVE StoreInv
  OBVIOUS
<1>1. TypeOK
  BY DEF Init, TypeOK, PCs
<1>2. WholeEntries /\ StagedInOrder
  BY DEF Init, WholeEntries, StagedInOrder
<1> QED
  BY <1>1, <1>2 DEF StoreInv

\* Every operation of ensure_layout keeps the inductive invariant: it touches
\* neither entries nor staging files.
LEMMA OpenStoreInv ==
  ASSUME StoreInv, NEW p \in Procs, OpenStep(p)
  PROVE  StoreInv'
<1> USE DEF StoreInv, TypeOK, PCs, Opened, Goto, disk, WholeEntries, StagedInOrder
<1>1. CASE \E v \in Versions : Start(p, v)
  BY <1>1 DEF Start
<1>2. CASE CheckVersion(p)
  BY <1>2 DEF CheckVersion
<1>3. CASE ReadVersion(p)
  BY <1>3 DEF ReadVersion
<1>4. CASE MakeDirs(p)
  BY <1>4 DEF MakeDirs
<1>5. CASE CheckPersist(p)
  BY <1>5 DEF CheckPersist
<1>6. CASE CreateVersion(p)
  BY <1>6 DEF CreateVersion
<1>7. CASE WriteVersion(p)
  BY <1>7 DEF WriteVersion
<1> QED
  BY <1>1, <1>2, <1>3, <1>4, <1>5, <1>6, <1>7 DEF OpenStep

\* Every operation of remove_dir_all keeps it: a wipe only removes files.
LEMMA WipeStoreInv ==
  ASSUME StoreInv, NEW p \in Procs, WipeStep(p)
  PROVE  StoreInv'
<1> USE DEF StoreInv, TypeOK, PCs, Opened, Goto, disk, WholeEntries, StagedInOrder, Wiping
<1>1. CASE UnlinkVersion(p)
  BY <1>1 DEF UnlinkVersion
<1>2. CASE UnlinkStaged(p)
  BY <1>2 DEF UnlinkStaged
<1>3. CASE WipeError(p)
  BY <1>3 DEF WipeError
<1>4. ASSUME NEW e \in Paths, UnlinkEntry(p, e) PROVE StoreInv'
  BY <1>4 DEF UnlinkEntry
<1>5. ASSUME NEW d \in Layout, RemoveDir(p, d) PROVE StoreInv'
  BY <1>5 DEF RemoveDir
<1> QED
  BY <1>1, <1>2, <1>3, <1>4, <1>5 DEF WipeStep

\* get and the steps of put keep it: only a synced staging file is renamed.
LEMMA UseStoreInv ==
  ASSUME StoreInv, NEW p \in Procs, UseStep(p)
  PROVE  StoreInv'
<1> USE DEF StoreInv, TypeOK, PCs, Opened, Goto, disk, WholeEntries, StagedInOrder, Blob, File
<1>1. ASSUME NEW e \in Paths, Get(p, e) PROVE StoreInv'
  BY <1>1 DEF Get
<1>2. ASSUME NEW e \in Paths, PutCreate(p, e) PROVE StoreInv'
  BY <1>2 DEF PutCreate
<1>3. CASE PutWrite(p)
  BY <1>3 DEF PutWrite
<1>4. CASE PutSync(p)
  BY <1>4 DEF PutSync
<1>5. CASE PutRename(p)
  BY <1>5 DEF PutRename
<1>6. CASE Clean(p)
  BY <1>6 DEF Clean
<1>7. CASE Exit(p)
  BY <1>7 DEF Exit
<1> QED
  BY <1>1, <1>2, <1>3, <1>4, <1>5, <1>6, <1>7 DEF UseStep

\* Faults keep it: what a power loss tears was never visible as an entry.
LEMMA FaultStoreInv ==
  ASSUME StoreInv, (\E p \in Procs : PutError(p) \/ Crash(p)) \/ PowerLoss
  PROVE  StoreInv'
<1> USE DEF StoreInv, TypeOK, PCs, Opened, Goto, disk, WholeEntries, StagedInOrder, Fault
<1>1. ASSUME NEW p \in Procs, PutError(p) PROVE StoreInv'
  BY <1>1 DEF PutError
<1>2. ASSUME NEW p \in Procs, Crash(p) PROVE StoreInv'
  BY <1>2 DEF Crash
<1>3. CASE PowerLoss
  BY <1>3 DEF PowerLoss, Survive, Blob, File
<1> QED
  BY <1>1, <1>2, <1>3

\* StoreInv holds in every reachable state.
THEOREM StoreInvariant == Spec => []StoreInv
<1>1. Init => StoreInv
  BY InitStoreInv
<1>2. StoreInv /\ [Next]_vars => StoreInv'
  <2> SUFFICES ASSUME StoreInv, [Next]_vars PROVE StoreInv'
    OBVIOUS
  <2>1. ASSUME NEW p \in Procs, OpenStep(p) PROVE StoreInv'
    BY <2>1, OpenStoreInv
  <2>2. ASSUME NEW p \in Procs, WipeStep(p) PROVE StoreInv'
    BY <2>2, WipeStoreInv
  <2>3. ASSUME NEW p \in Procs, UseStep(p) PROVE StoreInv'
    BY <2>3, UseStoreInv
  <2>4. CASE (\E p \in Procs : PutError(p) \/ Crash(p)) \/ PowerLoss
    BY <2>4, FaultStoreInv
  <2>5. CASE UNCHANGED vars
    BY <2>5 DEF vars, StoreInv, TypeOK, WholeEntries, StagedInOrder
  <2> QED
    BY <2>1, <2>2, <2>3, <2>4, <2>5 DEF Next
<1> QED
  BY <1>1, <1>2, PTL DEF Spec

\* No reader of the cache ever sees a torn or unsynced entry, however many
\* processes share it and wherever they are killed.
THEOREM EntriesStayWhole == Spec => []WholeEntries
  BY StoreInvariant, PTL DEF StoreInv

\* The steps that leave entries and the latest answer alone stutter.
LEMMA Stutter ==
  ASSUME UNCHANGED <<entries, answer>>
  PROVE  UNCHANGED <<Stored, answer>>
  BY DEF Stored

\* A step of the store is a step of the lossy map, or leaves it alone.
LEMMA StoreStepRefines ==
  ASSUME StoreInv, Next
  PROVE  Abstract!ContentNext \/ UNCHANGED <<Stored, answer>>
<1> USE DEF disk
<1>1. ASSUME NEW p \in Procs, OpenStep(p) PROVE UNCHANGED <<entries, answer>>
  BY <1>1 DEF OpenStep, Start, CheckVersion, ReadVersion, MakeDirs, CheckPersist,
     CreateVersion, WriteVersion
<1>2. ASSUME NEW p \in Procs, WipeStep(p), NEW e \in Paths, UnlinkEntry(p, e)
      PROVE  Abstract!Lose(e)
  BY <1>2 DEF UnlinkEntry, Abstract!Lose, Stored, StoreInv, TypeOK
<1>3. ASSUME NEW p \in Procs, WipeStep(p), ~ \E e \in Paths : UnlinkEntry(p, e)
      PROVE  UNCHANGED <<entries, answer>>
  BY <1>3 DEF WipeStep, UnlinkVersion, UnlinkStaged, WipeError, RemoveDir
<1>4. ASSUME NEW p \in Procs, NEW e \in Paths, Get(p, e) PROVE Abstract!Lookup(e)
  BY <1>4 DEF Get, Abstract!Lookup, Stored
<1>5. ASSUME NEW p \in Procs, PutRename(p)
      PROVE  (\E v \in Versions : Abstract!Insert(target[p], v)) \/ UNCHANGED <<entries, answer>>
  <2>1. CASE staged[p] # NoFile /\ target[p][1] \in dirs
    <3>1. PICK v \in Versions : staged[p] = Blob(v)
      BY <1>5, <2>1 DEF PutRename, StoreInv, StagedInOrder
    <3>2. Blob(v) # NoFile /\ Blob(v).data = v /\ target[p] \in Paths
      BY <2>1, <3>1 DEF Blob, StoreInv, TypeOK
    <3>3. entries' = [entries EXCEPT ![target[p]] = Blob(v)] /\ UNCHANGED answer
      BY <1>5, <2>1, <3>1 DEF PutRename
    <3>4. \A e \in Paths : entries'[e] = IF e = target[p] THEN Blob(v) ELSE entries[e]
      BY <3>2, <3>3 DEF StoreInv, TypeOK
    <3>5. \A e \in Paths : Stored'[e] = IF e = target[p] THEN v ELSE Stored[e]
      BY <3>2, <3>4 DEF Stored
    <3>6. Stored' = [Stored EXCEPT ![target[p]] = v]
      BY <3>2, <3>5 DEF Stored
    <3> QED
      BY <3>3, <3>6 DEF Abstract!Insert
  <2>2. CASE ~(staged[p] # NoFile /\ target[p][1] \in dirs)
    BY <1>5, <2>2 DEF PutRename
  <2> QED
    BY <2>1, <2>2
<1>6. ASSUME NEW p \in Procs, UseStep(p), ~ PutRename(p), ~ \E e \in Paths : Get(p, e)
      PROVE  UNCHANGED <<entries, answer>>
  BY <1>6 DEF UseStep, PutCreate, PutWrite, PutSync, Clean, Exit
<1>7. ASSUME NEW p \in Procs, PutError(p) \/ Crash(p) PROVE UNCHANGED <<entries, answer>>
  BY <1>7 DEF PutError, Crash
<1>8. CASE PowerLoss
  <2>1. ASSUME NEW e \in Paths PROVE Survive(entries[e]) = entries[e]
    BY StoreAssumption DEF Survive, StoreInv, WholeEntries, Blob
  <2>2. UNCHANGED <<entries, answer>>
    BY <1>8, <2>1 DEF PowerLoss, StoreInv, TypeOK
  <2> QED
    BY <2>2, Stutter
<1>9. \A p \in Procs : target[p] \in Paths
  BY DEF StoreInv, TypeOK
<1> QED
  BY <1>1, <1>2, <1>3, <1>4, <1>5, <1>6, <1>7, <1>8, <1>9, Stutter DEF Next, UseStep, Abstract!ContentNext

\* The on-disk protocol implements the lossy map of ContentStore.
THEOREM StoreRefines == Spec => ImplementsContentStore
<1>1. Init => Abstract!ContentInit
  BY DEF Init, Abstract!ContentInit, Stored
<1>2. StoreInv /\ [Next]_vars => [Abstract!ContentNext]_<<Stored, answer>>
  BY StoreStepRefines, Stutter DEF vars
<1> QED
  BY <1>1, <1>2, StoreInvariant, PTL DEF Spec, ImplementsContentStore, Abstract!ContentSpec
=============================================================================
