-------------------------- MODULE LspServerProofs --------------------------
(***************************************************************************)
(* Theorems about LspServer, for any files, texts and frontend and any     *)
(* number of notifications and timeouts.                                   *)
(***************************************************************************)
EXTENDS LspServer, TLAPS

\* ShownAreTracked is inductive once the editor is known to have an answer for
\* every file.
TrackedInv == DOMAIN shown = Files /\ ShownAreTracked

\* The initial states are well typed: all maps are empty.
LEMMA InitTypeOK == Init => TypeOK
<1> SUFFICES ASSUME Init PROVE TypeOK
  OBVIOUS
<1>1. disk \in Unit /\ 0 \in 0 .. MaxEvents /\ 0 \in 0 .. MaxTimeouts
  BY LspAssumption DEF Init
<1>2. Nothing \in Unit /\ Nothing \in [Files -> Doc \cup {Nil}]
      /\ Nothing \in [Files -> Unit \cup {Nil}]
  BY DEF Nothing, Unit
<1> QED
  BY <1>1, <1>2 DEF Init, TypeOK

\* A notification leaves the worker's locals alone and keeps the maps typed.
LEMMA NotificationTypeOK ==
  ASSUME TypeOK, Notification
  PROVE  TypeOK'
<1> USE LspAssumption DEF TypeOK, Event, reading, result, client
<1>1. ASSUME NEW f \in Files, NEW t \in Texts, DidOpen(f, t) PROVE TypeOK'
  BY <1>1 DEF DidOpen, Doc
<1>2. ASSUME NEW f \in Files, NEW t \in Texts, DidChange(f, t) PROVE TypeOK'
  BY <1>2 DEF DidChange, Doc, IsOpen
<1>3. ASSUME NEW f \in Files, NEW t \in Texts \cup {Nil}, EditDisk(f, t) PROVE TypeOK'
  BY <1>3 DEF EditDisk, Unit
<1>4. ASSUME NEW f \in Files, DidSave(f) PROVE TypeOK'
  <2>1. docs[f].text \in Texts
    BY <1>4 DEF DidSave, Doc, IsOpen
  <2>2. disk' \in Unit
    BY <1>4, <2>1 DEF DidSave, Unit
  <2> QED
    BY <1>4, <2>2 DEF DidSave
<1>5. ASSUME NEW f \in Files, DidClose(f) PROVE TypeOK'
  <2>1. docs' \in [Files -> Doc \cup {Nil}]
    <3>1. docs[f] \in Doc
      BY <1>5 DEF DidClose, IsOpen
    <3>2. [docs[f] EXCEPT !.open = FALSE] \in Doc
      BY <3>1 DEF Doc
    <3>3. docs' = [docs EXCEPT ![f] = [docs[f] EXCEPT !.open = FALSE]]
      BY <1>5 DEF DidClose
    <3> QED
      BY <3>2, <3>3
  <2>2. snapshots' \in [Files -> Unit \cup {Nil}]
    BY <1>5 DEF DidClose
  <2> QED
    BY <1>5, <2>1, <2>2 DEF DidClose
<1>6. ASSUME NEW m \in Files \cup {Nil}, ReloadManifest(m) PROVE TypeOK'
  BY <1>6 DEF ReloadManifest, world
<1> QED
  BY <1>1, <1>2, <1>3, <1>4, <1>5, <1>6 DEF Notification

\* So does what a handler does after its first await.
LEMMA HandleTypeOK ==
  ASSUME TypeOK, Handle
  PROVE  TypeOK'
<1> USE LspAssumption DEF TypeOK, reading, result, client, world
<1>1. CASE Initialize
  BY <1>1 DEF Initialize, Loadable
<1>2. CASE QueueAnalysis
  BY <1>2 DEF QueueAnalysis
<1>3. CASE SetManifest
  BY <1>3 DEF SetManifest
<1>4. CASE ClearSnapshots
  BY <1>4 DEF ClearSnapshots, Nothing
<1> QED
  BY <1>1, <1>2, <1>3, <1>4 DEF Handle

\* The debounce loop and the collection of the roots keep the types.
LEMMA CollectTypeOK ==
  ASSUME TypeOK, Recv \/ Drain \/ BeginPass \/ CollectDone \/ CollectEntry
                 \/ \E f \in Files : CollectRoot(f)
  PROVE  TypeOK'
<1> USE LspAssumption DEF TypeOK, Aside, reading, result, client, world, handler
<1>1. CASE Recv
  BY <1>1 DEF Recv
<1>2. CASE Drain
  BY <1>2 DEF Drain
<1>3. CASE BeginPass
  BY <1>3 DEF BeginPass
<1>4. CASE CollectDone
  BY <1>4 DEF CollectDone
<1>5. CASE CollectEntry
  BY <1>5 DEF CollectEntry, Text, Unit, Doc
<1>6. ASSUME NEW f \in Files, CollectRoot(f) PROVE TypeOK'
  BY <1>6 DEF CollectRoot, Unit, Doc
<1> QED
  BY <1>1, <1>2, <1>3, <1>4, <1>5, <1>6

\* A compile reads texts of files only, so its closure is a unit.
LEMMA CompileTypeOK ==
  ASSUME TypeOK, CompileStep \/ Abandon
  PROVE  TypeOK'
<1> USE LspAssumption DEF TypeOK, Aside, reading, result, client, world, handler
<1>1. ASSUME NEW f \in Files, StartRoot(f) PROVE TypeOK'
  BY <1>1 DEF StartRoot, Unit
<1>2. ASSUME NEW f \in Files, ReadImport(f) PROVE TypeOK'
  BY <1>2 DEF ReadImport, Text, Unit, Doc
<1>3. ASSUME NEW f \in Files, NEW t \in Texts, PopFile(f, t) PROVE TypeOK'
  BY <1>3 DEF PopFile, Unit
<1>4. CASE FinishRoot
  BY <1>4 DEF FinishRoot, Nothing, Unit
<1>5. CASE Abandon
  BY <1>5 DEF Abandon, Nothing, Unit
<1> QED
  BY <1>1, <1>2, <1>3, <1>4, <1>5 DEF CompileStep

\* Installing snapshots and publishing keep the types.
LEMMA PublishTypeOK ==
  ASSUME TypeOK, PublishStep
  PROVE  TypeOK'
<1> USE LspAssumption DEF TypeOK, Aside, reading, result, client, world, handler
<1>1. CASE Prune
  BY <1>1 DEF Prune
<1>2. CASE InstallDone
  BY <1>2 DEF InstallDone
<1>3. CASE ClearDone
  BY <1>3 DEF ClearDone, Affected
<1>4. CASE EndPass
  BY <1>4 DEF EndPass
<1>5. ASSUME NEW f \in Files, Install(f) PROVE TypeOK'
  BY <1>5 DEF Install
<1>6. ASSUME NEW f \in Files, Clear(f) PROVE TypeOK'
  BY <1>6 DEF Clear
<1>7. ASSUME NEW f \in Files, Publish(f) PROVE TypeOK'
  BY <1>7 DEF Publish
<1> QED
  BY <1>1, <1>2, <1>3, <1>4, <1>5, <1>6, <1>7 DEF PublishStep

\* The shared maps and the worker's locals have their types in every reachable
\* state, whatever the two tasks interleave.
THEOREM TypeCorrect == Spec => []TypeOK
<1>1. TypeOK /\ [Next]_vars => TypeOK'
  <2> SUFFICES ASSUME TypeOK, [Next]_vars PROVE TypeOK'
    OBVIOUS
  <2>1. CASE Notification
    BY <2>1, NotificationTypeOK
  <2>2. CASE Handle
    BY <2>2, HandleTypeOK
  <2>3. CASE Work
    BY <2>3, CollectTypeOK, CompileTypeOK, PublishTypeOK DEF Work
  <2>4. CASE Abandon
    BY <2>4, CompileTypeOK
  <2>5. CASE UNCHANGED vars
    BY <2>5 DEF vars, TypeOK
  <2> QED
    BY <2>1, <2>2, <2>3, <2>4, <2>5 DEF Next
<1> QED
  BY InitTypeOK, <1>1, PTL DEF Spec

\* Only Clear and Publish change what the editor shows or what the worker
\* remembers of it.
LEMMA ClientStep ==
  ASSUME Next, ~ \E f \in Files : Clear(f) \/ Publish(f)
  PROVE  UNCHANGED <<shown, published>>
<1> USE DEF client
<1>1. CASE Notification
  BY <1>1 DEF Notification, DidOpen, DidChange, EditDisk, DidSave, DidClose, ReloadManifest
<1>2. CASE Handle
  BY <1>2 DEF Handle, Initialize, QueueAnalysis, SetManifest, ClearSnapshots
<1>3. CASE CompileStep \/ Abandon
  BY <1>3 DEF CompileStep, StartRoot, ReadImport, PopFile, FinishRoot, Abandon
<1>4. CASE PublishStep
  BY <1>4 DEF PublishStep, Prune, InstallDone, ClearDone, EndPass, Install
<1>5. CASE Work /\ ~CompileStep /\ ~PublishStep
  BY <1>5 DEF Work, Recv, Drain, BeginPass, CollectDone, CollectEntry, CollectRoot
<1> QED
  BY <1>1, <1>2, <1>3, <1>4, <1>5 DEF Next, Work

\* No diagnostic is orphaned: the worker will clear whatever the editor shows,
\* also after timeouts and manifest switches.
THEOREM NothingOrphaned == Spec => []ShownAreTracked
<1>1. Init => TrackedInv
  BY DEF Init, TrackedInv, ShownAreTracked
<1>2. TrackedInv /\ [Next]_vars => TrackedInv'
  <2> SUFFICES ASSUME TrackedInv, [Next]_vars PROVE TrackedInv'
    OBVIOUS
  <2> USE DEF TrackedInv, ShownAreTracked
  <2>1. ASSUME NEW f \in Files, Clear(f) PROVE TrackedInv'
    BY <2>1 DEF Clear, client
  <2>2. ASSUME NEW f \in Files, Publish(f) PROVE TrackedInv'
    BY <2>2 DEF Publish
  <2>3. CASE UNCHANGED <<shown, published>>
    BY <2>3
  <2> QED
    BY <2>1, <2>2, <2>3, ClientStep DEF vars
<1> QED
  BY <1>1, <1>2, PTL DEF Spec, TrackedInv
=============================================================================
