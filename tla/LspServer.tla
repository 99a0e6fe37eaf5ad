------------------------------ MODULE LspServer ------------------------------
(***************************************************************************)
(* gruel-lsp: the notification handlers of server.rs, which all run on one *)
(* task, and the analysis worker, which runs on another and reads the      *)
(* shared maps while the handlers change them.  A step is what happens     *)
(* between two points at which the other task can be observed.             *)
(*                                                                         *)
(* A text is a model value; what the frontend makes of a set of texts is   *)
(* the constant operators Imports, Parses and Diagnose.  Maps over files   *)
(* are total, with Nil for what is absent.                                 *)
(***************************************************************************)
EXTENDS Naturals, FiniteSets

CONSTANTS
    Files,             \* paths, and the URIs that name them
    Texts,             \* file contents
    Nil,               \* no document, text, snapshot or manifest
    Imports(_, _),     \* the files a file with this text names in @import
    Parses(_),         \* whether a unit gets as far as a snapshot
    Diagnose(_),       \* the diagnostics of a unit, as pairs <<file, message>>
    InitialDisks,      \* what may be on disk when the server starts
    MaxEvents,         \* bound on notifications
    MaxTimeouts,       \* bound on compiles that time out or panic
    MayClose, MaySwitch, MayEditDisk    \* which notifications the client sends

Unit == [Files -> Texts \cup {Nil}]

ASSUME LspAssumption ==
    /\ Nil \notin Files \cup Texts
    /\ InitialDisks \subseteq Unit
    /\ \A f \in Files, t \in Texts : Imports(f, t) \subseteq Files
    /\ MaxEvents \in Nat /\ MaxTimeouts \in Nat

VARIABLES
    docs,        \* Backend::docs
    disk,        \* the text of each file on disk
    manifest,    \* Backend::manifest: the entry file, or none
    reloading,   \* what a reload_manifest that awaits its log message has read
    snapshots,   \* Backend::snapshots
    queue,       \* requests in the analysis channel
    serve,       \* where the handler task is
    worker,      \* where the analysis worker is
    entry,       \* the manifest this pass works with
    left,        \* what the current iteration has still to visit
    roots,       \* the roots of this pass that are still to be compiled
    root,        \* the root being compiled
    known,       \* the paths its imports may resolve to
    unit,        \* its closure so far
    work,        \* files read but not yet scanned for imports
    pend,        \* imports of the scanned file that are still to be read
    fresh,       \* the snapshots this pass has built and not yet installed
    found,       \* the diagnostics of this pass
    shown,       \* what the editor shows; last_diagnostics mirrors it
    published,   \* AnalysisWorker::published_files
    missed,      \* a change no request was queued for since the pass began
    events, timeouts

world == <<docs, disk, manifest>>
handler == <<reloading, serve, events>>
reading == <<entry, left, roots, root, known, unit, work, pend>>
result == <<fresh, found>>
client == <<shown, published>>
vars == <<docs, disk, manifest, reloading, snapshots, queue, serve, worker,
          entry, left, roots, root, known, unit, work, pend, fresh, found,
          shown, published, missed, events, timeouts>>

Nothing == [f \in Files |-> Nil]
Doc == [text : Texts, open : BOOLEAN]

IsOpen(f) == docs[f] # Nil /\ docs[f].open

\* open_text_lookup, then read_to_string.  The lookup does not ask whether the
\* document is still open.
Text(f) == IF docs[f] # Nil THEN docs[f].text ELSE disk[f]

Init ==
    /\ docs = Nothing
    /\ disk \in InitialDisks
    /\ manifest = Nil
    /\ reloading = <<>>
    /\ snapshots = Nothing
    /\ queue = 0
    /\ serve = "start"
    /\ worker = "recv"
    /\ entry = Nil
    /\ left = {} /\ roots = Nothing /\ root = Nil /\ known = {} /\ unit = Nothing
    /\ work = {} /\ pend = {} /\ fresh = Nothing /\ found = {}
    /\ shown = [f \in Files |-> {}]
    /\ published = {}
    /\ missed = FALSE
    /\ events = 0
    /\ timeouts = 0

-----------------------------------------------------------------------------
(* The handler task                                                        *)

Event == events < MaxEvents /\ events' = events + 1

\* The manifests load_at accepts: the root must exist.
Loadable == {f \in Files : disk[f] # Nil} \cup {Nil}

\* initialize and initialized: the manifest is loaded before anything else.
Initialize ==
    /\ serve = "start"
    /\ manifest' \in IF MaySwitch THEN Loadable ELSE {Nil}
    /\ serve' = "queue"
    /\ UNCHANGED <<docs, disk, reloading, snapshots, queue, worker, reading,
                   result, client, missed, events, timeouts>>

\* queue_analysis, the last thing a handler does.
QueueAnalysis ==
    /\ serve = "queue"
    /\ queue' = queue + 1
    /\ serve' = "idle"
    /\ UNCHANGED <<world, reloading, snapshots, worker, reading, result,
                   client, missed, events, timeouts>>

DidOpen(f, t) ==
    /\ serve = "idle" /\ Event
    /\ ~IsOpen(f)
    /\ t = disk[f] \/ disk[f] = Nil
    /\ docs' = [docs EXCEPT ![f] = [text |-> t, open |-> TRUE]]
    /\ serve' = "queue"
    /\ UNCHANGED <<disk, manifest, reloading, snapshots, queue, worker,
                   reading, result, client, missed, timeouts>>

DidChange(f, t) ==
    /\ serve = "idle" /\ Event
    /\ IsOpen(f)
    /\ docs' = [docs EXCEPT ![f].text = t]
    /\ serve' = "queue"
    /\ UNCHANGED <<disk, manifest, reloading, snapshots, queue, worker,
                   reading, result, client, missed, timeouts>>

\* The editor has written its buffer to disk.
DidSave(f) ==
    /\ serve = "idle" /\ Event
    /\ IsOpen(f)
    /\ disk' = [disk EXCEPT ![f] = docs[f].text]
    /\ serve' = "queue"
    /\ UNCHANGED <<docs, manifest, reloading, snapshots, queue, worker,
                   reading, result, client, missed, timeouts>>

\* did_close drops the snapshot, keeps the document, and queues nothing.
DidClose(f) ==
    /\ serve = "idle" /\ Event
    /\ MayClose /\ IsOpen(f)
    /\ snapshots' = [snapshots EXCEPT ![f] = Nil]
    /\ docs' = [docs EXCEPT ![f].open = FALSE]
    /\ UNCHANGED <<disk, manifest, reloading, queue, serve, worker, reading,
                   result, client, missed, timeouts>>

\* did_change_watched_files for a gruel.json that now names m.  reload_manifest
\* reads it, then awaits its log message; other handlers may run meanwhile.
ReloadManifest(m) ==
    /\ serve = "idle" /\ Event
    /\ MaySwitch /\ reloading = <<>>
    /\ m \in Loadable
    /\ reloading' = <<m>>
    /\ UNCHANGED <<world, snapshots, queue, serve, worker, reading, result,
                   client, missed, timeouts>>

SetManifest ==
    /\ serve = "idle" /\ reloading # <<>>
    /\ manifest' = reloading[1]
    /\ reloading' = <<>>
    /\ serve' = "clear"
    /\ UNCHANGED <<docs, disk, snapshots, queue, worker, reading, result,
                   client, missed, events, timeouts>>

ClearSnapshots ==
    /\ serve = "clear"
    /\ snapshots' = Nothing
    /\ serve' = "queue"
    /\ UNCHANGED <<world, reloading, queue, worker, reading, result, client,
                   missed, events, timeouts>>

\* did_change_watched_files for a source file: the handler returns at once.
EditDisk(f, t) ==
    /\ serve = "idle" /\ Event
    /\ MayEditDisk /\ ~IsOpen(f) /\ t # disk[f]
    /\ disk' = [disk EXCEPT ![f] = t]
    /\ missed' = TRUE
    /\ UNCHANGED <<docs, manifest, reloading, snapshots, queue, serve, worker,
                   reading, result, client, timeouts>>

-----------------------------------------------------------------------------
(* AnalysisWorker::run                                                     *)

\* The worker's steps change none of these.
Aside == UNCHANGED <<world, handler>>

\* Mutant: the worker takes a wake-up for a request.
RecvSpurious ==
    /\ worker = "recv"
    /\ queue' = queue - 1
    /\ worker' = "debounce"
    /\ Aside /\ UNCHANGED <<snapshots, reading, result, client, missed, timeouts>>

Recv ==
    /\ worker = "recv" /\ queue > 0
    /\ queue' = queue - 1
    /\ worker' = "debounce"
    /\ Aside /\ UNCHANGED <<snapshots, reading, result, client, missed, timeouts>>


\* A request that arrived during the sleep starts another sleep.
Drain ==
    /\ worker = "debounce" /\ queue > 0
    /\ queue' = queue - 1
    /\ Aside /\ UNCHANGED <<worker, snapshots, reading, result, client, missed, timeouts>>

\* Things have settled; the pass clones the manifest.  current_cancel holds
\* the token of an earlier pass, which is over, so cancelling it does nothing.
BeginPass ==
    /\ worker = "debounce" /\ queue = 0
    /\ worker' = "collect"
    /\ entry' = manifest
    /\ left' = Files
    /\ missed' = FALSE
    /\ Aside /\ UNCHANGED <<queue, snapshots, roots, root, known, unit, work, pend,
                            result, client, timeouts>>

\* collect_roots: the iteration over docs reaches f, open or closed.
CollectRoot(f) ==
    /\ worker = "collect" /\ entry = Nil
    /\ f \in left
    /\ left' = left \ {f}
    /\ roots' = [roots EXCEPT ![f] = IF docs[f] = Nil THEN Nil ELSE docs[f].text]
    /\ Aside /\ UNCHANGED <<queue, worker, snapshots, entry, root, known, unit,
                            work, pend, result, client, missed, timeouts>>

CollectDone ==
    /\ worker = "collect" /\ entry = Nil
    /\ left = {}
    /\ worker' = "compile"
    /\ Aside /\ UNCHANGED <<queue, snapshots, reading, result, client, missed, timeouts>>

\* collect_analysis_roots in manifested mode; an entry that has disappeared
\* leaves the pass without a root.
CollectEntry ==
    /\ worker = "collect" /\ entry # Nil
    /\ roots' = [roots EXCEPT ![entry] = Text(entry)]
    /\ left' = {}
    /\ worker' = "compile"
    /\ Aside /\ UNCHANGED <<queue, snapshots, entry, root, known, unit, work, pend,
                            result, client, missed, timeouts>>

\* analyze_root: imports resolve against the files on disk and the root.
StartRoot(f) ==
    /\ worker = "compile" /\ roots[f] # Nil
    /\ root' = f
    /\ known' = {g \in Files : disk[g] # Nil} \cup {f}
    /\ work' = {<<f, roots[f]>>}
    /\ roots' = [roots EXCEPT ![f] = Nil]
    /\ worker' = "closure"
    /\ Aside /\ UNCHANGED <<queue, snapshots, entry, left, unit, pend, result,
                            client, missed, timeouts>>

\* build_root_closure pops a file.  The order of the worklist decides only
\* which of two copies of a file, read at different times, is kept.
PopFile(f, t) ==
    /\ worker = "closure" /\ pend = {}
    /\ <<f, t>> \in work
    /\ work' = work \ {<<f, t>>}
    /\ IF unit[f] # Nil
       THEN UNCHANGED <<unit, pend>>
       ELSE /\ unit' = [unit EXCEPT ![f] = t]
            /\ pend' = Imports(f, t) \cap known
    /\ Aside /\ UNCHANGED <<queue, worker, snapshots, entry, left, roots, root,
                            known, result, client, missed, timeouts>>

ReadImport(g) ==
    /\ worker = "closure"
    /\ g \in pend
    /\ pend' = pend \ {g}
    /\ work' = IF unit[g] # Nil \/ Text(g) = Nil THEN work ELSE work \cup {<<g, Text(g)>>}
    /\ Aside /\ UNCHANGED <<queue, worker, snapshots, entry, left, roots, root,
                            known, unit, result, client, missed, timeouts>>

\* analyze: diagnostics are merged over the roots; a unit that does not parse
\* has no snapshot.
FinishRoot ==
    /\ worker = "closure" /\ pend = {} /\ work = {}
    /\ found' = found \cup Diagnose(unit)
    /\ fresh' = IF Parses(unit) THEN [fresh EXCEPT ![root] = unit] ELSE fresh
    /\ root' = Nil /\ known' = {} /\ unit' = Nothing
    /\ worker' = "compile"
    /\ Aside /\ UNCHANGED <<queue, snapshots, entry, left, roots, work, pend,
                            client, missed, timeouts>>

\* The timeout wins the select, or the compile panicked: the result is
\* dropped, nothing is queued.
Abandon ==
    /\ worker \in {"compile", "closure"}
    /\ timeouts < MaxTimeouts /\ timeouts' = timeouts + 1
    /\ worker' = "recv"
    /\ missed' = TRUE
    /\ entry' = Nil /\ left' = {} /\ roots' = Nothing /\ root' = Nil /\ known' = {}
    /\ unit' = Nothing /\ work' = {} /\ pend' = {} /\ fresh' = Nothing /\ found' = {}
    /\ Aside /\ UNCHANGED <<queue, snapshots, client>>

\* Snapshots whose root is neither a document nor this pass's entry go.
Prune ==
    /\ worker = "compile" /\ roots = Nothing
    /\ snapshots' = [f \in Files |->
                        IF docs[f] # Nil \/ f = entry THEN snapshots[f] ELSE Nil]
    /\ worker' = "install"
    /\ Aside /\ UNCHANGED <<queue, reading, result, client, missed, timeouts>>

\* Mutant: a root that has a snapshot keeps it.
InstallIfAbsent(f) ==
    /\ worker = "install" /\ fresh[f] # Nil
    /\ snapshots' = [snapshots EXCEPT ![f] = IF @ = Nil THEN fresh[f] ELSE @]
    /\ fresh' = [fresh EXCEPT ![f] = Nil]
    /\ Aside /\ UNCHANGED <<queue, worker, reading, found, client, missed, timeouts>>

Install(f) ==
    /\ worker = "install" /\ fresh[f] # Nil
    /\ snapshots' = [snapshots EXCEPT ![f] = fresh[f]]
    /\ fresh' = [fresh EXCEPT ![f] = Nil]
    /\ Aside /\ UNCHANGED <<queue, worker, reading, found, client, missed, timeouts>>

\* The files this pass has something to say about.
Affected == {f \in Files : \E m \in found : m[1] = f}

\* Mutant: only documents are cleared, not every file published for.
InstallDoneKeep ==
    /\ worker = "install" /\ fresh = Nothing
    /\ left' = {}
    /\ worker' = "clear"
    /\ Aside /\ UNCHANGED <<queue, snapshots, entry, roots, root, known, unit, work,
                            pend, result, client, missed, timeouts>>

InstallDone ==
    /\ worker = "install" /\ fresh = Nothing
    /\ left' = published \ Affected
    /\ worker' = "clear"
    /\ Aside /\ UNCHANGED <<queue, snapshots, entry, roots, root, known, unit, work,
                            pend, result, client, missed, timeouts>>

\* A file published for earlier and not affected now is cleared, then every
\* other document that is not affected.
Clear(f) ==
    /\ worker \in {"clear", "cleardocs"} /\ f \in left
    /\ left' = left \ {f}
    /\ IF worker = "clear" \/ (docs[f] # Nil /\ f \notin Affected)
       THEN /\ shown' = [shown EXCEPT ![f] = {}]
            /\ published' = published \ {f}
       ELSE UNCHANGED client
    /\ Aside /\ UNCHANGED <<queue, worker, snapshots, entry, roots, root, known,
                            unit, work, pend, result, missed, timeouts>>

ClearDone ==
    /\ worker \in {"clear", "cleardocs"} /\ left = {}
    /\ \/ worker = "clear" /\ worker' = "cleardocs" /\ left' = Files
       \/ worker = "cleardocs" /\ worker' = "publish" /\ left' = Affected
    /\ Aside /\ UNCHANGED <<queue, snapshots, entry, roots, root, known, unit, work,
                            pend, result, client, missed, timeouts>>

\* Mutant: the published file is not remembered.
PublishForget(f) ==
    /\ worker = "publish" /\ f \in left
    /\ left' = left \ {f}
    /\ shown' = [shown EXCEPT ![f] = {m[2] : m \in {n \in found : n[1] = f}}]
    /\ Aside /\ UNCHANGED <<queue, worker, snapshots, entry, roots, root, known,
                            unit, work, pend, result, published, missed, timeouts>>

Publish(f) ==
    /\ worker = "publish" /\ f \in left
    /\ left' = left \ {f}
    /\ shown' = [shown EXCEPT ![f] = {m[2] : m \in {n \in found : n[1] = f}}]
    /\ published' = published \cup {f}
    /\ Aside /\ UNCHANGED <<queue, worker, snapshots, entry, roots, root, known,
                            unit, work, pend, result, missed, timeouts>>

EndPass ==
    /\ worker = "publish" /\ left = {}
    /\ worker' = "recv"
    /\ entry' = Nil /\ found' = {}
    /\ Aside /\ UNCHANGED <<queue, snapshots, left, roots, root, known, unit, work,
                            pend, fresh, client, missed, timeouts>>

-----------------------------------------------------------------------------
Notification ==
    \/ \E f \in Files, t \in Texts : DidOpen(f, t) \/ DidChange(f, t)
    \/ \E f \in Files, t \in Texts \cup {Nil} : EditDisk(f, t)
    \/ \E f \in Files : DidSave(f) \/ DidClose(f)
    \/ \E m \in Files \cup {Nil} : ReloadManifest(m)

\* What a handler still does on its own once it has started.
Handle == Initialize \/ QueueAnalysis \/ SetManifest \/ ClearSnapshots

CompileStep ==
    \/ \E f \in Files : StartRoot(f) \/ ReadImport(f)
    \/ \E f \in Files, t \in Texts : PopFile(f, t)
    \/ FinishRoot

PublishStep ==
    \/ Prune \/ InstallDone \/ ClearDone \/ EndPass
    \/ \E f \in Files : Install(f) \/ Clear(f) \/ Publish(f)

Work ==
    \/ Recv \/ Drain \/ BeginPass \/ CollectDone \/ CollectEntry
    \/ \E f \in Files : CollectRoot(f)
    \/ CompileStep \/ PublishStep

Next == Notification \/ Handle \/ Work \/ Abandon

\* A handler that has started runs on, and the runtime keeps polling the
\* worker.  Nothing obliges the client to send a notification.
Fairness == WF_vars(Handle) /\ WF_vars(Work)

Spec == Init /\ [][Next]_vars /\ Fairness

-----------------------------------------------------------------------------
(* Properties                                                              *)

\* Type correctness of the maps the two tasks share and of the worker's locals.
TypeOK ==
    /\ docs \in [Files -> Doc \cup {Nil}]
    /\ disk \in Unit
    /\ manifest \in Files \cup {Nil}
    /\ reloading \in {<<>>} \cup {<<m>> : m \in Files \cup {Nil}}
    /\ snapshots \in [Files -> Unit \cup {Nil}]
    /\ queue \in Nat
    /\ serve \in {"start", "idle", "clear", "queue"}
    /\ worker \in {"recv", "debounce", "collect", "compile", "closure",
                   "install", "clear", "cleardocs", "publish"}
    /\ entry \in Files \cup {Nil}
    /\ left \in SUBSET Files
    /\ roots \in Unit
    /\ root \in Files \cup {Nil}
    /\ known \in SUBSET Files
    /\ unit \in Unit
    /\ work \in SUBSET (Files \X Texts)
    /\ pend \in SUBSET Files
    /\ fresh \in [Files -> Unit \cup {Nil}]
    /\ published \in SUBSET Files
    /\ missed \in BOOLEAN
    /\ events \in 0 .. MaxEvents
    /\ timeouts \in 0 .. MaxTimeouts

\* No request is on its way to the worker.
Quiet == queue = 0 /\ serve = "idle" /\ reloading = <<>>
Settled == Quiet /\ worker = "recv"

\* What a pass over the present documents and files would find.
CurrentRoots ==
    IF manifest = Nil THEN {f \in Files : docs[f] # Nil}
                      ELSE {f \in {manifest} : Text(f) # Nil}
Reachable(r) ==
    LET from(g) == {h \in Imports(g, Text(g)) :
                        (disk[h] # Nil \/ h = r) /\ Text(h) # Nil}
    IN {f \in Files : \A S \in SUBSET Files :
            (r \in S /\ \A g \in S : from(g) \subseteq S) => f \in S}
CurrentUnit(r) == [f \in Files |-> IF f \in Reachable(r) THEN Text(f) ELSE Nil]
CurrentDiagnostics(f) ==
    {m[2] : m \in {n \in UNION {Diagnose(CurrentUnit(r)) : r \in CurrentRoots} : n[1] = f}}

\* No lost update: once the worker is idle and nothing is queued, the editor
\* shows exactly the diagnostics of the texts the server holds, however the
\* edits fell into the pass that published them.  A pass that timed out, or a
\* file that changed behind the server's back, is made up for by the next one.
SettledDiagnostics ==
    Settled /\ ~missed => \A f \in Files : shown[f] = CurrentDiagnostics(f)

\* A query against an open root is then answered from the current texts,
\* unless they do not parse.
SettledSnapshots ==
    Settled /\ ~missed =>
        \A r \in CurrentRoots :
            Parses(CurrentUnit(r)) /\ (docs[r] = Nil \/ IsOpen(r)) =>
                snapshots[r] = CurrentUnit(r)

\* Whatever happens, red squiggles are never orphaned: a file that shows
\* diagnostics is one the worker remembers having published for.
ShownAreTracked == \A f \in Files : shown[f] # {} => f \in published


\* ADR-0091: "the next didChange trips the token and the in-flight compile is
\* dropped".  A pass that runs to its end while a request waits was compiled
\* from the text each open root still has.
InFlightDropped ==
    [][worker = "compile" /\ worker' = "install" /\ queue > 0 =>
          \A f \in Files : fresh[f] # Nil /\ IsOpen(f) => fresh[f][f] = docs[f].text]_vars

\* did_close: "Once a doc is closed it stops being a root".
ClosedIsNoRoot ==
    [][\A f \in Files : entry = Nil /\ roots[f] = Nil /\ roots'[f] # Nil => IsOpen(f)]_vars

\* build_root_closure: "File text comes from open_text when the file is
\* currently open in the editor, otherwise from disk."
ClosedTextFromDisk ==
    [][pend' # pend => \A w \in work' \ work : IsOpen(w[1]) \/ w[2] = disk[w[1]]]_vars

\* did_close: "the manifest-keyed snapshot stays put until the manifest itself
\* goes away".
EntrySnapshotStays ==
    [][serve = "idle" /\ manifest # Nil /\ manifest' = manifest /\ snapshots[manifest] # Nil
          => snapshots'[manifest] # Nil]_vars

\* did_change_watched_files: "Drop snapshots - the compilation unit just
\* changed".  In manifested mode only the entry has a snapshot.
OnlyEntrySnapshot ==
    Settled /\ ~missed /\ manifest # Nil =>
        \A f \in Files : snapshots[f] # Nil => f = manifest

\* ADR-0091 on didChangeWatchedFiles: "for files on disk we don't have open
\* buffers for, re-read and re-queue".
WatchedFilesReanalyzed ==
    Settled => \A f \in Files : shown[f] = CurrentDiagnostics(f)
=============================================================================
