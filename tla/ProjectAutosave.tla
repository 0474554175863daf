--------------------------- MODULE ProjectAutosave ---------------------------
(***************************************************************************)
(* The metadata of a folder project: which providers belong to it, their   *)
(* settings and the files associated with their data.  The main thread     *)
(* changes it in memory and schedules an autosave; a background task       *)
(* writes a snapshot; store() writes everything at once.  Both write one   *)
(* file after the other under s_projectStorageMutex, and the program may   *)
(* die between any two.                                                    *)
(*                                                                         *)
(* Only providers that canPersistProvider accepts are modelled, with one   *)
(* type of file-backed data each; replacing a provider is left out.        *)
(***************************************************************************)
EXTENDS Naturals, Sequences

CONSTANTS
    Ids,        \* provider ids
    Settings,   \* what storeSettings may return
    None,       \* no file, no value
    Loaded,     \* the providers of the project that is loaded at the start
    MaxEdits,   \* bound on what the user and the files do
    MaxAccidents    \* bound on failing writes and snapshots and on restarts

\* project.json
Manifest == [providers : SUBSET Ids, closed : SUBSET Ids]

ASSUME AutosaveAssumption ==
    /\ Ids \subseteq Nat /\ Loaded \subseteq Ids /\ Settings # {}
    /\ None \notin Settings
    /\ \A m \in Manifest : m # None
    /\ \A ids \in SUBSET Ids : ids # None
    /\ MaxEdits \in Nat /\ MaxAccidents \in Nat

VARIABLES
    folder,     \* isFolderProject()
    open,       \* the providers that are open
    project,    \* projectProviderIds
    closed,     \* closedProjectProviderIds
    settings,   \* an open provider's settings; a closed one's projectProviderSettings
    assoc,      \* ids that have an entry in associations
    used,       \* ids that were given to a provider
    bound,      \* ids whose data is bound to a file
    pending,    \* ids with unbound data that was edited: hasPendingData
    flags,      \* dirtyProviderSettings, removedProviderSettings, ...Dirty
    deadline,   \* s_projectSaveDeadline
    saving,     \* s_projectSaveInProgress
    task,       \* the task that saves a snapshot
    main,       \* where the main thread is
    storage,    \* owner of s_projectStorageMutex
    calls,      \* s_deferredCalls
    disk,       \* the files under .imhex
    silent,     \* history: ids whose settings changed without a mark since they were last
                \* marked, or taken to be saved
    failed,     \* history: the last store() failed and nothing was scheduled since
    late,       \* history: ids that joined the project while their association in the
                \* files was another than in memory, which joining does not mark
    budget      \* what is left of the bounds

memory == <<folder, open, project, closed, settings, silent, assoc, used, bound, pending>>
vars == <<memory, flags, deadline, saving, task, main, storage, calls, disk, failed, late,
          budget>>

Snapshot == [settings : [Ids -> Settings \union {None}], removed : SUBSET Ids,
             manifest : Manifest \union {None}, assoc : (SUBSET Ids) \union {None}]
\* One file to write (or to remove) under .imhex.
Write == [file : {"settings"}, id : Ids, value : Settings \union {None}]
    \union [file : {"manifest"}, value : Manifest]
    \union [file : {"associations"}, ids : SUBSET Ids]
\* What is left to write: one stage after the other, the files of a stage in any order (the
\* code's is that of the ids).
Stages == 1..4
Plan == [Stages -> SUBSET Write]
Nothing == [i \in Stages |-> {}]
Ready(todo) == {w \in Write : \E i \in Stages : w \in todo[i] /\ \A j \in 1..(i - 1) : todo[j] = {}}
Without(todo, w) == [i \in Stages |-> todo[i] \ {w}]

TypeOK ==
    /\ folder \in BOOLEAN
    /\ {open, project, closed, assoc, used, bound, pending, silent, late} \subseteq SUBSET Ids
    /\ settings \in [Ids -> Settings]
    /\ flags \in [dirty : SUBSET Ids, removed : SUBSET Ids, manifest : BOOLEAN, assoc : BOOLEAN]
    /\ deadline \in {"none", "armed", "due"}
    /\ saving \in BOOLEAN
    /\ task \in [at : {"none", "created", "writing", "written", "released", "posted"},
                 moved : BOOLEAN, ok : BOOLEAN, snapshot : Snapshot, todo : Plan]
    /\ main \in [at : {"frame", "store", "storing"}, deferred : BOOLEAN, todo : Plan]
    /\ storage \in {"free", "task", "main"}
    /\ calls \in Seq({"saved", "store"})
    /\ disk \in [settings : [Ids -> Settings \union {None}], manifest : Manifest,
                 assoc : SUBSET Ids]
    /\ failed \in BOOLEAN
    /\ budget \in [edits : 0..MaxEdits, accidents : 0..MaxAccidents]

-----------------------------------------------------------------------------
(* Marking and scheduling                                                  *)

Clean == [dirty |-> {}, removed |-> {}, manifest |-> FALSE, assoc |-> FALSE]
Spend(what) == budget[what] > 0 /\ budget' = [budget EXCEPT ![what] = @ - 1]
\* s_projectSaveGeneration is only ever compared with the value a task was created with.
Moved == task' = [task EXCEPT !.moved = TRUE]

\* scheduleProjectMetadataSave, then the flags the caller sets
Schedule(marked) ==
    IF ~folder THEN UNCHANGED <<flags, deadline, task, failed>>
    ELSE /\ Moved
         /\ deadline' = "armed"
         /\ flags' = marked
         /\ failed' = FALSE
ScheduleProvider(id, members, manifestChanged) ==
    IF id \notin members THEN UNCHANGED <<flags, deadline, task, failed, silent>>
    ELSE /\ silent' = silent \ {id}
         /\ Schedule([flags EXCEPT !.dirty = @ \union {id}, !.removed = @ \ {id},
                                   !.manifest = @ \/ manifestChanged])
ScheduleRemoval(id) ==
    Schedule([dirty |-> flags.dirty \ {id}, removed |-> flags.removed \union {id},
              manifest |-> TRUE, assoc |-> TRUE])
ScheduleAssociations == Schedule([flags EXCEPT !.assoc = TRUE])

\* cancelScheduledProjectMetadataSave
Cancel == Moved /\ deadline' = "none"

-----------------------------------------------------------------------------
(* The events of a frame                                                   *)

Frame == main.at = "frame"
Event == Frame /\ Spend("edits") /\ UNCHANGED <<folder, saving, main, storage, calls, disk>>

LateFor(id) == IF (id \in assoc) = (id \in disk.assoc) THEN {} ELSE {id}

\* EventProviderOpened of a new provider (temporary projects take in every provider,
\* others those whose file is inside the project), and openStoredProjectProvider.
OpenProvider(id) ==
    /\ Event /\ id \notin open
    /\ open' = open \union {id}
    /\ closed' = closed \ {id}
    /\ used' = used \union {id}
    /\ \/ /\ id \notin used
          /\ project' \in {project, project \union IF folder THEN {id} ELSE {}}
          /\ \E s \in Settings : settings' = [settings EXCEPT ![id] = s]
          /\ late' = late \union LateFor(id)
          /\ UNCHANGED bound
       \/ /\ id \in project
          /\ bound' \in {bound, bound \union ({id} \intersect assoc)}
          /\ UNCHANGED <<project, settings, late>>
    /\ ScheduleProvider(id, project', TRUE)
    /\ UNCHANGED <<assoc, pending>>

\* EventProviderDirtied
ChangeSettings(id) ==
    /\ Event /\ id \in open
    /\ \E s \in Settings \ {settings[id]} : settings' = [settings EXCEPT ![id] = s]
    /\ ScheduleProvider(id, project, FALSE)
    /\ UNCHANGED <<open, project, closed, assoc, used, bound, pending, late>>

\* A new base address, or another page: storeSettings() has both, but nobody posts
\* EventProviderDirtied.
ChangeAddresses(id) ==
    /\ Event /\ id \in open
    /\ \E s \in Settings \ {settings[id]} : settings' = [settings EXCEPT ![id] = s]
    /\ silent' = silent \union ({id} \intersect project)
    /\ UNCHANGED <<open, project, closed, assoc, used, bound, pending, flags, deadline, task,
                   failed, late>>

\* EventProviderRemoving takes the settings over; EventProviderClosed.
CloseProvider(id) ==
    /\ Event /\ id \in open
    /\ open' = open \ {id}
    /\ bound' = bound \ {id} /\ pending' = pending \ {id}
    /\ closed' = IF folder /\ id \in project THEN closed \union {id} ELSE closed
    /\ ScheduleProvider(id, project, TRUE)
    /\ UNCHANGED <<project, settings, assoc, used, late>>

\* "Add to project"
AddToProject(id) ==
    /\ Event /\ folder /\ id \in open \ project
    /\ project' = project \union {id}
    /\ ScheduleProvider(id, project', TRUE)
    /\ late' = late \union LateFor(id)
    /\ UNCHANGED <<open, closed, settings, assoc, used, bound, pending>>

\* removeProviderFromProject
RemoveFromProject(id) ==
    /\ Event /\ folder /\ id \in project
    /\ project' = project \ {id} /\ closed' = closed \ {id}
    /\ assoc' = assoc \ {id}
    /\ IF id \in assoc THEN bound' = bound \ {id} /\ pending' = pending \ {id}
       ELSE UNCHANGED <<bound, pending>>
    /\ late' = late \ {id}
    /\ ScheduleRemoval(id)
    /\ UNCHANGED <<open, settings, silent, used>>

\* EventFileBackedProviderDataChanged: unbound data was edited, a file was bound to the
\* data, or the data was detached from its file (removeAssociation).
EditData(id) ==
    /\ Event /\ folder /\ id \in open \ bound
    /\ pending' = pending \union {id} /\ assoc' = assoc \ {id}
    /\ ScheduleAssociations
    /\ UNCHANGED <<open, project, closed, settings, silent, used, bound, late>>
BindData(id) ==
    /\ Event /\ folder /\ id \in open \ bound
    /\ bound' = bound \union {id} /\ pending' = pending \ {id}
    /\ assoc' = assoc \union {id}
    /\ \/ ScheduleAssociations
       \/ id \in assoc /\ UNCHANGED <<flags, deadline, task, failed>>    \* to the same path
    /\ UNCHANGED <<open, project, closed, settings, silent, used, late>>
Detach(id) ==
    /\ Event /\ folder /\ id \in open \intersect assoc
    /\ assoc' = assoc \ {id} /\ bound' = bound \ {id} /\ pending' = pending \ {id}
    /\ ScheduleAssociations
    /\ UNCHANGED <<open, project, closed, settings, silent, used, late>>

-----------------------------------------------------------------------------
(* What is written, file by file                                           *)

SettingsWrites(values, ids) ==
    {[file |-> "settings", id |-> id, value |-> values[id]] : id \in {i \in ids : values[i] # None}}
Removals(ids) == {[file |-> "settings", id |-> id, value |-> None] : id \in ids}
ManifestWrite(m) == {[file |-> "manifest", value |-> v] : v \in {m} \ {None}}
AssociationsWrite(a) == {[file |-> "associations", ids |-> ids] : ids \in {a} \ {None}}

\* Mutant: a settings file is written in the place of the manifest.
MutWritten(w) ==
    IF w.file = "associations" THEN [disk EXCEPT !.assoc = w.ids]
    ELSE [disk EXCEPT !.manifest = w.value]
\* writeProjectFile renames a complete file into place; std::fs::remove
Written(w) ==
    CASE w.file = "settings"     -> [disk EXCEPT !.settings[w.id] = w.value]
      [] w.file = "manifest"     -> [disk EXCEPT !.manifest = w.value]
      [] w.file = "associations" -> [disk EXCEPT !.assoc = w.ids]

\* Mutant: the files of removed providers go before the manifest that still names them.
MutSnapshotWrites(s) ==
    <<SettingsWrites(s.settings, Ids), AssociationsWrite(s.assoc), Removals(s.removed),
      ManifestWrite(s.manifest)>>
\* writeProjectMetadataSnapshot
SnapshotWrites(s) ==
    <<SettingsWrites(s.settings, Ids), AssociationsWrite(s.assoc), ManifestWrite(s.manifest),
      Removals(s.removed)>>
\* storeProviders and storeAssociations, of the associations that Materialize leaves
StoreWrites(files) ==
    <<SettingsWrites(settings, project), ManifestWrite([providers |-> project, closed |-> closed]),
      AssociationsWrite(files \intersect project), {}>>

\* materializeRegisteredData: pending data gets a file and an association of its own; the
\* change event of bind() is answered, and schedules, unless a store is running.
Materialize ==
    LET ids == (pending \intersect open) \ (bound \union assoc)
    IN  /\ assoc' = assoc \union ids
        /\ bound' = bound \union ids
        /\ pending' = pending \ ids

-----------------------------------------------------------------------------
(* The autosave                                                            *)

NoSnapshot == [settings |-> [id \in Ids |-> None], removed |-> {}, manifest |-> None, assoc |-> None]
NoTask == [at |-> "none", moved |-> TRUE, ok |-> FALSE, snapshot |-> NoSnapshot, todo |-> Nothing]

\* createProjectMetadataSnapshot
SnapshotOf(f, files) ==
    LET written == (f.dirty \intersect project) \ f.removed
        kept == project \ f.removed
    IN  [settings |-> [id \in Ids |-> IF id \in written THEN settings[id] ELSE None],
         removed |-> f.removed,
         manifest |-> IF f.manifest \/ f.removed # {}
                      THEN [providers |-> kept, closed |-> closed \ f.removed] ELSE None,
         assoc |-> IF f.assoc \/ f.removed # {} THEN files \intersect kept ELSE None]

Passes == deadline = "armed" /\ deadline' = "due"
    /\ UNCHANGED <<memory, flags, saving, task, main, storage, calls, disk, failed, late, budget>>

\* Mutant: what failed is not tried again.
MutRearm == UNCHANGED deadline
Rearm == deadline' = "armed"

\* processScheduledProjectMetadataSave at the end of a frame
ProcessScheduled ==
    /\ Frame /\ ~main.deferred /\ ~saving /\ deadline = "due"
    /\ Materialize
    /\ flags' = [flags EXCEPT !.assoc = @ \/ assoc' # assoc]
    /\ \/ /\ folder
          /\ silent' = silent \ flags.dirty
          /\ deadline' = "none" /\ saving' = TRUE
          /\ task' = [at |-> "created", moved |-> FALSE, ok |-> FALSE,
                      snapshot |-> SnapshotOf(flags', assoc'), todo |-> Nothing]
          /\ UNCHANGED budget
       \/ /\ \/ ~folder /\ UNCHANGED budget
             \/ folder /\ Spend("accidents")     \* storeSettings throws
          /\ Rearm
          /\ UNCHANGED <<saving, task, silent>>
    /\ UNCHANGED <<folder, open, project, closed, settings, used, main, storage, calls, disk,
                   failed, late>>

TaskStep(from) ==
    /\ task.at = from
    /\ UNCHANGED <<memory, flags, deadline, saving, main, failed, late>>
\* Mutant: the snapshot is written whatever has happened since it was taken.
MutIsCurrent == TRUE
IsCurrent == ~task.moved
TaskLocks ==
    /\ TaskStep("created") /\ storage = "free"
    /\ storage' = "task"
    /\ task' = IF IsCurrent THEN [task EXCEPT !.at = "writing", !.todo = SnapshotWrites(task.snapshot)]
                            ELSE [task EXCEPT !.at = "written"]
    /\ UNCHANGED <<calls, disk, budget>>
TaskWrites ==
    /\ TaskStep("writing") /\ task.todo # Nothing
    /\ \/ /\ \E w \in Ready(task.todo) :
                /\ disk' = Written(w)
                /\ task' = [task EXCEPT !.todo = Without(@, w)]
          /\ UNCHANGED budget
       \/ /\ Spend("accidents")
          /\ task' = [task EXCEPT !.at = "written", !.todo = Nothing]
          /\ UNCHANGED disk
    /\ UNCHANGED <<storage, calls>>
TaskHasWritten ==
    /\ TaskStep("writing") /\ task.todo = Nothing
    /\ task' = [task EXCEPT !.at = "written", !.ok = TRUE]
    /\ UNCHANGED <<storage, calls, disk, budget>>
\* doLater waits while the main thread runs deferred calls.
DoLater == ~main.deferred /\ calls' = Append(calls, "saved")
\* Mutant: the completion is posted inside the scope of the storage mutex.
MutTaskReleases ==
    /\ TaskStep("written")
    /\ storage' = "free"
    /\ DoLater
    /\ task' = [task EXCEPT !.at = "posted"]
    /\ UNCHANGED <<disk, budget>>
TaskReleases ==
    /\ TaskStep("written")
    /\ storage' = "free"
    /\ task' = [task EXCEPT !.at = "released"]
    /\ UNCHANGED <<calls, disk, budget>>
TaskPosts ==
    /\ TaskStep("released")
    /\ DoLater
    /\ task' = [task EXCEPT !.at = "posted"]
    /\ UNCHANGED <<storage, disk, budget>>

\* Mutant: the early return of a changed project comes before the flag is reset.
MutSavingEnds == saving' = task.moved
SavingEnds == saving' = FALSE
\* The completion, a deferred call on the main thread
Saved ==
    /\ SavingEnds
    /\ task' = NoTask
    /\ CASE task.moved -> UNCHANGED <<flags, deadline, project, closed, assoc>>
         [] ~task.moved /\ ~task.ok -> Rearm /\ UNCHANGED <<flags, project, closed, assoc>>
         [] ~task.moved /\ task.ok ->
              LET s == task.snapshot
              IN  /\ project' = project \ s.removed /\ closed' = closed \ s.removed
                  /\ assoc' = assoc \ s.removed
                  /\ flags' = [dirty |-> {id \in flags.dirty : s.settings[id] = None},
                               removed |-> flags.removed \ s.removed,
                               manifest |-> flags.manifest /\ s.manifest = None,
                               assoc |-> flags.assoc /\ s.assoc = None]
                  /\ UNCHANGED deadline
    /\ late' = IF ~task.moved /\ task.ok /\ task.snapshot.assoc # None THEN {} ELSE late
    /\ UNCHANGED <<folder, open, settings, silent, used, bound, pending, main, storage, disk,
                   failed, budget>>

-----------------------------------------------------------------------------
(* The main thread: deferred calls, store(), load()                        *)

\* A menu entry stores at once; renaming an entry of the sidebar stores in a deferred call.
AskToStore ==
    /\ Frame /\ ~main.deferred /\ folder /\ Spend("edits")
    /\ calls' = Append(calls, "store")
    /\ UNCHANGED <<memory, flags, deadline, saving, task, main, storage, disk, failed, late>>

\* runDeferredCalls holds s_deferredCallsMutex until no call is left.
StartDeferredCalls ==
    /\ Frame /\ ~main.deferred /\ calls # <<>>
    /\ main' = [main EXCEPT !.deferred = TRUE]
    /\ UNCHANGED <<memory, flags, deadline, saving, task, storage, calls, disk, failed, late, budget>>
EndDeferredCalls ==
    /\ Frame /\ main.deferred /\ calls = <<>>
    /\ main' = [main EXCEPT !.deferred = FALSE]
    /\ UNCHANGED <<memory, flags, deadline, saving, task, storage, calls, disk, failed, late, budget>>

\* store() at the project's own location: everything scheduled is cancelled before the
\* storage mutex is waited for.
BeginStore ==
    /\ folder
    /\ Cancel
    /\ main' = [main EXCEPT !.at = "store"]
    /\ UNCHANGED <<memory, flags, saving, storage, disk, failed, late>>
StoreNow ==
    /\ Frame /\ ~main.deferred /\ Spend("edits")
    /\ BeginStore
    /\ UNCHANGED calls
RunDeferredCall ==
    /\ Frame /\ main.deferred /\ calls # <<>>
    /\ calls' = Tail(calls)
    /\ CASE Head(calls) = "saved" -> Saved
         [] Head(calls) = "store" /\ folder -> BeginStore /\ UNCHANGED budget
         [] Head(calls) = "store" /\ ~folder ->     \* moveProjectEntry finds no file to move
              UNCHANGED <<memory, flags, deadline, saving, task, main, storage, disk, failed,
                          late, budget>>

\* storingProject is set from here to the end of the store.
StoreLocks ==
    /\ main.at = "store" /\ storage = "free"
    /\ storage' = "main"
    /\ Materialize
    /\ flags' = [flags EXCEPT !.assoc = @ \/ assoc' # assoc]
    /\ main' = [main EXCEPT !.at = "storing", !.todo = StoreWrites(assoc')]
    /\ UNCHANGED <<folder, open, project, closed, settings, silent, used, deadline, saving, task,
                   calls, disk, failed, late, budget>>
StoreWritesOne ==
    /\ main.at = "storing"
    /\ \E w \in Ready(main.todo) :
          /\ disk' = Written(w)
          /\ main' = [main EXCEPT !.todo = Without(@, w)]
    /\ UNCHANGED <<memory, flags, deadline, saving, task, storage, calls, failed, late, budget>>
EndOfStore ==
    /\ main' = [main EXCEPT !.at = "frame", !.todo = Nothing]
    /\ storage' = "free"
    /\ UNCHANGED <<folder, open, project, closed, settings, assoc, used, bound, pending, deadline,
                   saving, task, calls, disk>>
StoreSucceeds ==
    /\ main.at = "storing" /\ main.todo = Nothing
    /\ EndOfStore
    /\ flags' = Clean
    /\ failed' = FALSE /\ silent' = {} /\ late' = {}
    /\ UNCHANGED budget
\* A file could not be written, or the data could not be flushed after them.
StoreFails ==
    /\ main.at = "storing" /\ Spend("accidents")
    /\ EndOfStore
    /\ failed' = TRUE
    /\ UNCHANGED <<flags, silent, late>>

\* What loadProviders, loadAssociations and bindRegisteredData make of the files: a
\* provider without a settings file is not taken in, one that cannot be opened is not
\* open, and a file that is gone is not bound.
FromDisk ==
    LET ids == {id \in disk.manifest.providers : disk.settings[id] # None}
    IN  /\ folder' = TRUE
        /\ project' = ids
        /\ closed' = ids \intersect disk.manifest.closed
        /\ settings' = [id \in Ids |-> IF id \in ids THEN disk.settings[id] ELSE settings[id]]
        /\ assoc' = disk.assoc \intersect ids
        /\ open' \in SUBSET (ids \ closed')
        /\ bound' \in {{}, assoc' \intersect open'}
        /\ pending' = {} /\ silent' = {} /\ late' = {}
        /\ flags' = Clean
        /\ failed' = FALSE

\* load() of a project: it takes the storage mutex, and drops what was scheduled.
LoadProject ==
    /\ Frame /\ ~main.deferred /\ storage = "free" /\ Spend("edits")
    /\ Cancel
    /\ FromDisk
    /\ used' = used \union project'
    /\ UNCHANGED <<saving, main, storage, calls, disk>>
\* clearPath, EventProjectClosed, and the removal of all providers
CloseProject ==
    /\ Frame /\ ~main.deferred /\ folder /\ storage = "free" /\ Spend("edits")
    /\ Cancel
    /\ folder' = FALSE
    /\ open' = {} /\ project' = {} /\ closed' = {} /\ assoc' = {} /\ bound' = {} /\ pending' = {}
    /\ flags' = Clean
    /\ failed' = FALSE /\ silent' = {} /\ late' = {}
    /\ UNCHANGED <<settings, used, saving, main, storage, calls, disk>>

\* The process dies, and a new one loads the project.
CrashAndRestart ==
    /\ Spend("accidents")
    /\ FromDisk
    /\ used' = project'
    /\ deadline' = "none" /\ saving' = FALSE
    /\ task' = NoTask
    /\ main' = [at |-> "frame", deferred |-> FALSE, todo |-> Nothing]
    /\ storage' = "free" /\ calls' = <<>>
    /\ UNCHANGED disk

-----------------------------------------------------------------------------
\* A project was loaded whose open providers are those of its manifest.
Init ==
    /\ folder = TRUE
    /\ project = Loaded
    /\ open = project /\ used = project /\ closed = {}
    /\ settings = [id \in Ids |-> CHOOSE s \in Settings : TRUE]
    /\ assoc = {} /\ bound = {} /\ pending = {} /\ silent = {} /\ late = {}
    /\ flags = Clean
    /\ deadline = "none" /\ saving = FALSE
    /\ task = NoTask
    /\ main = [at |-> "frame", deferred |-> FALSE, todo |-> Nothing]
    /\ storage = "free" /\ calls = <<>>
    /\ disk = [settings |-> [id \in Ids |-> IF id \in project THEN settings[id] ELSE None],
               manifest |-> [providers |-> project, closed |-> {}], assoc |-> {}]
    /\ failed = FALSE
    /\ budget = [edits |-> MaxEdits, accidents |-> MaxAccidents]

MainStep ==
    \/ StartDeferredCalls \/ RunDeferredCall \/ EndDeferredCalls
    \/ StoreLocks \/ StoreWritesOne \/ StoreSucceeds
TaskSteps == TaskLocks \/ TaskWrites \/ TaskHasWritten \/ TaskReleases \/ TaskPosts
UserStep ==
    \/ \E id \in Ids :
          \/ OpenProvider(id) \/ CloseProvider(id) \/ ChangeSettings(id) \/ ChangeAddresses(id)
          \/ AddToProject(id)
          \/ RemoveFromProject(id) \/ EditData(id) \/ BindData(id) \/ Detach(id)
    \/ AskToStore \/ StoreNow \/ LoadProject \/ CloseProject

Next ==
    \/ UserStep \/ MainStep \/ TaskSteps \/ Passes \/ ProcessScheduled
    \/ StoreFails \/ CrashAndRestart

\* The main loop and the worker go on, and time passes; nothing obliges the user, a fault
\* or a crash.
Fairness ==
    /\ WF_vars(MainStep) /\ WF_vars(TaskSteps)
    /\ WF_vars(Passes) /\ WF_vars(ProcessScheduled)
Spec == Init /\ [][Next]_vars /\ Fairness

-----------------------------------------------------------------------------
(* Properties                                                              *)

Settled == main.at = "frame" /\ folder

\* What a load would read is what the memory holds, as far as the flags say so: nothing
\* that is not marked may be missing from the files, neither because an old snapshot went
\* over newer files nor because a change made during a save lost its mark.  But for base
\* addresses and pages, which are changed without a mark, and for associations of a
\* provider that has joined the project.
UnmarkedIsSaved ==
    Settled =>
        /\ \A id \in project \ (flags.dirty \union silent) : disk.settings[id] = settings[id]
        /\ ~flags.manifest => disk.manifest = [providers |-> project, closed |-> closed]
        /\ ~flags.assoc => (disk.assoc \intersect project) \ late = (assoc \intersect project) \ late

\* Whatever is marked will be saved without another edit: an autosave is scheduled, or one
\* of the present state is under way - unless a failed store() has taken the schedule away.
MarkedIsScheduled ==
    Settled /\ flags # Clean =>
        failed \/ deadline # "none" \/ (saving /\ ~task.moved)

\* The manifest never names a provider whose settings file is not there: after a crash at
\* any point of a save, of a store or of a removal, a load finds every provider it expects.
ManifestIsReadable ==
    /\ \A id \in disk.manifest.providers : disk.settings[id] # None
    /\ disk.manifest.closed \subseteq disk.manifest.providers

\* Every autosave comes to an end, whatever deferred calls wait for meanwhile: no worker
\* and main thread that wait for each other's mutex.
SaveEnds == saving ~> ~saving

\* Once the user stops, everything marked reaches the files or a store() has failed.
EventuallySaved == <>[](Settled => flags = Clean \/ failed)
=============================================================================
