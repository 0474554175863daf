-------------------------- MODULE ProjectPromotion ---------------------------
(***************************************************************************)
(* Turning ImHex's temporary project into a project of the user's: store() *)
(* with another folder copies the files, moves the open providers and the  *)
(* bound data over, writes the metadata, and renames the temporary folder  *)
(* away.  Any step may fail, which undoes the ones before it, and the      *)
(* program may die between any two; the next start finds the temporary     *)
(* project again.  The undoing may fail as well, which the code ignores.   *)
(*                                                                         *)
(* A file's content is the version it was saved with; of the metadata, the *)
(* parts are told apart that the files lack and that are marked.  All of   *)
(* it runs on the main thread under the storage mutex.                     *)
(***************************************************************************)
EXTENDS Naturals, FiniteSets

CONSTANTS
    Files,      \* files of open file providers inside the project
    Data,       \* file-backed data of those providers
    Project,    \* the metadata that is not one provider's: manifest and associations
    NoFile,     \* what a file that does not exist contains
    Foreign,    \* a file of somebody else
    MaxEdits,   \* bound on edits of files and of metadata
    MaxFaults,  \* bound on failing steps
    MaxTries,   \* bound on attempts to promote
    MaxCrashes  \* bound on restarts

ASSUME PromotionAssumption ==
    /\ Files \intersect Data = {}
    /\ Project \notin Files
    /\ {NoFile, Foreign} \intersect Nat = {} /\ NoFile # Foreign
    /\ {MaxEdits, MaxFaults, MaxTries, MaxCrashes} \subseteq Nat

Items == Files \union Data
Parts == Files \union {Project}     \* of the metadata: the settings of each provider, the rest
Version == 0..MaxEdits
Dirs == {"temp", "dest", "promoted"}

VARIABLES
    disk,       \* the three folders
    path,       \* s_currProjectPath
    at,         \* the folder an open provider's file, or the file bound to data, is in;
                \* "nowhere" for data that is not bound
    memory,     \* the version each item has in memory
    unsaved,    \* the parts of the metadata that the project's files lack
    flags,      \* dirtyProviderSettings, providerManifestDirty, associationsDirty
    shown,      \* the providers with m_metadataDirty
    scheduled,  \* s_projectSaveDeadline is set
    forgotten,  \* history: a promotion cleared the mark of Project and failed later
    pc,         \* where store() is
    todo,       \* what is left of its present loop
    existed,    \* destinationExisted
    copied,     \* copiedProjectEntries
    moved,      \* relocatedProviderPaths, relocatedBindings
    strayed,    \* history: what a promotion that failed left at the destination: data bound
                \* there, files that could not be moved back
    used,       \* what is used up of the bounds
    whole       \* history: no attempt was cut short by a crash, nor its cleanup by an error

marks == <<unsaved, flags, shown, scheduled, forgotten>>
vars == <<disk, path, at, memory, unsaved, flags, shown, scheduled, forgotten, pc, todo, existed,
          copied, moved, strayed, used, whole>>

Folder == [there : BOOLEAN, files : [Items -> Version \union {NoFile, Foreign}],
           meta : {"none", "foreign", "partial", "complete"}, marker : BOOLEAN]

Stages == {"idle", "flush", "check", "copy", "relocate", "setPath", "store", "manifest", "stored",
           "bindings", "marker", "rename", "remove"}

TypeOK ==
    /\ disk \in [Dirs -> Folder]
    /\ path \in {"temp", "dest"}
    /\ at \in [Items -> {"temp", "dest", "nowhere"}]
    /\ memory \in [Items -> Version]
    /\ {unsaved, flags} \subseteq SUBSET Parts /\ shown \subseteq Files
    /\ scheduled \in BOOLEAN /\ forgotten \in BOOLEAN /\ existed \in BOOLEAN /\ whole \in BOOLEAN
    /\ pc \in Stages
    /\ {todo, copied, moved, strayed} \subseteq SUBSET Items
    /\ used \in [edits : 0..MaxEdits, faults : 0..MaxFaults, tries : 0..MaxTries,
                 crashes : 0..MaxCrashes]

-----------------------------------------------------------------------------
NoFiles == [x \in Items |-> NoFile]
Absent == [there |-> FALSE, files |-> NoFiles, meta |-> "none", marker |-> FALSE]

Uses(what, n, limit) == used[what] + n <= limit /\ used' = [used EXCEPT ![what] = @ + n]
Spend(what, limit) == Uses(what, 1, limit)
Idle == pc = "idle"
Goes(stage, items) == pc' = stage /\ todo' = items
InTemp == {x \in Items : at[x] = "temp"}
Relocated(items, dir) == [x \in Items |-> IF x \in items THEN dir ELSE at[x]]
Put(folder, items) ==
    [folder EXCEPT !.files = [x \in Items |-> IF x \in items THEN memory[x] ELSE @[x]]]

-----------------------------------------------------------------------------
(* Between attempts                                                        *)

Quiet == Idle /\ UNCHANGED <<path, at, pc, todo, existed, copied, moved, strayed, whole>>
Edit(x) ==
    /\ Quiet /\ Spend("edits", MaxEdits)
    /\ memory' = [memory EXCEPT ![x] = used.edits + 1]
    /\ UNCHANGED <<disk, marks>>
\* A provider's settings change, or what is open and bound; not every change shows.
EditMetadata(p) ==
    /\ Quiet /\ Spend("edits", MaxEdits)
    /\ unsaved' = unsaved \union {p} /\ flags' = flags \union {p} /\ scheduled' = TRUE
    /\ shown' \in {shown, shown \union ({p} \intersect Files)}
    /\ UNCHANGED <<disk, memory, forgotten>>
\* A provider is saved, if its file can be opened; the data's own synchronization writes it.
SaveItem(x) ==
    /\ Quiet /\ at[x] # "nowhere" /\ disk[at[x]].there
    /\ x \in Files => disk[at[x]].files[x] # NoFile
    /\ disk' = [disk EXCEPT ![at[x]] = Put(@, {x})]
    /\ UNCHANGED <<memory, marks, used>>
\* materializeRegisteredData binds data that was edited to a file in the project.
Materialize(dir) ==
    \E items \in SUBSET {x \in Data : at[x] = "nowhere"} : at' = Relocated(items, dir)
\* What binding data changes of the metadata
Bound == IF at' # at THEN {Project} ELSE {}
\* The autosave: it looks at the deadline and the flags, not at what the providers show.
SaveMetadata ==
    /\ Idle /\ scheduled
    /\ Materialize(path)
    /\ LET written == flags \union Bound
       IN  /\ unsaved' = unsaved \ written /\ shown' = shown \ written
           /\ forgotten' = (forgotten /\ Project \notin written)
    /\ flags' = {} /\ scheduled' = FALSE
    /\ UNCHANGED <<disk, path, memory, pc, todo, existed, copied, moved, strayed, used, whole>>

-----------------------------------------------------------------------------
(* Failing                                                                 *)

\* How the undoing goes, whose errors the code ignores: the files that cannot be moved back,
\* the copies that cannot be removed (of the one being made, too), what is left of the metadata
Undoings ==
    {u \in [stuck : SUBSET (moved \intersect Files),
            left : SUBSET (copied \union (IF pc = "copy" THEN todo ELSE {})),
            meta : IF disk["dest"].meta = "none" THEN {"none"}
                   ELSE {"none", "partial", disk["dest"].meta}] :
        Cardinality(u.left \ copied) <= 1}
Flawless(u) == u.stuck = {} /\ u.left = {} /\ u.meta = "none"
Undoing(u, faults) ==
    /\ u \in Undoings
    /\ Uses("faults", IF Flawless(u) THEN faults ELSE faults + 1, MaxFaults)
    /\ whole' = (whole /\ u.left = {} /\ u.meta = "none")
    /\ Goes("idle", {}) /\ existed' = FALSE /\ copied' = {} /\ moved' = {}

\* Mutant: what was copied stays where it is.
MutCleaned(dest, u) == [dest EXCEPT !.meta = u.meta]
\* cleanupPromotion: what was copied, all metadata, and the folder if it is new and empty
Cleaned(dest, u) ==
    LET files == [x \in Items |-> IF x \in u.left THEN disk["temp"].files[x]
                                  ELSE IF x \in copied THEN NoFile ELSE dest.files[x]]
    IN  [dest EXCEPT !.files = files, !.meta = u.meta,
             !.there = existed \/ u.meta # "none" \/ \E x \in Items : files[x] # NoFile]

\* Mutant: the providers are left at the destination.
MutMovedBack(stuck) == at
MovedBack(stuck) == Relocated(moved \ stuck, "temp")

\* Before the path is set
GiveUp(u) ==
    /\ Undoing(u, 1)
    /\ at' = MovedBack(u.stuck) /\ strayed' = strayed \union u.stuck
    /\ disk' = [disk EXCEPT !["dest"] = Cleaned(@, u)]
    /\ UNCHANGED <<path, memory, marks>>

\* Mutant: a failed promotion leaves the marks as they are.
MutRemark == UNCHANGED shown
\* Of the marks, only those that the providers show are set; the flags stay as they are.
Remark == shown' = Files
\* resetPath and rollbackBindings; data that got a file at the destination stays there,
\* flushed or not.
UndoIn(temp, u) ==
    /\ Undoing(u, 1)
    /\ path' = "temp"
    /\ at' = MovedBack(u.stuck)
    /\ LET bound == {x \in Data \ moved : at[x] = "dest"}
       IN  /\ strayed' = strayed \union u.stuck \union bound
           /\ \E flushed \in SUBSET bound :
                 disk' = [disk EXCEPT !["dest"] = Cleaned(Put(@, flushed), u), !["temp"] = temp]
    /\ Remark
    /\ forgotten' = (forgotten \/ (Project \in unsaved /\ pc \in {"bindings", "marker", "rename"}))
    /\ UNCHANGED <<memory, unsaved, flags, scheduled>>
Undo(u) == UndoIn(disk["temp"], u)

-----------------------------------------------------------------------------
(* store() with another folder                                             *)

Promote ==
    /\ Idle /\ path = "temp"
    /\ Spend("tries", MaxTries)
    /\ existed' = disk["dest"].there
    /\ disk' = [disk EXCEPT !["dest"].there = TRUE]
    /\ Goes("flush", InTemp)
    /\ scheduled' = FALSE
    /\ UNCHANGED <<path, at, memory, unsaved, flags, shown, forgotten, copied, moved, strayed,
                   whole>>

\* Mutant: the data is flushed only after the files have been copied.
MutMustFlush(x) == x \in Files
MustFlush(x) == TRUE
Flush ==
    /\ pc = "flush"
    /\ \/ \E x \in todo :
             /\ Goes("flush", todo \ {x})
             /\ disk' = IF MustFlush(x) THEN [disk EXCEPT !["temp"] = Put(@, {x})] ELSE disk
       \/ todo = {} /\ Goes("check", {}) /\ UNCHANGED disk
    /\ UNCHANGED <<path, at, memory, marks, existed, copied, moved, strayed, used, whole>>

\* copyTemporaryProjectFiles: nothing of the temporary project may exist there already
Entries == {x \in Items : disk["temp"].files[x] # NoFile}
\* Mutant: an existing file is overwritten.
MutIsFree == disk["dest"].meta = "none"
IsFree ==
    /\ disk["dest"].meta = "none"
    /\ \A x \in Entries : disk["dest"].files[x] = NoFile
Check ==
    /\ pc = "check"
    /\ \/ IsFree /\ Goes("copy", Entries)
          /\ UNCHANGED <<disk, existed, copied, moved, used, whole>>
       \/ /\ ~IsFree
          /\ \E u \in Undoings : Undoing(u, 0) /\ disk' = [disk EXCEPT !["dest"] = Cleaned(@, u)]
    /\ UNCHANGED <<path, at, memory, marks, strayed>>
Copy ==
    /\ pc = "copy"
    /\ \/ \E x \in todo :
             /\ Goes("copy", todo \ {x})
             /\ disk' = [disk EXCEPT !["dest"].files[x] = disk["temp"].files[x]]
             /\ copied' = copied \union {x}
       \/ todo = {} /\ Goes("relocate", Files \intersect InTemp) /\ UNCHANGED <<disk, copied>>
    /\ UNCHANGED <<path, at, memory, marks, existed, moved, strayed, used, whole>>

\* The providers first; the data when the metadata is written.
Relocate(stage, next) ==
    /\ pc = stage
    /\ \/ \E x \in todo :
             /\ Goes(stage, todo \ {x})
             /\ at' = [at EXCEPT ![x] = "dest"]
             /\ moved' = moved \union {x}
       \/ todo = {} /\ Goes(next, {}) /\ UNCHANGED <<at, moved>>
    /\ UNCHANGED <<disk, path, memory, marks, existed, copied, strayed, used, whole>>

SetPath ==
    /\ pc = "setPath"
    /\ path' = "dest"
    /\ Materialize("dest")
    /\ unsaved' = unsaved \union Bound /\ flags' = flags \union Bound
    /\ Goes("store", {})
    /\ UNCHANGED <<disk, memory, shown, scheduled, forgotten, existed, copied, moved, strayed, used,
                   whole>>
\* storeProviders; storeAssociations, whose project.json makes the folder a project; the
\* data's flush, after which nothing is marked.
Store ==
    /\ \/ pc = "store" /\ Goes("manifest", {}) /\ disk' = [disk EXCEPT !["dest"].meta = "partial"]
          /\ UNCHANGED <<flags, shown>>
       \/ pc = "manifest" /\ Goes("stored", {})
          /\ disk' = [disk EXCEPT !["dest"].meta = "complete"]
          /\ UNCHANGED <<flags, shown>>
       \/ /\ pc = "stored" /\ Goes("bindings", Data \intersect InTemp)
          /\ disk' = [disk EXCEPT !["dest"] = Put(@, {x \in Data : at[x] = "dest"}),
                                  !["temp"] = Put(@, {x \in Data : at[x] = "temp"})]
          /\ flags' = {} /\ shown' = {}
    /\ UNCHANGED <<path, at, memory, unsaved, scheduled, forgotten, existed, copied, moved, strayed,
                   used, whole>>

WriteMarker ==
    /\ pc = "marker" /\ Goes("rename", {})
    /\ disk' = [disk EXCEPT !["temp"].marker = TRUE]
    /\ UNCHANGED <<path, at, memory, marks, existed, copied, moved, strayed, used, whole>>
Rename ==
    /\ pc = "rename" /\ Goes("remove", {})
    /\ disk' = [disk EXCEPT !["promoted"] = disk["temp"], !["temp"] = Absent]
    /\ existed' = FALSE /\ copied' = {} /\ moved' = {} /\ strayed' = {}
    /\ unsaved' = {} /\ forgotten' = FALSE
    /\ UNCHANGED <<path, at, memory, flags, shown, scheduled, used, whole>>
\* remove_all: a failure is only logged.
RemovePromoted ==
    /\ pc = "remove" /\ Goes("idle", {})
    /\ \/ disk' = [disk EXCEPT !["promoted"] = Absent] /\ UNCHANGED used
       \/ Spend("faults", MaxFaults) /\ UNCHANGED disk
    /\ UNCHANGED <<path, at, memory, marks, existed, copied, moved, strayed, whole>>

Fail == \E u \in Undoings :
    \/ pc \in {"flush", "check", "copy", "relocate"} /\ GiveUp(u)
    \/ pc \in {"store", "manifest", "stored", "bindings", "marker"} /\ Undo(u)
    \/ pc = "rename" /\ UndoIn([disk["temp"] EXCEPT !.marker = FALSE], u)

-----------------------------------------------------------------------------
(* A crash, and what loadTemporaryProject does at the next start           *)

\* Promoted folders are removed by their marker; a stray marker is removed.
Swept(d) ==
    [d EXCEPT !["promoted"] = IF @.marker THEN Absent ELSE @, !["temp"].marker = FALSE]

\* Without a temporary folder a new, empty project is made there, which is not modelled;
\* the user opens the promoted one.
FoundBy(d) == IF d["temp"].there THEN "temp" ELSE "dest"
\* Mutant: a file that does not exist is not noticed.
MutRead(folder) == folder.files
Read(folder) == [x \in Items |-> IF folder.files[x] = NoFile THEN 0 ELSE folder.files[x]]
Restart ==
    /\ Spend("crashes", MaxCrashes)
    /\ disk' = Swept(disk)
    /\ path' = FoundBy(disk')
    /\ memory' = Read(disk'[path'])
    /\ at' = [x \in Items |-> IF disk'[path'].files[x] = NoFile THEN "nowhere" ELSE path']
    /\ unsaved' = {} /\ flags' = {} /\ shown' = {} /\ scheduled' = FALSE /\ forgotten' = FALSE
    /\ Goes("idle", {}) /\ existed' = FALSE /\ copied' = {} /\ moved' = {}
    /\ whole' = (whole /\ Idle)
    /\ UNCHANGED strayed

-----------------------------------------------------------------------------
\* The destination may be absent, empty, a folder with a file that clashes, or a project.
Init ==
    /\ \E bound \in SUBSET Data :
          /\ at = [x \in Items |-> IF x \in Files \union bound THEN "temp" ELSE "nowhere"]
          /\ \E dest \in {Absent, [Absent EXCEPT !.there = TRUE],
                          [Absent EXCEPT !.there = TRUE, !.meta = "foreign"]}
                \union {[Absent EXCEPT !.there = TRUE, !.files[x] = Foreign] : x \in Files} :
             disk = [d \in Dirs |->
                CASE d = "temp" -> [there |-> TRUE, meta |-> "complete", marker |-> FALSE, files |->
                         [x \in Items |-> IF x \in Files \union bound THEN 0 ELSE NoFile]]
                  [] d = "dest" -> dest
                  [] d = "promoted" -> Absent]
    /\ path = "temp"
    /\ memory = [x \in Items |-> 0]
    /\ unsaved = {} /\ flags = {} /\ shown = {} /\ scheduled = FALSE /\ forgotten = FALSE
    /\ pc = "idle" /\ todo = {}
    /\ existed = FALSE /\ copied = {} /\ moved = {} /\ strayed = {}
    /\ used = [edits |-> 0, faults |-> 0, tries |-> 0, crashes |-> 0]
    /\ whole = TRUE

Next ==
    \/ \E x \in Items : Edit(x) \/ SaveItem(x)
    \/ (\E p \in Parts : EditMetadata(p)) \/ SaveMetadata
    \/ Promote \/ Flush \/ Check \/ Copy \/ Relocate("relocate", "setPath") \/ SetPath
    \/ Store \/ Relocate("bindings", "marker") \/ WriteMarker \/ Rename \/ RemovePromoted
    \/ Fail \/ Restart

Spec == Init /\ [][Next]_vars

-----------------------------------------------------------------------------
(* Properties                                                              *)

\* The promotion implements one atomic move: whatever fails and whenever the program dies,
\* the files a restart finds are the last saved ones, all in one folder.
Home == INSTANCE ProjectHome WITH
    Homes <- {"temp", "dest"}, Contents <- Version,
    home <- IF disk["temp"].there THEN "temp" ELSE "dest",
    content <- IF disk["temp"].there THEN disk["temp"].files ELSE disk["dest"].files
HomeIsKept == Home!Spec

\* Between attempts every open file is inside the project that is open, so that what is
\* saved is saved there; the exceptions are data that a failed promotion bound elsewhere and
\* files that it could not move back.
FilesFollowProject ==
    Idle => \A x \in Items \ strayed : at[x] \in {path, "nowhere"}

\* A promotion that fails leaves nothing of the project at the destination, which would
\* refuse the next attempt, unless it crashes or what it made cannot be removed.
FailureLeavesNothing ==
    Idle /\ path = "temp" /\ whole =>
        /\ disk["dest"].meta \in {"none", "foreign"}
        /\ \A x \in Items \ strayed : disk["dest"].files[x] \in {NoFile, Foreign}

\* No file that was at the destination before is overwritten or removed, by an attempt or
\* by the undoing of it.
ForeignFilesKept ==
    [][\A x \in Items : disk["dest"].files[x] = Foreign => disk'["dest"].files[x] = Foreign]_vars

\* A part of the metadata that the files of the present project lack is flagged or shown by
\* its provider, also after a promotion that had cleared the marks and failed later; the
\* exception is what belongs to no provider, whose flag such a failure does not restore.
UnsavedIsMarked ==
    Idle => unsaved \ (IF forgotten THEN {Project} ELSE {}) \subseteq flags \union shown
=============================================================================
