# ImHex in TLA+

TLA+ models of the parts of ImHex whose correctness depends on the order in
which threads, frames, files and users act, checked with TLC on small instances
and, where it is feasible, proved with TLAPS for every instance.

Abbreviations of paths used below:

| short | path |
|---|---|
| `fbd.hpp` | `src/lib/libimhex/include/hex/providers/file_backed_provider_data.hpp` |
| `task_manager.cpp` | `src/lib/libimhex/source/api/task_manager.cpp` |
| `imhex_api.cpp` | `src/lib/libimhex/source/api/imhex_api.cpp` |
| `events.cpp`, `sidebar.cpp` | `src/plugins/builtin/source/content/events.cpp`, `.../content/project/sidebar.cpp` |
| `lifecycle.cpp`, `providers.cpp`, `registration.cpp`, `storage.cpp` | `src/plugins/builtin/source/content/project/...` |
| `stack.cpp`, `provider.cpp` | `src/lib/libimhex/source/providers/undo/stack.cpp`, `.../providers/provider.cpp` |
| `project_manager.cpp` | `src/lib/libimhex/source/api/project_manager.cpp` |
| `hex_editor.cpp`, `view_patches.cpp` | `src/plugins/ui/source/ui/hex_editor.cpp`, `src/plugins/builtin/source/content/views/view_patches.cpp` |
| `patches.cpp`, `main_menu_items.cpp` | `src/lib/libimhex/source/helpers/patches.cpp`, `src/plugins/builtin/source/content/main_menu_items.cpp` |

## 1. The system

ImHex is an immediate-mode desktop program: one main thread draws frames and
runs nearly all the logic; a fixed pool of worker threads executes *tasks*;
file-change trackers have a thread each; an optional MCP server thread answers
requests.  Components talk through *events* (synchronous calls of all
subscribers), through *tasks* and the callbacks that follow them, and through
shared globals guarded by a few mutexes.

### 1.1 Inventory

| Component | State | Operations | Interacts with | Hard behaviour |
|---|---|---|---|---|
| **File-backed provider data** (`fbd.hpp`) | `m_entries` (value, bound path, dirty clock, reload flags, what the disk is known to hold), save timer, external-work flag, background task and its results | `set`/`markChanged`, `bind`, `unbind`, `relocate`, `flush`, `synchronize`, tracker callback, move/erase with providers | task manager (the batch), trackers, project sidebar, provider events | results arriving after newer edits; flags set by another thread in several steps; timer against failed writes; renaming a file under a running save |
| **Task manager** (`task_manager.cpp`) | `s_tasks`, `s_taskQueue`, mutex and condition variable, flags of each task, callbacks of "tasks finished", deferred calls | create, run, interrupt, fail, collect, `runWhenTasksFinished`, `doLater`, `exit` | everybody | lost wakeups; task listed or not; callbacks before the end of what they wait for; shutdown |
| **Provider registry** (`ImHexApi::Provider`, `imhex_api.cpp`) | open providers, current index, closing set, providers to destroy | `add`, `setCurrentProvider`, `remove` | events, dialog, task manager | index after removals; stale pointers; destruction exactly once and not too early |
| **Closing dialog** (`events.cpp`) | popup, closing set | veto, save, discard, cancel | registry, project | answers that arrive in a different situation than the question |
| **Event manager** (`event_manager.cpp`) | subscriber lists, recursive mutex | subscribe, unsubscribe, post | everybody | unsubscribing while posting; mutex held across handlers |
| **Project metadata autosave** (`providers.cpp`) | pending generation, deadline, in-progress flag | schedule, cancel, run, complete | task manager, deferred calls | overtaken saves; cancel during a save |
| **Project load, store, promotion** (`lifecycle.cpp`, `storage.cpp`, `state.cpp`) | project directory, manifest, entries | load, store, promote with rollback, autosave of the temporary project | file-backed data, file providers, registry | failing step among several; crash between them |
| **Undo and redo** (`stack.cpp`) | two stacks of operations, groups | add, undo, redo, group | provider base class, patches view (it turns provider events into operations), hex editor, import tasks | order within a group, redo after new edits, a task and the editor grouping each other's operations |
| **Patches** (`patches.cpp`, `main_menu_items.cpp`) | none besides the file | make a patch of the undo stack, write it, read it, apply it | undo stack, tasks | bytes compared across the boundary of a record, files cut short, numbers that do not fit |
| **Cached provider** (`cached_provider.cpp`) | block cache, cached size, shared mutex | read, write, resize, clear | the providers on top of it | stale block or size after resize |
| **Provider base** (`provider.cpp`) | overlays, base address, page, dirty flags | read, write, insert, remove, paging | undo, registry | insertion against overlays |
| **Project sidebar** (`sidebar.cpp`) | tree of entries | rename, move, delete, bind | file-backed data | order of file operation and rebinding |
| Presentation and configuration (views, popups, shortcuts, themes, layouts, settings, plug-ins, localisation) | tables | registration, drawing | registry, events | none beyond the main thread |
| Input and output (MCP and network server, HTTP, updater, instance messaging) | sockets, processes | requests | registry, through tools | MCP tools select providers from a worker |
| Helpers, data processor, disassemblers, hashes, diffing | none or local | pure functions, one task each | task manager | covered by unit tests |

`PROJECT.json` lists the same components with their status.

### 1.2 What makes each component correct

*File-backed data*: no edit of a bound entry is forgotten, whatever fails; no
reported change is forgotten; an entry with nothing under way agrees with its
file; the background task never undoes what `flush()` wrote; the user is asked
about unsaved data exactly if there is some.  *Task manager*: no queued task
waits while a worker sleeps through it; a task runs once; what waits for all
tasks finds them finished; `exit()` terminates.  *Registry*: the current index is
valid while something is open; the answer of the popup closes what it was about; removed providers are destroyed exactly once and
after the tasks that could use them; nothing pending refers to a closed provider;
subscribers know the current provider.  *Autosave, store*: what is
not marked as changed is in the files, what is marked is scheduled, and the files
can be loaded after a crash at any point.  *Promotion*: the project moves in one
step or not at all, whatever fails.  *Undo*: undo and redo lead through the
contents there have been; what differs from the saved file is highlighted and
counts as unsaved.  *Patches*: what was exported
turns the original into what it was edited to, or nothing is imported.  *Cache*: a read returns data of the source at
some point during the read.

## 2. Modules

| Module | Models | Lines of code |
|---|---|---|
| `FileBackedData` | `FileBackedProviderData<T>`, and the project sidebar's move and delete | `fbd.hpp` 127–619, `sidebar.cpp` 176–333 |
| `FileBackedData_proofs` | its inductive invariant and safety theorems | |
| `TaskManager` | workers, tasks, garbage collection, callbacks, `exit()` | `task_manager.cpp` 110–208, 290–470, 532–540 |
| `TaskLife` | abstract specification of `TaskManager`: what it promises about tasks and callbacks | |
| `TaskManager_proofs` | its inductive invariant, safety theorems and the refinement of `TaskLife` | |
| `ProviderRegistry` | `ImHexApi::Provider`, the closing dialog | `imhex_api.cpp` 325–537, `events.cpp` 231–299 |
| `ProviderRegistry_proofs` | its inductive invariant and safety theorems | |
| `ProjectAutosave` | project metadata: marks, schedule, background save, store in place, load, restart | `providers.cpp` 109–266, 392–673, `lifecycle.cpp` 71–228, `registration.cpp` 27–132, `task_manager.cpp` 506–530 |
| `ProjectAutosave_proofs` | its inductive invariant and safety theorems | |
| `ProjectPromotion` | turning the temporary project into one of the user's, with failures and crashes | `lifecycle.cpp` 102–294, `storage.cpp` 253–282, `project_manager.cpp` 53–99 |
| `ProjectHome` | abstract specification of `ProjectPromotion`: a project has one home and moves atomically | |
| `ProjectPromotion_proofs` | its inductive invariant, safety theorems and the refinement of `ProjectHome` | |
| `UndoStack` | undo stack, operations, provider calls, the editors that make them, the patches view | `stack.cpp` 28–132, `provider.cpp` 149–351, `hex_editor.cpp` 556–689, `view_patches.cpp` 63–98 |
| `IpsPatch` | exporting edits as an IPS or IPS32 patch, cutting the file short, importing it | `patches.cpp` 15–327, `main_menu_items.cpp` 90–136, 285–361 |
| `IpsPatch_proofs` | its inductive invariant: an exported patch is read as what was written | |
| `EditHistory` | abstract specification of `UndoStack`: a line of contents with the present one in it | |
| `Iteration` | induction for definitions by recursion over sequences, and joining sequences; used by `UndoStack_proofs` and `IpsPatch_proofs` | |
| `UndoStack_proofs` | its inductive invariants, the refinement of `EditHistory` and the highlights | |
| `MCFileBackedData`, `MCTaskManager`, `MCProviderRegistry`, `MCProjectAutosave`, `MCProjectPromotion`, `MCUndoStack`, `MCIpsPatch` | values of the constants and symmetry sets for TLC | |

`PROJECT.json` gives for each definition the lines it stands for.  Operators
named `Mut…` are plausible mistakes in the code, kept beside the definition they
change: with one of them in place of the definition a property named in
`PROJECT.json` fails, which shows that the property depends on that line.

### 2.1 FileBackedData

*State.*  `entries` is `m_entries`.  An absent key is the record `getOrCreate`
would insert, so that reading through `get()` changes nothing.  `serialized` is
left out: nothing ever reads it but the assignment to `diskSerialized`.  `revision`
and `reloadRevision` are the counters of the code; `dirtyAge` is `dirtySince` as
an age in ticks, capped at `Debounce` (older is the same to the code), and
`nextSave` is `m_nextSaveTime` as time left.  `operations` is the batch the task
captured, `results` what it published, `running` is `isRunning()`; `callback`
is how far each tracker's callback got, and `fileEvents` holds the providers
whose tracker has noticed a change and not reported it.  `main` is where the
main thread stands inside a call that other threads can interleave with.  `disk`
is the file system.  `unreported`, `budget` and `calls` are history and bounds.

*Steps.*  Between two accesses to what another thread can see nothing else can
happen, so a call is one step except where it waits, touches the disk or looks at
the task a second time:

* `set`/`markChanged`: `Edit`.
* `bind`: `BindRead` (waits for the task, reads and decodes the file, fails if it
  cannot be decoded) and `BindFinish` (takes the data, starts the tracker).
* `unbind`, `relocate`: `Unbind`, `Relocate`.  `moveProjectEntryInternal` and
  `deleteProjectEntry`: the file operation (`MoveProjectEntry`,
  `DeleteProjectEntry`), then one `Relocate` or `Unbind` per bound provider.
* `flush`: `Flush`, then `FlushEntry` for each entry; a write may fail.
* `synchronize`: `SynchronizeApply` (`applySynchronizationResults`) and
  `SynchronizeDispatch` (second look at the task, the gate, the batch).
* the task: `Perform` for each operation in any order (the order is that of
  pointers in a map), `FinishTask`.
* the tracker's callback: `CallbackCount`, `CallbackPend`, `CallbackFlag`, its
  three atomic writes.
* `MovePerProviderData`, `EventProviderDeleted`, `EventImHexClosing`:
  `MovePerProviderData`, `Erase`.
* others: `ExternalChange` (other programs), `Tick`.

Everything that waits for the task applies its results at once
(`FinishSynchronization`), as the code does.  External assumptions: a tracker
reports every change made after it was started, at least once (the library is a
git submodule; the code relies on this), and it reports the program's own writes
too; a file is replaced atomically (`writeFileAtomically`).

### 2.2 TaskManager

*State.*  `tasks` is `s_tasks` as a set (its order is only used for drawing),
`queue` is `s_taskQueue`, `interrupt`, `exception`, `finished` are the flags of
tasks, `worker` and `job` tell where each worker is, `main` where the main
thread is within a frame or `exit()`.  The mutex is held across steps in one
place only: a worker that has seen an empty queue and no stop request is about to
sleep (`blocking`).  This is where a notification made without the mutex would be
lost.

*Steps.*  A worker evaluates the wait predicate and acts on it (`Look`), falls
asleep (`Sleep`), wakes up by a notification or spuriously, runs its task until
that returns, throws or is interrupted, and finishes it.  `createTask` is one
step from any thread; `notify_one` wakes one sleeping worker if there is one.  In
a frame the main thread creates and interrupts tasks, registers callbacks, shows
the exception of a task, and at the end of the frame collects garbage
(`CollectGarbage`, under the mutex), looks whether the list is empty
(`CheckTasksFinished`, outside of it) and runs callbacks (`CallCallback`), each of
which creates one task as those of `ImHexApi::Provider::remove` do.  `exit()` is
`ExitInterrupt`, `ExitRequestStop` for one worker after the other, `ExitNotify`,
`ExitJoin`.

Deferred calls are in `ProjectAutosave`, where they wait for other mutexes;
completion callbacks are left out.  Iterations
over `s_tasks` without the mutex (a data race in the code) are single steps.

*Abstraction.*  `TaskLife` says what the task manager promises, without workers,
queue order, mutex, notification or garbage collection: a task is created once,
starts, may fail, ends; a failure is seen; a callback is registered with the tasks
it waits for and called once, when these have ended and their failures were seen;
until the pool shuts down nothing is dropped.  `ImplementsLife` states that
`TaskManager` implements it, with this mapping:

| `TaskLife` | `TaskManager` |
|---|---|
| `waiting` | tasks in `queue` |
| `running` | tasks of workers that run or finish one |
| `ended` | `finished` |
| `unseen` | `exception` |
| `registered` | `Registered`, the callbacks from `main.next` on |
| `waits` | `waitsFor` |
| `open` | `main.at # "exited"` |

Only `Create`, `Start`, `Fail`, `End`, `See`, `Register`, `Call` and `ShutDown`
are visible; waking, sleeping, collecting and the first steps of `exit()` are
stuttering steps.

### 2.3 ProviderRegistry

*State.*  `registry` is the list with what belongs to it: the current index, the
closing set, the providers to destroy, and the provider last announced by
`EventProviderChanged`.  `asking` is the provider whose popup is open, `leaving` what the
loop of an answer has yet to remove (the copy of the closing set that it iterates over),
`opening` the providers whose opening tasks run, `failed` those for which such a task has
posted a `remove`; `callbacks` and `closers` are the two stages of destruction, and `busy`
stands for `getRunningTaskCount() > 0` (opening tasks are background tasks).

*Steps.*  Each function runs on the main thread under `s_providerMutex`, so it is one
step: `Add`, `SetCurrentProvider`, `ForceRemove`, `Close` (no handler objects),
`AskToClose` (the popup opens), `AnswerRemove` (save or discard), `AnswerCancel`,
`RemoveFailed`.  The mutex does not stop a worker from starting a foreground task in the
middle, and every `setCurrentProvider` within `add` and `remove` looks for one again:
`granted` is how many selections (none or one in `add`, none to two in `remove`) come
before that.  `add` does not list a provider while a foreground task runs, but it is
opened all the same (`opening` need not be listed), and if that fails it is removed.
`remove` then leaves its pointer in the closing set.  Unlisted providers have no unsaved
changes, so nobody is asked about them.  The removals after an answer are one step per
provider (`RemoveNext`, in any order), since a foreground task that starts in between
makes `remove` ignore the rest.  Everything else on the main thread waits for the loop to
end.  The rest is the task manager reduced to what the registry sees of it.  While the
popup is open it is modal, so tabs and shortcuts do not close providers.  Addresses are
reused once a provider is destroyed.  A view provider that is removed together with its
parent is not modelled.

*Exceptions the properties name.*  `overtaken`: the last selection was refused because of
a task that started in the middle of the call.  `ignored`: providers for which `remove`
ignored the answer because of a foreground task; they stay in the closing set with their
tabs hidden.  `strays`: the pointers just described.  Section 4 says what follows from
each of them.

### 2.4 ProjectAutosave

*State.*  `project`, `closed`, `settings`, `assoc` are the fields of `ProjectState`
(an association is only whether there is one, not its path), `open`, `bound` and
`pending` what the open providers and their data contribute, `flags` the four
marks.  `deadline` is `s_projectSaveDeadline` (unset, in the future, passed).  The
generation counter is compared for equality with the value a task was created with,
so it is the boolean `task.moved`.  `storage` is the storage mutex; `main.deferred`
stands for `s_deferredCallsMutex` held by `runDeferredCalls`.  `disk` is what is
under `.imhex`.

*Steps.*  Events of a frame are one step each.  `ChangeSettings` is a change that
`EventProviderDirtied` announces, `ChangeAddresses` a new base address or page, which is
part of the settings (`provider.cpp:365-366`) and announced by nothing.  `ProcessScheduled` is
`processScheduledProjectMetadataSave`: it materializes data, takes the snapshot and
starts the task, or fails and tries again later.  The task waits for the storage
mutex and looks at the generation (`TaskLocks`), writes one file after the other
(`TaskWrites`, which may fail; `task.todo` has the files left in four stages, one after
the other: settings, associations, manifest, removals; within a stage the model takes any
order, the code that of the ids), releases the mutex, and posts its completion
(`TaskPosts`), which waits while deferred calls run; the completion (`Saved`) is a
deferred call.  `store()` cancels, waits for the mutex (`BeginStore`, `StoreLocks`)
and writes its files one by one; it is called from a menu (`StoreNow`) or from a
deferred call of the sidebar (`AskToStore`).  `LoadProject`, `CloseProject` and
`CrashAndRestart` go through what `loadProviders`, `loadAssociations` and
`bindRegisteredData` make of the files (`FromDisk`).

*Abstraction.*  One project directory; providers that `canPersistProvider` accepts
only, with one type of file-backed data each; a file is replaced atomically
(`writeProjectFile`); replacing a provider by another one, and a failing bind in
`materializeRegisteredData`, are left out.

*Exceptions the properties name.*  `failed`: `store()` cancels the scheduled save
before it writes, and schedules nothing when it fails; until the next change the
marks stay without a deadline.  `late`: a provider that joins the project may bring
an association that the files lack (or lack one the files have), and
`scheduleProviderMetadataSave` does not mark associations.  `silent`: settings changed by
`ChangeAddresses` may differ from their file, without a mark and for as long as nothing
else marks the provider or stores the project.

### 2.5 ProjectPromotion

*State.*  `disk` has the temporary project, the destination and the renamed
temporary folder (`.promoted`); a file's content is the version it was saved with.
`at` is the folder in which a provider's file, or the file of its data, is;
`pc` and `todo` are where `store()` is, `copied`, `moved`, `existed` its local
variables.  Of the metadata, the parts are told apart (the settings of each provider, and
`Project` for the manifest and the associations): `unsaved` are those that the files of
the project lack, `flags` those the autosave would write, `shown` the providers whose
`m_metadataDirty` is set, `scheduled` whether there is a deadline.  At the destination it
matters only whether metadata is there, wholly or in part, and whose.

*Steps.*  One per loop iteration or file operation: `Flush`, `Check` and `Copy`
(`copyTemporaryProjectFiles`), `Relocate` of providers, `SetPath`, `Store`
(three writes), `Relocate` of bindings, `WriteMarker`, `Rename`, `RemovePromoted`.
Every one of them may fail, which runs the code's undoing: `GiveUp` before the path
is set, `Undo` after.  The undoing may fail as well, and the code ignores it
(`lifecycle.cpp` 136–143, 175, 190): `Undoings` are the files that cannot be moved back,
the copies that cannot be removed, and what is left of the metadata.  Moving a binding
back (247) cannot fail, since `relocate` of file-backed data fails for unbound data and
empty paths only.  `Restart` may come between any two steps and is what
`loadTemporaryProject` does next.  Between attempts the user edits and saves; a file that
is not there cannot be saved to.

*Abstraction.*  All of it runs on the main thread under the storage mutex, so
nothing interleaves but crashes; the autosave's task is one step with its start and
its completion (it has a module of its own, `ProjectAutosave`).  File providers hold their
data in memory.  A file is written wholly or not at all.  A restart opens every file that
exists.  Without a
temporary folder the next start makes a new, empty project, which is not modelled:
`Restart` then opens the promoted one.

*`ProjectHome`.*  `home` is `temp` as long as the temporary folder is there, and
`content` the files in it: the files a restart finds.  `Rename` is the move, a saved
file is `Save`, everything else stutters.  So whatever is copied, relocated, undone
or cut short, no saved file is lost.

*Exceptions the properties name.*  `strayed`: data that `materializeRegisteredData` binds
to the destination stays bound there when the promotion fails later, because only
relocated bindings are rolled back; and files that could not be moved back.  `whole`: what
the cleanup cannot remove stays at the destination, as after a crash.  `forgotten`: a
promotion that fails after it has cleared the marks (`lifecycle.cpp` 224–227) sets
`m_metadataDirty` of all open providers (193–194) and nothing else.  So the manifest and
the associations are unmarked, though the files may lack them; the providers' settings are
shown as changed, but not flagged and not scheduled, so that the autosave does not write
them until they change again.  `UnsavedIsMarked` promises no more than that.

### 2.6 UndoStack

*State.*  `buffer` is the data of one provider, its two stacks and
`m_originalByteValues` of the patches view; `main` and `import` are the provider and
stack calls which an edit of the main thread, and the import task, still have to
make.  Groups are flattened to the series of their parts: undoing and redoing a group
goes through the parts from the first to the last, so a group of groups does the
same as the flat one.  `line` is what undoing and redoing from here would lead
through, a function of `buffer`; the abstract specification reads it.

*Steps.*  A call is one step (`MainCalls`, `ImportCalls`); between two calls of one edit
the other thread may make its own.  Within calls it cannot, but for a price: `write`
takes the event mutex and, in the handler of its event, the stack's mutex; `undo`, `redo`
and `groupOperations` take the stack's mutex and then the event mutex, which they need
before they release the first (`EventDataChanged`, `stack.cpp` 45, 66, 129).  Two such
calls that overlap wait for each other for ever (section 4); if they do not hang, one
comes after the other.  One case escapes this and is left out: a write that reads its own
new value out of a group that is half undone returns without taking the stack's mutex.
Saving is two steps on the main thread, `SaveBegins` and `SaveEnds` or `SaveFails`:
`FileProvider::save` writes `m_data` without a mutex, so an import task may write
meanwhile, and each byte of the file is one the data had there since the save began
(`saving` holds these contents).  Only then are the dirty flag and the first values
cleared.  A save that fails leaves the file as it is, written in part, or written
wholly, and changes nothing else.  What starts an edit: `TypeOver`, `EnterInsertMode`, `TypeCell`,
`LeaveInsertMode` (hex editor), `Fill`, `InsertBytes`, `RemoveBytes`, `Resize`,
`Paste`, `Undo`, `Redo`, `ImportPatch`, `SaveBegins`.

*Abstraction.*  Base address 0 and one page; a file provider that holds its data in
memory (`m_loadedIntoMemory`).  Contents within a group, half undone, are not among those
a save may find; the dirty flag, set by a write after its event, may survive a save that
ends in between, which `SaveEnds` allows as long as the import runs.  `paste_from_source` and
`PatchesGenerator`, which bypass the stack, and `apply` (see 2.7) and `reapply` are
left out.

*`EditHistory`.*  An edit appends to the past and forgets the future, undo and redo
move along the line, grouping drops contents between two undo steps.  `HistoryKept`
states that every call is one of these, read from what undoing and redoing *would*
yield, under two exceptions which the code does not cope with:
`mixed` (a group undoes its parts from the first to the last, so parts that depend on
each other, such as overlapping writes, are not restored) and `beyond` (an insertion
behind the end is put at the end and a removal across the end removes less than its
undoing inserts).  `HighlightsAreChanges` has `shifted` besides: addresses in
`m_originalByteValues` are not moved by insertions and removals, and are cleared by a
save although what was saved can still be undone, or although the import has edited the
data while they were written; and a save that fails has changed the file.

### 2.7 IpsPatch

*State.*  `data` is the provider's data, `patches` what `PatchesGenerator` makes of the
operations done so far (the code redoes them all when a patch is exported), `file` the
patch without its five-byte header, `imported` the map read from it.  `at` is where the
patch is, or the error it ended in.  `missing` and `plain` are history: how much the
file was cut short by, and whether every edit so far was a write of one byte.

*Steps.*  `Overwrite`, `InsertBytes`, `RemoveBytes` are edits; `Export` is
`exportIPSPatch` or `exportIPS32Patch`, one step since everything after the click works
on copies; `Truncate` and `Receive` are the world between (a file cut short, or made by
another program, with records that repeat a byte); `Import` reads and applies the file.

*Abstraction.*  Bytes are digits of `Base` instead of 256, and every width is kept:
sizes of two bytes, addresses of three or four, keys of eight that wrap around.  Base
address 0.  Wrong headers are not enumerated; a file cut short within its header is
refused like one cut short behind it.  Files are shorter than 4 GiB: the place of the
reader in the file, a u32 in the code, does not wrap around.  The loop of the reader is a
recursive function of the number of iterations (`ReadRecord` is one of them); the loop of
the writer, over the addresses, joins one record per run (`RecordAt`).

*What the properties leave out* (`Expressible`, `plain`), because the code does not cope
with it: writes of several bytes, all of which `PatchesGenerator::writeRaw` puts at the
first address; insertions and removals, which leave the byte *at* the offset in place;
addresses of 2^24 and more in an IPS file, which are truncated, since the limit that is
checked is 2^32; an empty patch, which is refused as having no footer; and an IPS32
file that is left with three bytes of its footer at the end, "EEO", since `memcmp` reads
the fourth behind the buffer (`EndsInFooter`).  Those three bytes need not be the footer's:
with the footer of `MCIpsPatch`, a file cut right behind the first three bytes of the
address of its second record ends like that and is imported in part, so that it is not
enough to except the loss of one byte.  The code
wants to avoid a record that begins with the footer (`main_menu_items.cpp` 293–299) by
putting a byte in front of it, but does so with `std::map::at` on an absent key, which
throws: such an export ends at `"throws"`.  `TruncationIsNoticed` depends on nothing
being exported in this case.  The size of a repeated byte is read in the other byte order
than all other numbers; the model does the same.

## 3. Runs

| Run | Instance | Shows |
|---|---|---|
| `file_backed_safety` | 2 providers, 2 paths, 3 calls, 1 failing read or write, 1 moved or deleted file | `SaveArmed`, `ReloadArmed`, `TouchedMeansDirty`, `NoStaleWrite` |
| `file_backed_settled` | 1 provider, 1 path, 2 calls, 2 external changes, 1 failing write, fair | `TypeOK`, `SettledMatchesDisk`, `EditsReachDisk`, `ReloadsConsumed` |
| `file_backed_relocation` | 1 provider, 2 paths, 3 calls, 1 move, trackers that have not reported yet | violates `SettledMatchesDisk` |
| `file_backed_lost_reload` | 2 providers, 2 paths, 3 calls, 1 external change | violates `SettledMatchesDisk` |
| `task_manager` | 2 workers, 2 tasks, 1 callback, fair | `TypeOK`, `NoLostWakeup`, `OneOwner`, `NoTaskUnlisted`, `CallbackAfterTasks`, `ImplementsLife`, `ExitTerminates`, `CallbacksAreCalled` |
| `provider_registry` | 3 addresses, 3 providers added, 1 foreground task, fair | `TypeOK`, `CurrentIsOpen`, `PendingAreOpen`, `PendingWhileAsked`, `RemovedOnce`, `RemovedIsDestroyed` |
| `provider_announced` | 3 providers, no tasks | violates `ListenersKnowCurrent` |
| `project_autosave` | 2 providers, 2 settings, 3 edits, 1 accident (failing write or snapshot, crash), fair | `TypeOK`, `UnmarkedIsSaved`, `MarkedIsScheduled`, `ManifestIsReadable`, `SaveEnds`, `EventuallySaved` |
| `project_promotion` | 2 files, 2 pieces of data, 2 edits, 2 attempts, 2 failing steps, 1 crash | `TypeOK`, `FilesFollowProject`, `FailureLeavesNothing`, `UnsavedIsMarked`, `ForeignFilesKept`, `HomeIsKept` |
| `undo_stack` | 2 bytes of data, 3 edits, by the editors and an import task | `TypeOK`, `HighlightsAreChanges`, `HistoryKept` |
| `undo_dirty` | the same without typing, pasting and importing | violates `UnsavedIsDirty` |
| `ips_patch` | bytes of 2 values, 6 bytes of data, 4 of them edited, any truncation | `TypeOK`, `RoundTrip`, `TruncationIsNoticed` |

### 3.1 What the violations show

* `file_backed_relocation`: an entry is bound to an existing file and edited, and the
  frame's end dispatches its autosave (three calls with the move).  The sidebar renames
  the file before it calls `relocate`, which waits for the autosave of the old path.  The
  save recreates the old file, is applied while the entry still has that path, and marks
  the edit as saved.  The entry then moves to the renamed file, which lacks it.  The run
  leaves out the trackers' reports, which could end in a reload after the move, to show
  that it takes none of them.
* `file_backed_lost_reload`: the task ends between the two calls of `isRunning()`
  in `synchronize()`.  The next batch overwrites a result nobody has applied, and
  the flag that asked for it has been cleared.  It takes a second entry with work
  of its own, or a second change of the same file.
* `provider_announced`: after the last provider was closed the current index
  stays 0, so selecting the next provider "changes" nothing and is not announced.
* `undo_dirty`: an edit is made, saved, and undone.  `Provider::undo`
  does not mark the provider, so it is closed without asking and "Save" is disabled,
  although its data is not what the file holds.
**`SettledMatchesDisk` is therefore not a property of the component at large.**
It holds within the bounds of `file_backed_settled`: one entry, no renaming, no
failing reads, and reloads of this entry only.  The run shows that apart from the
two sequences above (and the window in `bind`, see below) the handling of
revisions, pending reloads and failed writes is right; a mutant that ignores
revisions breaks it.

### 3.2 Bounds and why they are enough

*File-backed data.*  The interesting cases are two entries in one batch, two
entries on the same file, and an edit, a bind, a flush or a move between dispatch
and result; two providers, two paths and three calls produce all of them.
`Debounce = 1` distinguishes fresh, due and clean.  Reload revisions are compared
for equality only, so two changes suffice; one value besides the default, one
content that cannot be decoded.  With external changes the safety run is out of
reach for two entries; `file_backed_settled` has them for one.  The theorems of
section 5 need no bounds.

*Task manager.*  Two workers allow one to be about to sleep while the other runs,
ends or fails a task; three tasks (two, and one that the callback creates) allow a
running, a queued or failed, and a new one.  Calls are bounded by the number of tasks,
since each task is created once.  With more workers, tasks and callbacks the invariants
and the refinement are proved (section 5); liveness is checked in this instance only.

*Registry.*  Three providers distinguish first, last and middle positions and
"current" before, at and after the one removed; three additions also allow two providers
and an address used again; the foreground task may start in the middle of any call, during
a popup, or in the loop of its answer.  Beyond these bounds the safety properties are
proved (section 5).  `RemovedIsDestroyed` relies on both bounds: an endless sequence of
foreground tasks or of openings would keep callbacks from ever being run, which the code
permits.

*Autosave.*  Two providers allow one to be written while the other changes or is
removed; the interesting sequences are a change or a store during a save (two edits)
after a change that started it (one).  One accident puts a crash, a failing write or
a failing snapshot at every point of every such sequence.

*Promotion.*  Two files and two pieces of data allow every loop to be in the middle,
with bound and unbound data at once; two attempts and two failures allow a second
attempt after a failed one, and it to fail as well or to be cut short.  An undoing that
goes wrong, in whatever it cannot move or remove, counts as one more failure.  The
destination is absent, empty, has a clashing file, or is a project.

*Undo.*  Two bytes allow an edit at the beginning, at the end and behind it; three
edits allow an edit, its undoing and another edit or a save, or an import interleaved
with two edits of up to five calls each.  Beyond these bounds `HistoryKept` and
`HighlightsAreChanges` are proved (section 5).

*Patches.*  With `Base = 2` every limit of 256, 2^16, 2^24 and 2^32 shrinks to 2, 4, 8
and 16, within or just beyond what six bytes of data and four edited ones reach: runs of
one to four bytes (four do not fit into a size), two records with a gap, a record at the
footer's number (5 in both formats) or right before it, records whose data contains the
footer, a record whose address begins like it (4 in IPS32), keys
that wrap around.  Truncation removes any number of bytes from the end.  For all other
sizes, edits and footers the properties are proved (section 5).

`CHECK_DEADLOCK FALSE` is used for `TaskManager`, which ends when `exit()` has
joined, and for `ProviderRegistry`, `ProjectAutosave`, `ProjectPromotion`,
`UndoStack` and `IpsPatch`, which stop when their bounds on users' edits are used up or
the patch is imported.
`FileBackedData` never stops, since frames go on.

### 3.3 Fairness

* *FileBackedData*: frames end (strong fairness, because a user who is always in
  the middle of calls disables the end of frame again and again, but calls return
  and a frame does end); calls return; the background task and trackers make
  progress; time passes.  Nothing is assumed of users, other programs or failures.
  `ReloadsConsumed` needs one thing more, that it infinitely often happens that a
  frame ends and the task is not running; the code does not force it, so it is a
  premise in the property.
* *TaskManager*: a thread that waits for the mutex gets it in the end (strong
  fairness of the actions that take it), the main thread goes on, and a *task that
  has been interrupted* stops.  A task that has not been interrupted may run
  forever; the properties name those that must not.
* *ProviderRegistry*: frames end, tasks end (foreground, opening and closing ones), and
  the loop of an answer goes on.
* *ProjectAutosave*: weak fairness of the main thread's calls (deferred calls, the
  steps of `store()`), of the task that saves, of the end of a frame that processes
  the schedule, and of time.  The storage mutex is taken by the main thread and one
  task; since at most one save is in progress and users' edits are bounded, weak
  fairness is enough.  Nothing is assumed of users, failures or crashes.  `SaveEnds`
  is the absence of a deadlock between the storage mutex and the deferred-call mutex:
  the task posts its completion only after it has released the storage mutex.

`ClearException` is fair: callbacks wait until the user has seen every failure,
because a failed task stays in the list until its toast was shown; the main thread
shows them without being asked.

## 4. Hazards without a property

`PROJECT.json` lists the hazards at their lines.  Those that no property covers
say why; the most notable in what is modelled:

* `bind()` reads the file before it tracks it.  A change in between is never
  reported; `SettledMatchesDisk` excludes such entries (`unreported`).
* A failing read of an existing file resets the entry to its default, as if the
  file were gone.
* `exit()` interrupts the tasks listed at that moment.  A task created afterwards
  by a running task may be joined without having been told to stop;
  `ExitTerminates` presupposes that it was.
* A worker that starts a foreground task right after `remove` has looked for one makes it
  refuse both selections (`imhex_api.cpp` 362).  The provider is erased nevertheless, and
  if the current one was the last in the list, the index points behind it: a provider is
  open although `get()` returns nothing (`overtaken`).
* If `remove` ignores the user's answer because of a foreground task (450), the provider
  stays in the closing set.  The answer about another provider then closes it too
  (`events.cpp` 253), whatever was changed in it meanwhile (`ignored`); a pointer in
  `strays` does the same to whatever has been opened at its address.
* An import task that writes while the file is saved, after the file has got the old
  value of a byte: the end of the save takes the dirty flag and the byte's highlight away,
  and the file lacks the byte (`shifted`).
* A write takes the event mutex and then the mutex of the undo stack (`provider.cpp` 153,
  `stack.cpp` 118); undoing, redoing and grouping take them the other way round
  (`stack.cpp` 29, 45).  An import task that writes while the user undoes, or that groups
  while the user writes, may hang the program.  `UndoStack` has the runs in which it does
  not.
* `cleanupPromotion` removes `.imhex` of the destination, also when the attempt was
  refused because a project was there: its metadata is gone.  `ProjectPromotion` does
  the same; `ForeignFilesKept` speaks of files.
* `HomeIsKept` is about the files of the project's home.  What is saved into a file that
  strayed to the destination is not there, and a restart does not find it.

Hazards that a property covers but for an exception in which the code goes wrong are
listed with that exception (`unreported`, `overtaken`, `ignored`, `strays`, `failed`,
`silent`, `late`, `strayed`, `whole`, `forgotten`, `mixed`, `beyond`, `shifted`, `plain`);
each is a history variable that the model sets (`whole`, `plain`: resets) at the step in
question and nowhere else.  A hazard that consists of nothing but such an exception is
listed without a property.

## 5. Proofs

`FileBackedData_proofs` proves, for any sets of providers, paths, values and
contents and any bounds, that `TypeOK`, `SaveArmed`, `ReloadArmed`,
`TouchedMeansDirty` and `NoStaleWrite` are invariants of `Spec`.  Assumed are the
named assumptions of `FileBackedData`: the default is a value, "no value", "no
file" and "no path" are none, the codec maps values to contents, contents to
values or nothing, and decodes what it encoded; bounds are natural numbers.

None of the properties is inductive.  The invariant `IInv` adds:

* `OperationsOK`: operations have a path, writes have contents, and so do
  successful reads.
* `MainOK`: from `BindRead` to `BindFinish`, and while `flush` visits its
  entries, the task is not running and has no unapplied result; what was read can
  be decoded; entries still to be visited are bound (and dirty, for `flush`).
  Without this `FlushEntry` could overtake a write in flight.
* `WriteAwaited`: a write in flight *or in the results* of a bound entry goes to
  the entry's path, the entry is still dirty and touched, and the data is the
  encoded value unless the revision has moved on.  `NoStaleWrite` speaks of
  operations only; that applying a result keeps the two edit flags equal needs
  the same of results.
* `Armed`, `FlagsAgree`, `Announced`: the other three properties, per entry.

`InitInv` and `StepInv` are the two halves of the induction.  `StepInv` splits
into one lemma per action; those rest on lemmas about what applying the results
does to one entry (`AfterWriteType`, `AfterReadType`, `AppliedType`,
`AppliedArmed`, ...).  The theorems then follow from `Invariance`.

`TaskManager_proofs` proves, for any tasks and callbacks and any finite, non-empty
set of workers, that `TypeOK`, `NoLostWakeup`, `OneOwner`, `NoTaskUnlisted` and
`CallbackAfterTasks` are invariants of `Spec`.  The invariant `IInv` adds:

* `Owned` (with `QueueOK`): a task that was created is in the queue once, with one
  worker, or finished.  Only tasks that were created are anywhere, which makes a
  new task new to all of these places.
* `BlockingOK`: a worker about to sleep holds the mutex and the queue is still
  empty.  This is what `NoLostWakeup` needs when it falls asleep: `createTask`
  appends under the same mutex.
* `Listed`: `NoTaskUnlisted` place by place; garbage collection removes finished
  tasks only, which by `Owned` are in no worker's hands.
* `CallbacksOK`: what a registered callback waits for is listed or has finished and
  was seen; while callbacks are being called, the latter.  `s_tasks.empty()` is read
  without the mutex and other tasks may be created at once, but these are none a
  registered callback waits for.

That the queue has as many elements as its length, and that the set of workers who
are awake grows and shrinks by one, is counted with the library's facts about
cardinalities (`AppendNew`, `TailOld`, `AwakeMore`, `AwakeLess`).

`Refinement` proves `Spec => TaskLife`: `LifeInit` maps the initial states, one
lemma per visible action maps a step to the abstract action, `LifeStep` puts them
together and shows that all other steps stutter.  It uses `IInv` and two more
invariants: `CallsOK` (callbacks are registered once and called in order, and all
workers have stopped when `exit()` is over) and `Placed` (a listed task is queued,
held or finished, so a callback waits for nothing that never existed).

`ProviderRegistry_proofs` proves, for any set of addresses and any number of providers
and tasks, that `TypeOK`, `CurrentIsOpen`, `PendingAreOpen`, `RemovedOnce` and
`PendingWhileAsked` are invariants of `Spec`.  Assumed is that there are finitely many
addresses.  None of the five is inductive alone, their conjunction with `LoopOK` (the loop
of an answer only meets providers that are still in the closing set) is: `CurrentIsOpen`
needs that no provider is listed twice, or a removal would not shorten the list by one;
`RemovedOnce` needs that what is removed is not open, or it could be removed twice;
`PendingWhileAsked` needs `LoopOK`, so that what the loop does not find in the list counts
as a stray.  The work is in lemmas about lists without repetition (`RemoveAtProperties`,
`AppendNew`, `InjectiveBound`), about what `add` and `remove` do to the current index at
each position and for each number of granted selections (`SelectedKeeps`,
`DeselectedKeeps`, `RemovedProperties`, `AddedProperties`), and about both ways `remove`
may go (`RemoveFromKeeps`).

`ProjectAutosave_proofs` proves, for any providers, settings and bounds, that `TypeOK`,
`UnmarkedIsSaved`, `MarkedIsScheduled` and `ManifestIsReadable` are invariants of `Spec`.
Assumed is that what stands for "nothing" is neither a setting nor a manifest nor a set of
ids.  `IInv` adds:

* `FlagsOK`: only members of the project are marked as dirty, and a removal marks the
  manifest and the associations.  Without it a save could delete a settings file which
  the manifest still names.
* `LockOK`: who writes holds the storage mutex, so a task and a store never write in
  turns; the main thread is never inside a store while a task counts as untouched.
* `FreshOK`: as long as nothing was scheduled since, the task's snapshot is what a
  snapshot of the present state would be, but for settings that changed silently.  This is
  what makes it right to clear the marks when the task is done.
* `SavedOK`: `UnmarkedIsSaved`, also during a store; settings that changed silently are
  not the ones in their file, but there is one, or the manifest would become unreadable.
* `WritingOK`, `WrittenOK`, `StoringOK`: every file of the snapshot (or of the memory, for
  a store) is in place or still to be written, and nothing else is; settings come before
  the manifest that names them, and removals after the one that does not.

A step of the user either goes through `Schedule`, and the lemma `EventKeeps` says what
follows from that for all of `IInv`, or leaves everything a snapshot takes unchanged but
for silent settings (`Steady`, `FreshKept`).  `TaskWritesOne` and `SavedStep` carry
`SavedOK` over a file written and over the completion.

`ProjectPromotion_proofs` proves, for any files, data and bounds, that `TypeOK`,
`FilesFollowProject`, `FailureLeavesNothing` and `UnsavedIsMarked` are invariants,
that every step satisfies `ForeignFilesKept`, and that `Spec => Home!Spec`.  Assumed is
that files are not data, that `Project` is not a file, and that "no file" and files of others
differ from each other and from versions.  `IInv` says for each stage:

* `PathOK`: which folder is the path, and that the temporary one is gone exactly from the
  rename on.
* `TempOK`, `DestOK`: the temporary folder is complete as long as it is there; files of
  others are at the destination only before it was found free of them.
* `FlushedOK`, `CopiedOK`, `MovedOK`: how far the loops have come; what was copied equals
  the original until the rename, since nothing can be saved in between.
* `AtOK`, `CleanOK`: what may be bound to the destination and what may lie there, so that
  the undoing is complete but for what it could not move or remove; no provider is bound
  to a file of others.
* `MarksOK`: `UnsavedIsMarked`, until the marks are cleared; after that the metadata at the
  destination is complete, and the rename makes it that of the project.

`HomeStep` maps `Rename` to the move, the saving of a file in the present home to `Save`,
and shows that all other steps, among them every failure and the restart, stutter.

`UndoStack_proofs` proves, for any bytes, original data, texts and bounds, that `TypeOK`
and `HighlightsAreChanges` are invariants and that `Spec => HistoryKept`: every step of the
stacks is a step of `EditHistory` or leaves it alone, unless a group mixed operations
whose order matters or an edit reached past the end of the data (the two things undo
really does not cope with).  Assumed is that bytes are numbers with 0 among them, that the
original and the texts are sequences of bytes, texts not empty, and that bounds are
natural numbers.

What undo and redo do is defined by recursion over the parts of a group and over the
stacks.  The prover cannot instantiate the library's induction theorems, which take an
operator as a parameter; `Iteration` does the induction with *sets* of numbers instead:
`Induction` says that a set with 0 in it, and with each number below a bound the next one,
contains all up to the bound (by the least element of those it lacks).  `Runs` states that
a function has the steps of a recursive definition; such a function exists (`Iterates`),
two of them are alike (`SameRun`), so what the definition chooses is that function.
`UndoEntryIs`, `RedoEntryIs`, `BeforeIs`, `AheadIs` and the facts about `FlattenSeq`
follow from it; from then on the proofs speak of the data led through, not of recursion.
The argument is:

* `Joined`: an operation within the data leads from one content to another, doing it again
  keeps the same bytes, and undoing it leads back (`WriteUndone`, `InsertUndone`,
  `RemoveUndone`: the three inverses, byte by byte).
* `Linked`: so do the parts of a group, one after the other; `Reversible`: also the undoing
  of the group, which goes through the parts from the *first* to the last.  For a single
  operation this follows; for a group it is what `OrderMatters` excludes
  (`LinkedUndo` goes back from the last to the first, and the order makes no difference).
* `OnLine`: each entry on both stacks is reversible between the contents next to it, and
  `line` is the series of these contents.  This, with the types, is the invariant
  `KeepsLine`; `AfterGoes` shows that each of the six calls keeps it, and which step of
  the history the call is.  Without `Reversible` for entries *below* the top the induction
  fails: undo uncovers them.
* `IsSaved`, for the highlights: everything on the line that undo and redo can reach
  without going behind the save differs from the saved data in addresses with a first value
  only; those first values are the saved bytes; and the calls the main thread still has to
  make write within the data or resize it first (`Fits`).  The last part is needed
  because a write of several bytes past the end is recorded by the patches view although it
  changes nothing.

`IpsPatch_proofs` proves, for any base and footers, any original data, any files of other
programs and any bound on the edits, that `TypeOK`, `RoundTrip` and `TruncationIsNoticed`
are invariants of `Spec`.  Assumed is that a byte has two values at least, that the footers
are three and four bytes, that data and files are sequences of bytes, and that the data
with all that can be inserted fit into a u64 (without it, the u64 in which a removal is
negated would underflow).  The invariant `IInv` adds to the properties:

* `Typed`: the patches are maps from addresses of 64 bits to bytes, and the data do not
  outgrow what was there and what was inserted.
* `PlainOK`: while only single bytes have been written, applying the patches to the
  original data gives the data.
* `SentOK`: a file that was exported and not yet read begins like the file that the
  patches are written to, and lacks `missing` bytes of it; the patches are among those the
  export accepts.

All of the work is in `ImportStep`, in four parts.  *Numbers*: `NumberOfDigits`, what is
written in digits is read again (`Power` and `Number` are recursive functions; that they
are what they are defined to be follows with `Iteration`).  *Writing*: `WrittenIs`, a file
has a `Layout`, which gives the position `pos[a]` behind the records of all addresses below
`a`, by induction over the addresses.  *An iteration*: a reader at `pos[a]` with the patches
below `a` reads the numbers of the record written there (`RecordFound`) and ends up behind
it with the patches below the next hole (`Advance`).  It sees the footer exactly if it is
behind the last record (`FooterAfter`): behind any other stands an address, which is not the
number of the footer because `Export` has refused such patches (`FooterNotAtRecord`), or the
file ends, and then the bytes compared differ or are those of `EndsInFooter` (`FooterCut`).
A record that was cut is refused, since it would reach into the last three bytes.  *The
loop*: `LoopReaches`, by induction over the iterations the reader is in such a place or has
refused the file; `WholeRead` and `CutRead` say what this makes of a whole file and of one
that was cut.  Every iteration advances, so the iterations suffice for the file.

The proof found that `TruncationIsNoticed` was stated too strongly before: it excepted a
file without its last byte only (see 2.7).

Only model-checked: `SettledMatchesDisk` (which holds in the bounds of its run only, see
3.1), and all liveness properties (`EditsReachDisk`, `ReloadsConsumed`, `ExitTerminates`,
`CallbacksAreCalled`, `RemovedIsDestroyed`, `SaveEnds`, `EventuallySaved`), since liveness
under fairness and `ENABLED` are out of the prover's reach.

## 6. What is not modelled

`PROJECT.json` gives a reason for each component.  Drawing, configuration and
input/output have no state that threads or failures could disturb.  Allocation
failures, exceptions from event handlers, and data races other than by their
outcomes in one step are left out.

## 7. Plan

In this order:

1. `CachedProvider`: readers against `resizeRaw`; abstract specification: a read
   returns bytes the source had.
2. Lock order of the event mutex, `s_providerMutex` and the deferred-call mutex with
   tasks and the MCP thread, which take them in another order.
3. Compositions: `ProviderRegistry` with `TaskManager` (callbacks and closing
   tasks are real ones); `FileBackedData` with a pool whose workers may all be
   busy, for the wait inside event handlers.

Runs: at most one safety and one liveness instance per module, of two or three
actors each, within a few minutes.
