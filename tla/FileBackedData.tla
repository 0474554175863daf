--------------------------- MODULE FileBackedData ---------------------------
(***************************************************************************)
(* FileBackedProviderData<T>: per-provider data (bookmarks, pattern        *)
(* source, hashes ...) that is mirrored in a file.  The main thread edits  *)
(* the data, binds it to files and, at the end of every frame, hands a     *)
(* batch of reads and writes to one background task.  A ChangeTracker per  *)
(* bound file reports changes from a thread of its own.  Anyone may change *)
(* the files.                                                              *)
(*                                                                         *)
(* An absent key of m_entries is represented by FreshEntry, the record     *)
(* getOrCreate would insert.  Clock readings are kept relative to now: the *)
(* age of dirtySince and the time left until m_nextSaveTime.               *)
(***************************************************************************)
EXTENDS Integers, FiniteSets

CONSTANTS
    Providers,      \* keys of m_entries
    Paths,          \* files the user may bind
    Values,         \* values of T
    Contents,       \* file contents
    Default,        \* createDefault()
    EmptyBytes,     \* the empty SerializedData
    Encode,         \* Descriptor::encode
    Decode,         \* Descriptor::decode
    NoValue,        \* nullopt of decode
    NoFile,         \* a path at which no file exists
    NoPath,         \* entry.path without a value
    Debounce,       \* Descriptor::debounce, in ticks
    MaxCalls,       \* bound: calls made by the user
    MaxReload,      \* bound: tracker callbacks of an entry
    MaxExternal,    \* bound: changes of files by other programs
    MaxFaults,      \* bound: failing writes and reads
    FaultKinds,     \* which of "read", "write" may fail
    MaxMoves        \* bound: project entries moved or deleted in the sidebar

ASSUME FileAssumption ==
    /\ Default \in Values
    /\ EmptyBytes \in Contents
    /\ NoValue \notin Values
    /\ NoFile \notin Contents
    /\ NoPath \notin Paths

ASSUME CodecAssumption ==
    /\ Encode \in [Values -> Contents]
    /\ Decode \in [Contents -> Values \union {NoValue}]
    /\ \A v \in Values : Decode[Encode[v]] = v

ASSUME BoundAssumption ==
    /\ Debounce \in Nat
    /\ MaxCalls \in Nat
    /\ MaxReload \in Nat
    /\ MaxExternal \in Nat
    /\ MaxFaults \in Nat
    /\ FaultKinds \subseteq {"read", "write"}
    /\ MaxMoves \in Nat

VARIABLES
    entries,              \* m_entries
    nextSave,             \* m_nextSaveTime
    externalWorkPending,  \* m_externalWorkPending
    running,              \* m_synchronizationTask.isRunning()
    operations,           \* the batch captured by the running task
    results,              \* m_synchronizationResults
    main,                 \* what the main thread is in the middle of
    fileEvents,           \* providers whose tracker has an unreported change
    callback,             \* progress of each tracker's callback
    disk,                 \* the files
    unreported,           \* history: the bound file changed while bind() had
                          \* read it but did not track it yet
    budget,               \* external changes, faults and moves so far
    calls                 \* calls made by the user so far

vars == <<entries, nextSave, externalWorkPending, running, operations, results,
          main, fileEvents, callback, disk, unreported, budget, calls>>

NotDirty == -1      \* dirtySince without a value
Unset    == -1      \* m_nextSaveTime without a value
NoOp == [type |-> "None", path |-> NoPath, revision |-> 0,
         reloadRevision |-> 0, data |-> NoFile, status |-> "waiting"]
NoOperations == [p \in Providers |-> NoOp]
Idle == [at |-> "idle", todo |-> {}, path |-> NoPath, read |-> NoFile]

FreshEntry ==
    [value |-> Default, path |-> NoPath, dirtyAge |-> NotDirty,
     reloadPending |-> FALSE, reloadRevision |-> 0,
     diskSerialized |-> EmptyBytes, missing |-> FALSE, touched |-> FALSE,
     revision |-> 0]

Entry ==
    [value : Values, path : Paths \union {NoPath},
     dirtyAge : {NotDirty} \union (0..Debounce),
     reloadPending : BOOLEAN, reloadRevision : Nat,
     diskSerialized : Contents, missing : BOOLEAN, touched : BOOLEAN,
     revision : Nat]

Operation ==
    [type : {"None", "Read", "Write"}, path : Paths \union {NoPath},
     revision : Nat, reloadRevision : Nat,
     data : Contents \union {NoFile}, status : {"waiting", "ok", "failed"}]

TypeOK ==
    /\ entries \in [Providers -> Entry]
    /\ nextSave \in {Unset} \union (0..Debounce)
    /\ externalWorkPending \in BOOLEAN
    /\ running \in BOOLEAN
    /\ operations \in [Providers -> Operation]
    /\ results \in [Providers -> Operation]
    /\ main \in [at : {"idle", "dispatch", "bind", "flush", "relocate", "unbind"},
                 todo : SUBSET Providers, path : Paths \union {NoPath},
                 read : Contents \union {NoFile}]
    /\ fileEvents \in SUBSET Providers
    /\ callback \in [Providers -> {"idle", "counted", "pended"}]
    /\ disk \in [Paths -> Contents \union {NoFile}]
    /\ unreported \in SUBSET Providers
    /\ budget \in [external : 0..MaxExternal, faults : 0..MaxFaults,
                   moves : 0..MaxMoves]
    /\ calls \in 0..MaxCalls

Bound(e) == e.path # NoPath
Dirty(e) == e.dirtyAge # NotDirty
Due(e)   == e.dirtyAge = Debounce
Remaining(e) == Debounce - e.dirtyAge

Earlier(deadline) ==
    IF nextSave = Unset \/ deadline < nextSave THEN deadline ELSE nextSave

\* Trackers are started exactly for the bound entries.
Watchers(file) == {p \in Providers : entries[p].path = file}

MayFail(kind) == kind \in FaultKinds /\ budget.faults < MaxFaults
Failed == budget' = [budget EXCEPT !.faults = @ + 1]

\* Writing a file, by whomever, is noticed by the trackers watching it.
PutFile(file, contents) ==
    /\ disk' = [disk EXCEPT ![file] = contents]
    /\ fileEvents' = fileEvents \union Watchers(file)

-----------------------------------------------------------------------------
(* Results of the background task                                          *)

\* Mutant: a write that finishes after a newer edit still settles the entry.
MutObsolete(e, r) == ~Bound(e) \/ e.path # r.path
Obsolete(e, r) == ~Bound(e) \/ e.path # r.path \/ e.revision # r.revision

Overtaken(e, r) == Dirty(e) \/ e.reloadRevision # r.reloadRevision

\* Mutant: a finished write leaves the entry marked as edited.
MutAfterWrite(e, r) ==
    IF r.status = "ok"
    THEN [e EXCEPT !.diskSerialized = r.data, !.dirtyAge = NotDirty, !.missing = FALSE]
    ELSE [e EXCEPT !.dirtyAge = 0]
AfterWrite(e, r) ==
    IF r.status = "ok"
    THEN [e EXCEPT !.diskSerialized = r.data, !.dirtyAge = NotDirty,
                   !.touched = FALSE, !.missing = FALSE]
    ELSE [e EXCEPT !.dirtyAge = 0]

AfterFailedRead(e) ==
    IF e.missing THEN e
    ELSE [e EXCEPT !.value = Default, !.diskSerialized = EmptyBytes,
                   !.dirtyAge = NotDirty, !.touched = FALSE, !.missing = TRUE]

\* Mutant: the result of decode is used without looking whether it has a value.
MutAfterRead(e, r) ==
    CASE Overtaken(e, r) -> [e EXCEPT !.reloadPending = TRUE]
      [] ~Overtaken(e, r) /\ r.status # "ok" -> AfterFailedRead(e)
      [] OTHER -> [e EXCEPT !.value = Decode[r.data], !.diskSerialized = r.data,
                            !.missing = FALSE]
AfterRead(e, r) ==
    CASE Overtaken(e, r) -> [e EXCEPT !.reloadPending = TRUE]
      [] ~Overtaken(e, r) /\ r.status # "ok" -> AfterFailedRead(e)
      [] ~Overtaken(e, r) /\ r.status = "ok" /\ r.data = e.diskSerialized -> e
      [] OTHER ->
           IF Decode[r.data] = NoValue
           THEN [e EXCEPT !.diskSerialized = r.data]
           ELSE [e EXCEPT !.value = Decode[r.data], !.diskSerialized = r.data,
                          !.dirtyAge = NotDirty, !.touched = FALSE,
                          !.missing = FALSE]

\* What applySynchronizationResults makes of one entry.
Applied(p) ==
    LET e == entries[p] IN LET r == results[p] IN
    IF r.type = "None" \/ Obsolete(e, r) THEN e
    ELSE IF r.type = "Write" THEN AfterWrite(e, r) ELSE AfterRead(e, r)

Repended(p) ==
    /\ results[p].type = "Read"
    /\ ~Obsolete(entries[p], results[p])
    /\ Overtaken(entries[p], results[p])

AppliedEntries == [p \in Providers |-> Applied(p)]

\* applySynchronizationResults, once the task is known to have finished.
ConsumeResults ==
    /\ results' = NoOperations
    /\ externalWorkPending' =
         (externalWorkPending \/ \E p \in Providers : Repended(p))

\* Mutant: the results are applied without waiting for the task.
MutFinishSynchronization == ConsumeResults
\* finishSynchronization: the main thread blocks until the task has finished
\* and applies its results.  Callers then work on AppliedEntries.
FinishSynchronization == ~running /\ ConsumeResults

-----------------------------------------------------------------------------
(* Operations of the main thread                                           *)

taskVars == <<running, operations>>
fileVars == <<disk, unreported, budget>>

Job(at, todo, path) ==
    IF todo = {} THEN Idle
    ELSE [at |-> at, todo |-> todo, path |-> path, read |-> NoFile]

\* The job goes on with the providers other than p.
JobDone(p) == main' = Job(main.at, main.todo \ {p}, main.path)

\* stopTracking joins the tracker's thread and forgets what it had not seen.
StopTracking(p) == callback[p] = "idle" /\ fileEvents' = fileEvents \ {p}

\* set() and markChanged()
Edit(p, v) ==
    /\ main = Idle
    /\ entries' = [entries EXCEPT
         ![p].value = v, ![p].touched = TRUE, ![p].revision = @ + 1,
         ![p].dirtyAge = IF Bound(entries[p]) THEN 0 ELSE @]
    /\ nextSave' = IF Bound(entries[p]) THEN Earlier(Debounce) ELSE nextSave
    /\ UNCHANGED <<externalWorkPending, taskVars, results, main, fileEvents,
                   callback, fileVars>>

\* bind() up to reading the file: it fails if the file cannot be decoded.
BindRead(p, file) ==
    /\ main = Idle
    /\ FinishSynchronization
    /\ entries' = AppliedEntries
    /\ \/ /\ disk[file] # NoFile => Decode[disk[file]] # NoValue
          /\ main' = [at |-> "bind", todo |-> {p}, path |-> file, read |-> disk[file]]
          /\ unreported' = unreported \ {p}
       \/ /\ disk[file] # NoFile /\ Decode[disk[file]] = NoValue
          /\ UNCHANGED <<main, unreported>>
    /\ UNCHANGED <<nextSave, taskVars, fileEvents, callback, disk, budget>>

\* The rest of bind(): the entry takes the file's data, or is to be written.
BindFinish(p) ==
    /\ main.at = "bind" /\ p \in main.todo
    /\ StopTracking(p)
    /\ entries' = [entries EXCEPT
         ![p].path = main.path, ![p].missing = FALSE, ![p].reloadPending = FALSE,
         ![p].value = IF main.read = NoFile THEN @ ELSE Decode[main.read],
         ![p].diskSerialized = IF main.read = NoFile THEN EmptyBytes ELSE main.read,
         ![p].dirtyAge = IF main.read = NoFile THEN Debounce ELSE NotDirty,
         ![p].touched = main.read = NoFile]
    /\ nextSave' = IF main.read = NoFile THEN 0 ELSE nextSave
    /\ main' = Idle
    /\ UNCHANGED <<externalWorkPending, taskVars, results, callback, fileVars>>

Unbind(p) ==
    /\ main = Idle \/ (main.at = "unbind" /\ p \in main.todo)
    /\ FinishSynchronization
    /\ StopTracking(p)
    /\ entries' = [AppliedEntries EXCEPT
         ![p].path = NoPath, ![p].value = Default, ![p].diskSerialized = EmptyBytes,
         ![p].dirtyAge = NotDirty, ![p].touched = FALSE, ![p].reloadPending = FALSE]
    /\ JobDone(p)
    /\ UNCHANGED <<nextSave, taskVars, callback, fileVars>>

\* flush() visits the bound, touched entries whose file is not missing.
NeedsFlush(e) == Bound(e) /\ ~e.missing /\ e.touched

Flush ==
    /\ main = Idle
    /\ FinishSynchronization
    /\ entries' = AppliedEntries
    /\ main' = Job("flush", {p \in Providers : NeedsFlush(Applied(p))}, NoPath)
    /\ UNCHANGED <<nextSave, taskVars, fileEvents, callback, fileVars>>

\* flush(provider) writes on the main thread.
FlushEntry(p) ==
    /\ main.at = "flush" /\ p \in main.todo
    /\ JobDone(p)
    /\ \/ /\ PutFile(entries[p].path, Encode[entries[p].value])
          /\ entries' = [entries EXCEPT
               ![p].diskSerialized = Encode[entries[p].value],
               ![p].dirtyAge = NotDirty, ![p].touched = FALSE,
               ![p].missing = FALSE]
          /\ UNCHANGED budget
       \/ /\ MayFail("write") /\ Failed
          /\ UNCHANGED <<entries, disk, fileEvents>>
    /\ UNCHANGED <<nextSave, externalWorkPending, taskVars, results, callback,
                   unreported>>

\* moveProjectEntryInternal renames the file and then relocates its bindings.
MoveProjectEntry(from, to) ==
    /\ main = Idle
    /\ budget.moves < MaxMoves
    /\ disk[from] # NoFile /\ disk[to] = NoFile
    /\ disk' = [disk EXCEPT ![to] = disk[from], ![from] = NoFile]
    /\ fileEvents' = fileEvents \union Watchers(from) \union Watchers(to)
    /\ main' = Job("relocate", Watchers(from), to)
    /\ budget' = [budget EXCEPT !.moves = @ + 1]
    /\ UNCHANGED <<entries, nextSave, externalWorkPending, taskVars, results,
                   callback, unreported>>

Relocate(p) ==
    /\ main.at = "relocate" /\ p \in main.todo
    /\ FinishSynchronization
    /\ StopTracking(p)
    /\ entries' = [AppliedEntries EXCEPT
         ![p].path = main.path, ![p].missing = FALSE, ![p].reloadPending = FALSE]
    /\ JobDone(p)
    /\ UNCHANGED <<nextSave, taskVars, callback, fileVars>>

\* deleteProjectEntry removes the file and then unbinds its providers.
DeleteProjectEntry(file) ==
    /\ main = Idle
    /\ budget.moves < MaxMoves
    /\ disk[file] # NoFile
    /\ PutFile(file, NoFile)
    /\ main' = Job("unbind", Watchers(file), NoPath)
    /\ budget' = [budget EXCEPT !.moves = @ + 1]
    /\ UNCHANGED <<entries, nextSave, externalWorkPending, taskVars, results,
                   callback, unreported>>

\* The entry and its tracker follow the data to the provider that replaces
\* the one it belonged to; what the new provider had is dropped.
MovePerProviderData(from, to) ==
    /\ main = Idle /\ from # to
    /\ FinishSynchronization
    /\ callback[to] = "idle"
    /\ entries' = [AppliedEntries EXCEPT ![to] = Applied(from), ![from] = FreshEntry]
    /\ fileEvents' = (fileEvents \ {from, to})
                       \union (IF from \in fileEvents THEN {to} ELSE {})
    /\ callback' = [callback EXCEPT ![to] = callback[from], ![from] = "idle"]
    /\ unreported' = (unreported \ {from, to})
                       \union (IF from \in unreported THEN {to} ELSE {})
    /\ UNCHANGED <<nextSave, taskVars, main, disk, budget>>

\* EventProviderDeleted erases one entry, EventImHexClosing all of them.
Erase(gone) ==
    /\ main = Idle
    /\ \A p \in gone : callback[p] = "idle"
    /\ entries' = [p \in Providers |-> IF p \in gone THEN FreshEntry ELSE entries[p]]
    /\ fileEvents' = fileEvents \ gone
    /\ UNCHANGED <<nextSave, externalWorkPending, taskVars, results, main,
                   callback, fileVars>>

-----------------------------------------------------------------------------
(* synchronize(), at the end of every frame                                *)

\* Its first call applies the results, unless the task is running.
SynchronizeApply ==
    /\ main = Idle
    /\ main' = [Idle EXCEPT !.at = "dispatch"]
    /\ \/ running /\ UNCHANGED <<entries, results, externalWorkPending>>
       \/ ~running /\ ConsumeResults /\ entries' = AppliedEntries
    /\ UNCHANGED <<nextSave, taskVars, fileEvents, callback, fileVars>>

Readable(e) == Bound(e) /\ ~Dirty(e) /\ e.reloadPending
Writable(e) == Bound(e) /\ Due(e)

OperationFor(p) ==
    LET e == entries[p] IN
    IF Readable(e)
    THEN [type |-> "Read", path |-> e.path, revision |-> e.revision,
          reloadRevision |-> e.reloadRevision, data |-> NoFile, status |-> "waiting"]
    ELSE IF Writable(e)
    THEN [type |-> "Write", path |-> e.path, revision |-> e.revision,
          reloadRevision |-> 0, data |-> Encode[e.value], status |-> "waiting"]
    ELSE NoOp

DirtyProviders == {p \in Providers : Dirty(entries[p])}

\* Mutant: the timer is armed for the entries this pass does not write.
MutRearm ==
    LET waiting == {p \in DirtyProviders : ~Due(entries[p])} IN
    \/ waiting = {} /\ nextSave' = Unset
    \/ \E p \in waiting :
          /\ \A q \in waiting : Remaining(entries[p]) =< Remaining(entries[q])
          /\ nextSave' = Remaining(entries[p])
\* The timer is armed for the earliest deadline of any dirty entry.
Rearm ==
    \/ DirtyProviders = {} /\ nextSave' = Unset
    \/ \E p \in DirtyProviders :
          /\ \A q \in DirtyProviders : Remaining(entries[p]) =< Remaining(entries[q])
          /\ nextSave' = Remaining(entries[p])

\* The second look at the task, the gate and the batch.  The exchanges of the
\* atomics commute with the callbacks, so the pass over the entries is one step.
SynchronizeDispatch ==
    /\ main.at = "dispatch"
    /\ main' = Idle
    /\ \/ /\ running \/ (~externalWorkPending /\ (nextSave = Unset \/ nextSave > 0))
          /\ UNCHANGED <<entries, nextSave, externalWorkPending, taskVars>>
       \/ /\ ~running /\ (externalWorkPending \/ nextSave = 0)
          /\ externalWorkPending' = FALSE
          /\ Rearm
          /\ entries' = [p \in Providers |->
               IF Readable(entries[p])
               THEN [entries[p] EXCEPT !.reloadPending = FALSE] ELSE entries[p]]
          /\ operations' = [p \in Providers |-> OperationFor(p)]
          /\ running' = (\E p \in Providers : OperationFor(p).type # "None")
    /\ UNCHANGED <<results, fileEvents, callback, fileVars>>

-----------------------------------------------------------------------------
(* The background task                                                     *)

Complete(p, status, data) ==
    operations' = [operations EXCEPT ![p].status = status, ![p].data = data]

Perform(p) ==
    LET op == operations[p] IN
    /\ running /\ op.status = "waiting"
    /\ \/ /\ op.type = "Read"
          /\ \/ /\ disk[op.path] # NoFile
                /\ Complete(p, "ok", disk[op.path])
                /\ UNCHANGED budget
             \/ /\ disk[op.path] = NoFile
                /\ Complete(p, "failed", NoFile)
                /\ UNCHANGED budget
             \/ /\ disk[op.path] # NoFile /\ MayFail("read") /\ Failed
                /\ Complete(p, "failed", NoFile)
          /\ UNCHANGED <<disk, fileEvents>>
       \/ /\ op.type = "Write"
          /\ \/ PutFile(op.path, op.data) /\ Complete(p, "ok", op.data)
                /\ UNCHANGED budget
             \/ MayFail("write") /\ Failed /\ Complete(p, "failed", op.data)
                /\ UNCHANGED <<disk, fileEvents>>
    /\ UNCHANGED <<entries, nextSave, externalWorkPending, running, results, main,
                   callback, unreported>>

\* The task publishes its batch and ends; nobody looks at the results before.
FinishTask ==
    /\ running
    /\ \A p \in Providers : operations[p].type # "None" => operations[p].status # "waiting"
    /\ results' = operations
    /\ operations' = NoOperations
    /\ running' = FALSE
    /\ UNCHANGED <<entries, nextSave, externalWorkPending, main, fileEvents,
                   callback, fileVars>>

-----------------------------------------------------------------------------
(* ChangeTracker's callback, on the tracker's thread                       *)

CallbackCount(p) ==
    /\ p \in fileEvents /\ callback[p] = "idle"
    /\ entries[p].reloadRevision < MaxReload
    /\ fileEvents' = fileEvents \ {p}
    /\ callback' = [callback EXCEPT ![p] = "counted"]
    /\ entries' = [entries EXCEPT ![p].reloadRevision = @ + 1]
    /\ UNCHANGED <<nextSave, externalWorkPending, taskVars, results, main, fileVars>>

CallbackPend(p) ==
    /\ callback[p] = "counted"
    /\ callback' = [callback EXCEPT ![p] = "pended"]
    /\ entries' = [entries EXCEPT ![p].reloadPending = TRUE]
    /\ UNCHANGED <<nextSave, externalWorkPending, taskVars, results, main,
                   fileEvents, fileVars>>

\* Mutant: the callback marks its entry but does not announce the work.
MutCallbackFlag(p) ==
    /\ callback[p] = "pended"
    /\ callback' = [callback EXCEPT ![p] = "idle"]
    /\ UNCHANGED <<entries, nextSave, externalWorkPending, taskVars, results, main,
                   fileEvents, fileVars>>
CallbackFlag(p) ==
    /\ callback[p] = "pended"
    /\ callback' = [callback EXCEPT ![p] = "idle"]
    /\ externalWorkPending' = TRUE
    /\ UNCHANGED <<entries, nextSave, taskVars, results, main, fileEvents, fileVars>>

-----------------------------------------------------------------------------
(* The environment                                                         *)

\* Another program writes, creates or removes a file.
ExternalChange(file, contents) ==
    /\ budget.external < MaxExternal
    /\ disk[file] # contents
    /\ PutFile(file, contents)
    /\ unreported' = (unreported \ Watchers(file))
         \union (IF main.at = "bind" /\ main.path = file THEN main.todo ELSE {})
    /\ budget' = [budget EXCEPT !.external = @ + 1]
    /\ UNCHANGED <<entries, nextSave, externalWorkPending, taskVars, results, main,
                   callback>>

Tick ==
    /\ nextSave > 0 \/ \E p \in DirtyProviders : ~Due(entries[p])
    /\ nextSave' = IF nextSave > 0 THEN nextSave - 1 ELSE nextSave
    /\ entries' = [p \in Providers |->
         IF Dirty(entries[p]) /\ ~Due(entries[p])
         THEN [entries[p] EXCEPT !.dirtyAge = @ + 1] ELSE entries[p]]
    /\ UNCHANGED <<externalWorkPending, taskVars, results, main, fileEvents,
                   callback, fileVars>>

-----------------------------------------------------------------------------
Init ==
    /\ entries = [p \in Providers |-> FreshEntry]
    /\ nextSave = Unset
    /\ externalWorkPending = FALSE
    /\ running = FALSE
    /\ operations = NoOperations
    /\ results = NoOperations
    /\ main = Idle
    /\ fileEvents = {}
    /\ callback = [p \in Providers |-> "idle"]
    /\ disk \in [Paths -> Contents \union {NoFile}]
    /\ unreported = {}
    /\ budget = [external |-> 0, faults |-> 0, moves |-> 0]
    /\ calls = 0

UserStep ==
    \/ \E p \in Providers, v \in Values : Edit(p, v)
    \/ \E p \in Providers, f \in Paths : BindRead(p, f)
    \/ \E p \in Providers : main = Idle /\ Unbind(p)
    \/ Flush
    \/ \E f, g \in Paths : MoveProjectEntry(f, g)
    \/ \E f \in Paths : DeleteProjectEntry(f)
    \/ \E p, q \in Providers : MovePerProviderData(p, q)
    \/ \E p \in Providers : Erase({p})
    \/ Erase(Providers)

JobStep ==
    \/ \E p \in Providers : BindFinish(p)
    \/ \E p \in Providers : FlushEntry(p)
    \/ \E p \in Providers : Relocate(p)
    \/ \E p \in Providers : main.at = "unbind" /\ Unbind(p)

FrameEnd == SynchronizeApply \/ SynchronizeDispatch

TaskStep == (\E p \in Providers : Perform(p)) \/ FinishTask

TrackerStep(p) == CallbackCount(p) \/ CallbackPend(p) \/ CallbackFlag(p)

UserCall == calls < MaxCalls /\ calls' = calls + 1 /\ UserStep

Reaction ==
    /\ UNCHANGED calls
    /\ \/ JobStep \/ FrameEnd \/ TaskStep
       \/ \E p \in Providers : TrackerStep(p)
       \/ \E f \in Paths, c \in Contents \union {NoFile} : ExternalChange(f, c)
       \/ Tick

Next == UserCall \/ Reaction

Spec == Init /\ [][Next]_vars

\* The main loop returns from every call and ends every frame, however much the
\* user does in it (hence SF); workers run their task, trackers report, time
\* passes.  Users, other programs and faults owe nothing.
Fairness ==
    /\ SF_vars(FrameEnd /\ UNCHANGED calls) /\ WF_vars(JobStep /\ UNCHANGED calls)
    /\ WF_vars(TaskStep /\ UNCHANGED calls) /\ WF_vars(Tick /\ UNCHANGED calls)
    /\ \A p \in Providers : WF_vars(TrackerStep(p) /\ UNCHANGED calls)

FairSpec == Spec /\ Fairness

-----------------------------------------------------------------------------
(* Properties                                                              *)

\* What is under way for p: the captured batch until it is published.
InFlight(p) == IF running THEN operations[p] ELSE results[p]

\* A dirty entry has the save timer armed no later than its own deadline, so
\* that no autosave, and no retry after a failed write, is forgotten.
SaveArmed ==
    \A p \in Providers : Dirty(entries[p]) =>
        nextSave \in 0..Remaining(entries[p])

\* A reported change of a clean entry's file will be looked at: synchronize()
\* is going to pass its gate, or the callback is about to make it.
ReloadArmed ==
    \A p \in Providers :
        Bound(entries[p]) /\ ~Dirty(entries[p]) /\ entries[p].reloadPending =>
            externalWorkPending \/ nextSave # Unset \/ callback[p] = "pended"

\* For a bound entry hasPendingData(), which the user is asked about, and the
\* autosave timer tell the same: touched and dirtySince agree.
TouchedMeansDirty ==
    \A p \in Providers :
        Bound(entries[p]) => (entries[p].touched <=> Dirty(entries[p]))

\* A write that has not reached the disk yet goes to the file of its entry and
\* carries the current value, unless a newer edit still waits to be saved: the
\* background task never overwrites what flush() has just written.
NoStaleWrite ==
    \A p \in Providers :
        LET e == entries[p] IN LET op == operations[p] IN
        running /\ op.type = "Write" /\ op.status = "waiting" /\ Bound(e) =>
            /\ op.path = e.path
            /\ e.touched
            /\ op.revision = e.revision => op.data = Encode[e.value]

\* Nothing is under way for p: no edit to save, no change to load.
Quiet(p) ==
    /\ ~Dirty(entries[p]) /\ ~entries[p].reloadPending
    /\ operations[p].type = "None" /\ results[p].type = "None"
    /\ p \notin fileEvents /\ callback[p] = "idle"
    /\ p \notin unreported /\ p \notin main.todo

\* An entry with nothing under way holds what its file holds: the last decodable
\* contents if the file exists, the default value of a missing file otherwise.
SettledMatchesDisk ==
    \A p \in Providers :
        LET e == entries[p] IN
        Bound(e) /\ Quiet(p) =>
            IF disk[e.path] = NoFile
            THEN e.missing /\ e.value = Default
            ELSE /\ e.diskSerialized = disk[e.path]
                 /\ Decode[disk[e.path]] \in {e.value, NoValue}

\* An edit of a bound entry reaches its file (now, or another program has since
\* overwritten what was written), unless the edit is replaced or the entry is
\* bound anew or unbound first.
EditsReachDisk ==
    \A p \in Providers, v \in Values :
        (Bound(entries[p]) /\ entries[p].touched /\ entries[p].value = v)
        ~> \/ ~Bound(entries[p]) \/ entries[p].value # v
           \/ Encode[v] \in {disk[entries[p].path], entries[p].diskSerialized}
           \/ main.at = "bind" /\ p \in main.todo

\* A reported change of a file is eventually read, unless frames end so that
\* the task always finishes between the two looks synchronize() takes at it.
ReloadsConsumed ==
    []<>(main = Idle /\ ~running) =>
        \A p \in Providers : entries[p].reloadPending ~> ~entries[p].reloadPending
=============================================================================
