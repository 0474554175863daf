------------------------ MODULE ProjectAutosave_proofs -----------------------
(***************************************************************************)
(* The safety properties of ProjectAutosave, for any providers, settings   *)
(* and bounds: an inductive invariant about the flags, the snapshot of the *)
(* task, and what the task and a store have written so far.                *)
(***************************************************************************)
EXTENDS ProjectAutosave, TLAPS

(* The inductive invariant                                                 *)

\* The flags are about members of the project, and a removal rewrites the other files.
FlagsOK ==
    /\ closed \subseteq project
    /\ flags.dirty \subseteq project /\ flags.removed \intersect project = {}
    /\ flags.removed # {} => flags.manifest /\ flags.assoc
    /\ ~folder => project = {} /\ pending = {} /\ flags = Clean

\* Who writes holds the storage mutex; an untouched snapshot has a task that ends.
LockOK ==
    /\ task.at \in {"writing", "written"} => storage = "task"
    /\ main.at = "storing" => storage = "main"
    /\ task.ok => task.at \notin {"created", "writing"}
    /\ ~task.moved => saving /\ folder /\ main.at = "frame"

\* A snapshot since which nothing was scheduled is one of the present state, but for
\* settings that changed silently.
FreshOK ==
    ~task.moved =>
        LET s == task.snapshot
        IN  /\ \A id \in Ids :
                  IF id \in (flags.dirty \intersect project) \ flags.removed
                  THEN s.settings[id] # None /\ (id \notin silent => s.settings[id] = settings[id])
                  ELSE s.settings[id] = None
            /\ s.removed = flags.removed
            /\ s.manifest =
                  IF flags.manifest \/ flags.removed # {}
                  THEN [providers |-> project \ flags.removed, closed |-> closed \ flags.removed]
                  ELSE None
            /\ s.assoc = IF flags.assoc \/ flags.removed # {}
                         THEN assoc \intersect (project \ flags.removed) ELSE None

\* UnmarkedIsSaved, which holds at every point of a save and of a store; settings that
\* changed silently have a file at least.
SavedOK ==
    folder =>
        /\ \A id \in project \ (flags.dirty \union silent) : disk.settings[id] = settings[id]
        /\ \A id \in project \ flags.dirty : disk.settings[id] # None
        /\ ~flags.manifest => disk.manifest = [providers |-> project, closed |-> closed]
        /\ ~flags.assoc
               => (disk.assoc \intersect project) \ late = (assoc \intersect project) \ late

\* The settings file of one provider.
SettingsWrite(id, value) == [file |-> "settings", id |-> id, value |-> value]
\* Whatever a snapshot contains is in the files or still to be written.
SoFar(s, todo) ==
    /\ \A id \in Ids : s.settings[id] # None =>
          disk.settings[id] = s.settings[id] \/ SettingsWrite(id, s.settings[id]) \in todo[1]
    /\ s.assoc # None => disk.assoc = s.assoc \/ todo[2] # {}
    /\ s.manifest # None => disk.manifest = s.manifest \/ todo[3] # {}

\* The task writes only what is marked, and a provider's settings before the manifest.
WritingOK ==
    task.at = "writing" =>
        LET s == task.snapshot
        IN  /\ SoFar(s, task.todo)
            /\ task.todo[1] \subseteq SettingsWrites(s.settings, Ids)
            /\ task.todo[2] \subseteq AssociationsWrite(s.assoc)
            /\ task.todo[3] \subseteq ManifestWrite(s.manifest)
            /\ task.todo[4] \subseteq Removals(s.removed)
            /\ \A id \in Ids : s.settings[id] # None \/ id \in s.removed
                   => id \in flags.dirty \/ id \notin project
            /\ \A id \in s.removed : s.settings[id] = None
            /\ s.manifest # None => flags.manifest
            /\ s.assoc # None => flags.assoc
            /\ s.removed # {} => s.manifest # None
            /\ s.manifest # None =>
                  /\ s.manifest.closed \subseteq s.manifest.providers
                  /\ s.manifest.providers \intersect s.removed = {}
                  /\ \A id \in s.manifest.providers :
                        disk.settings[id] # None \/ s.settings[id] # None

\* What a finished task has written stays until something is scheduled.
WrittenOK == task.ok /\ ~task.moved => SoFar(task.snapshot, Nothing)

\* A store writes the present memory, which nothing changes meanwhile.
StoringOK ==
    main.at = "storing" =>
        /\ \A id \in project : disk.settings[id] = settings[id]
               \/ SettingsWrite(id, settings[id]) \in main.todo[1]
        /\ disk.manifest = [providers |-> project, closed |-> closed] \/ main.todo[2] # {}
        /\ disk.assoc = assoc \intersect project \/ main.todo[3] # {}
        /\ main.todo[1] \subseteq SettingsWrites(settings, project)
        /\ main.todo[2] \subseteq ManifestWrite([providers |-> project, closed |-> closed])
        /\ main.todo[3] \subseteq AssociationsWrite(assoc \intersect project)
        /\ main.todo[4] = {}

IInv ==
    /\ TypeOK /\ FlagsOK /\ LockOK /\ FreshOK /\ SavedOK /\ WritingOK /\ WrittenOK /\ StoringOK
    /\ MarkedIsScheduled /\ ManifestIsReadable

-----------------------------------------------------------------------------
(* Lemmas about the operators                                              *)

FlagsType == [dirty : SUBSET Ids, removed : SUBSET Ids, manifest : BOOLEAN, assoc : BOOLEAN]
TaskType == [at : {"none", "created", "writing", "written", "released", "posted"},
             moved : BOOLEAN, ok : BOOLEAN, snapshot : Snapshot, todo : Plan]
MainType == [at : {"frame", "store", "storing"}, deferred : BOOLEAN, todo : Plan]
DiskType == [settings : [Ids -> Settings \union {None}], manifest : Manifest, assoc : SUBSET Ids]
BudgetType == [edits : 0..MaxEdits, accidents : 0..MaxAccidents]

\* What stands for no file is no value of one.
LEMMA Values ==
    /\ None \notin Settings
    /\ \A m \in Manifest : m # None
    /\ \A ids \in SUBSET Ids : ids # None
  BY AutosaveAssumption

\* The type invariant with the types of the records by name.
LEMMA Types ==
    TypeOK <=>
        /\ folder \in BOOLEAN /\ saving \in BOOLEAN /\ failed \in BOOLEAN
        /\ open \subseteq Ids /\ project \subseteq Ids /\ closed \subseteq Ids
        /\ assoc \subseteq Ids /\ used \subseteq Ids /\ bound \subseteq Ids
        /\ pending \subseteq Ids /\ late \subseteq Ids /\ silent \subseteq Ids
        /\ settings \in [Ids -> Settings]
        /\ flags \in FlagsType /\ task \in TaskType /\ main \in MainType
        /\ disk \in DiskType /\ budget \in BudgetType
        /\ deadline \in {"none", "armed", "due"} /\ storage \in {"free", "task", "main"}
        /\ calls \in Seq({"saved", "store"})
  BY DEF TypeOK, FlagsType, TaskType, MainType, DiskType, BudgetType

\* The type invariant of the next state, field by field.
LEMMA TypeStep ==
    ASSUME folder' \in BOOLEAN, saving' \in BOOLEAN, failed' \in BOOLEAN,
           open' \subseteq Ids, project' \subseteq Ids, closed' \subseteq Ids, assoc' \subseteq Ids,
           used' \subseteq Ids, bound' \subseteq Ids, pending' \subseteq Ids, late' \subseteq Ids,
           silent' \subseteq Ids, settings' \in [Ids -> Settings],
           flags' \in FlagsType, task' \in TaskType, main' \in MainType,
           disk' \in DiskType, budget' \in BudgetType,
           deadline' \in {"none", "armed", "due"}, storage' \in {"free", "task", "main"},
           calls' \in Seq({"saved", "store"})
    PROVE  TypeOK'
  BY DEF TypeOK, FlagsType, TaskType, MainType, DiskType, BudgetType

\* Spending keeps within the bounds.
LEMMA SpendType ==
    ASSUME budget \in BudgetType, NEW what \in {"edits", "accidents"}, Spend(what)
    PROVE  budget' \in BudgetType
<1>1. MaxEdits \in Nat /\ MaxAccidents \in Nat
  BY AutosaveAssumption
<1> QED BY <1>1 DEF BudgetType, Spend

\* A task that was overtaken is otherwise the same.
LEMMA MovedTask ==
    ASSUME task \in TaskType, Moved
    PROVE  /\ task' \in TaskType
           /\ task'.moved = TRUE
           /\ task'.at = task.at /\ task'.ok = task.ok
           /\ task'.snapshot = task.snapshot /\ task'.todo = task.todo
  BY DEF TaskType, Moved

\* A plan without a file, and the files it has in each of its stages.
LEMMA Plans ==
    /\ Nothing \in Plan
    /\ Nothing[1] = {} /\ Nothing[2] = {} /\ Nothing[3] = {} /\ Nothing[4] = {}
    /\ \A todo \in Plan : todo[1] = {} /\ todo[2] = {} /\ todo[3] = {} /\ todo[4] = {}
           => todo = Nothing
    /\ \A s1, s2, s3, s4 \in SUBSET Write : <<s1, s2, s3, s4>> \in Plan
<1>1. Stages = {1, 2, 3, 4}
  BY DEF Stages
<1>2. Nothing \in Plan
  BY <1>1 DEF Nothing, Plan
<1>3. ASSUME NEW todo \in Plan, todo[1] = {}, todo[2] = {}, todo[3] = {}, todo[4] = {}
      PROVE  todo = Nothing
  BY <1>1, <1>2, <1>3 DEF Nothing, Plan
<1>4. \A s1, s2, s3, s4 \in SUBSET Write : <<s1, s2, s3, s4>> \in Plan
  BY <1>1 DEF Plan
<1> QED BY <1>1, <1>2, <1>3, <1>4 DEF Nothing

\* A plan consists of files to write.
LEMMA PlanStages ==
    ASSUME NEW todo \in Plan
    PROVE  /\ todo[1] \subseteq Write /\ todo[2] \subseteq Write
           /\ todo[3] \subseteq Write /\ todo[4] \subseteq Write
  BY DEF Plan, Stages

\* A file is written when all stages before its own are.
LEMMA ReadyStage ==
    ASSUME NEW todo \in Plan, NEW w \in Ready(todo)
    PROVE  /\ w \in Write
           /\ \/ w \in todo[1]
              \/ w \in todo[2] /\ todo[1] = {}
              \/ w \in todo[3] /\ todo[1] = {} /\ todo[2] = {}
              \/ w \in todo[4] /\ todo[1] = {} /\ todo[2] = {} /\ todo[3] = {}
  BY DEF Ready, Plan, Stages

\* What is left of each stage when one file has been written.
LEMMA WithoutStages ==
    ASSUME NEW todo \in Plan, NEW w
    PROVE  /\ Without(todo, w) \in Plan
           /\ Without(todo, w)[1] = todo[1] \ {w} /\ Without(todo, w)[2] = todo[2] \ {w}
           /\ Without(todo, w)[3] = todo[3] \ {w} /\ Without(todo, w)[4] = todo[4] \ {w}
  BY DEF Without, Plan, Stages

\* Writing a file changes that file.
LEMMA WriteEffect ==
    ASSUME disk \in DiskType, NEW w \in Write, disk' = Written(w)
    PROVE  /\ disk' \in DiskType
           /\ w.file = "settings" =>
                /\ w.id \in Ids /\ w.value \in Settings \union {None}
                /\ disk'.manifest = disk.manifest /\ disk'.assoc = disk.assoc
                /\ \A id \in Ids : disk'.settings[id] =
                       IF id = w.id THEN w.value ELSE disk.settings[id]
           /\ w.file = "manifest" =>
                /\ disk'.settings = disk.settings /\ disk'.assoc = disk.assoc
                /\ disk'.manifest = w.value
           /\ w.file = "associations" =>
                /\ disk'.settings = disk.settings /\ disk'.manifest = disk.manifest
                /\ disk'.assoc = w.ids
<1>1. CASE w.file = "settings"
  <2>1. w.id \in Ids /\ w.value \in Settings \union {None}
    BY <1>1 DEF Write
  <2>2. disk' = [disk EXCEPT !.settings[w.id] = w.value]
    BY <1>1 DEF Written
  <2> QED BY <1>1, <2>1, <2>2 DEF DiskType
<1>2. CASE w.file = "manifest"
  <2>1. w.value \in Manifest
    BY <1>2 DEF Write
  <2>2. disk' = [disk EXCEPT !.manifest = w.value]
    BY <1>2 DEF Written
  <2> QED BY <1>2, <2>1, <2>2 DEF DiskType
<1>3. CASE w.file = "associations"
  <2>1. w.ids \subseteq Ids
    BY <1>3 DEF Write
  <2>2. disk' = [disk EXCEPT !.assoc = w.ids]
    BY <1>3 DEF Written
  <2> QED BY <1>3, <2>1, <2>2 DEF DiskType
<1> QED BY <1>1, <1>2, <1>3 DEF Write

\* What the operators of a plan's stages contain.
LEMMA SettingsWritesAre ==
    ASSUME NEW values \in [Ids -> Settings \union {None}], NEW ids \in SUBSET Ids
    PROVE  /\ SettingsWrites(values, ids) \subseteq Write
           /\ \A w \in SettingsWrites(values, ids) :
                /\ w.file = "settings" /\ w.id \in ids /\ w.value = values[w.id] /\ w.value # None
                /\ w = SettingsWrite(w.id, values[w.id])
           /\ \A id \in ids : values[id] # None
                  => SettingsWrite(id, values[id]) \in SettingsWrites(values, ids)
<1>1. ASSUME NEW id \in Ids, values[id] # None
      PROVE  SettingsWrite(id, values[id])
                \in [file : {"settings"}, id : Ids, value : Settings \union {None}]
  BY <1>1 DEF SettingsWrite
<1>2. SettingsWrites(values, ids)
          = {SettingsWrite(id, values[id]) : id \in {i \in ids : values[i] # None}}
  BY DEF SettingsWrites, SettingsWrite
<1>3. \A id \in Ids : LET w == SettingsWrite(id, values[id])
                     IN  w.file = "settings" /\ w.id = id /\ w.value = values[id]
  BY DEF SettingsWrite
<1> QED BY <1>1, <1>2, <1>3 DEF Write

\* Removing settings files writes nothing else.
LEMMA RemovalsAre ==
    ASSUME NEW ids \in SUBSET Ids
    PROVE  /\ Removals(ids) \subseteq Write
           /\ \A w \in Removals(ids) : w.file = "settings" /\ w.id \in ids /\ w.value = None
  BY DEF Removals, Write

\* The stage of the manifest writes the one given, or nothing.
LEMMA ManifestWriteIs ==
    ASSUME NEW m \in Manifest \union {None}
    PROVE  /\ ManifestWrite(m) \subseteq Write
           /\ \A w \in ManifestWrite(m) : w.file = "manifest" /\ w.value = m /\ m # None
           /\ m # None => ManifestWrite(m) # {}
<1>1. CASE m = None
  BY <1>1 DEF ManifestWrite
<1>2. CASE m # None
  <2>1. ManifestWrite(m) = {[file |-> "manifest", value |-> m]}
    BY <1>2 DEF ManifestWrite
  <2>2. [file |-> "manifest", value |-> m] \in [file : {"manifest"}, value : Manifest]
    BY <1>2
  <2> QED BY <1>2, <2>1, <2>2 DEF Write
<1> QED BY <1>1, <1>2

\* The stage of the associations writes those given, or nothing.
LEMMA AssociationsWriteIs ==
    ASSUME NEW a \in (SUBSET Ids) \union {None}
    PROVE  /\ AssociationsWrite(a) \subseteq Write
           /\ \A w \in AssociationsWrite(a) : w.file = "associations" /\ w.ids = a /\ a # None
           /\ a # None => AssociationsWrite(a) # {}
<1>1. CASE a = None
  BY <1>1 DEF AssociationsWrite
<1>2. CASE a # None
  <2>1. AssociationsWrite(a) = {[file |-> "associations", ids |-> a]}
    BY <1>2 DEF AssociationsWrite
  <2>2. [file |-> "associations", ids |-> a] \in [file : {"associations"}, ids : SUBSET Ids]
    <3>1. a \in SUBSET Ids
      BY <1>2
    <3> QED BY <3>1
  <2> QED BY <1>2, <2>1, <2>2 DEF Write
<1> QED BY <1>1, <1>2

\* The parts of a snapshot.
LEMMA SnapshotParts ==
    ASSUME TypeOK, NEW f \in FlagsType, NEW files \in SUBSET Ids
    PROVE  /\ SnapshotOf(f, files) \in Snapshot
           /\ \A id \in Ids : SnapshotOf(f, files).settings[id] =
                IF id \in (f.dirty \intersect project) \ f.removed THEN settings[id] ELSE None
           /\ SnapshotOf(f, files).removed = f.removed
           /\ SnapshotOf(f, files).manifest =
                IF f.manifest \/ f.removed # {}
                THEN [providers |-> project \ f.removed, closed |-> closed \ f.removed] ELSE None
           /\ SnapshotOf(f, files).assoc =
                IF f.assoc \/ f.removed # {} THEN files \intersect (project \ f.removed) ELSE None
<1> DEFINE written == (f.dirty \intersect project) \ f.removed
           kept == project \ f.removed
           values == [id \in Ids |-> IF id \in written THEN settings[id] ELSE None]
           manifest == IF f.manifest \/ f.removed # {}
                       THEN [providers |-> kept, closed |-> closed \ f.removed] ELSE None
           names == IF f.assoc \/ f.removed # {} THEN files \intersect kept ELSE None
<1>1. SnapshotOf(f, files)
          = [settings |-> values, removed |-> f.removed, manifest |-> manifest, assoc |-> names]
  BY DEF SnapshotOf
<1>2. values \in [Ids -> Settings \union {None}] /\ f.removed \in SUBSET Ids
  BY Types DEF FlagsType
<1>3. manifest \in Manifest \union {None}
  <2>1. kept \in SUBSET Ids /\ closed \ f.removed \in SUBSET Ids
    BY Types
  <2> QED BY <2>1 DEF Manifest
<1>4. names \in (SUBSET Ids) \union {None}
  BY Types
<1>5. SnapshotOf(f, files) \in Snapshot
  <2> HIDE DEF values, manifest, names
  <2> QED BY <1>1, <1>2, <1>3, <1>4 DEF Snapshot
<1> QED BY <1>1, <1>5

\* When no task saves, the record of the task has its type.
LEMMA NoTaskType == NoTask \in TaskType
<1>1. NoSnapshot \in Snapshot
  <2>1. [id \in Ids |-> None] \in [Ids -> Settings \union {None}] /\ {} \in SUBSET Ids
    OBVIOUS
  <2>2. None \in Manifest \union {None} /\ None \in (SUBSET Ids) \union {None}
    OBVIOUS
  <2> QED BY <2>1, <2>2 DEF NoSnapshot, Snapshot
<1> QED BY <1>1, Plans DEF NoTask, TaskType

\* Nothing marked is a value of the flags.
LEMMA CleanType == Clean \in FlagsType
  BY DEF Clean, FlagsType

\* Materializing only adds associations, and only when data is pending.
LEMMA MaterializeType ==
    ASSUME TypeOK, Materialize
    PROVE  /\ assoc' \subseteq Ids /\ bound' \subseteq Ids /\ pending' \subseteq Ids
           /\ assoc \subseteq assoc' /\ pending' \subseteq pending
           /\ assoc' # assoc => pending # {}
  BY Types DEF Materialize

-----------------------------------------------------------------------------
(* Events                                                                  *)

Untouched == UNCHANGED <<flags, deadline, task, failed>>
Scheduled == folder /\ Moved /\ deadline' = "armed" /\ failed' = FALSE

\* What scheduling a provider, a removal or the associations changes.
LEMMA ScheduleProviderEffect ==
    ASSUME TypeOK, NEW id \in Ids, NEW members, NEW changed \in BOOLEAN,
           ScheduleProvider(id, members, changed)
    PROVE  /\ flags' \in FlagsType /\ task' \in TaskType
           /\ deadline' \in {"none", "armed", "due"} /\ failed' \in BOOLEAN
           /\ folder /\ id \in members =>
                /\ Scheduled
                /\ flags'.dirty = flags.dirty \union {id} /\ flags'.removed = flags.removed \ {id}
                /\ flags'.manifest = (flags.manifest \/ changed) /\ flags'.assoc = flags.assoc
           /\ ~(folder /\ id \in members) => Untouched
           /\ silent' \subseteq silent /\ silent \ {id} \subseteq silent'
           /\ id \notin members => silent' = silent
<1>1. CASE folder /\ id \in members
  <2>1. Scheduled
    BY <1>1 DEF ScheduleProvider, Schedule, Scheduled
  <2>2. flags' = [flags EXCEPT !.dirty = @ \union {id}, !.removed = @ \ {id},
                               !.manifest = @ \/ changed]
    BY <1>1 DEF ScheduleProvider, Schedule
  <2>3. flags \in FlagsType /\ task \in TaskType
    BY Types
  <2>4. /\ flags'.dirty = flags.dirty \union {id} /\ flags'.removed = flags.removed \ {id}
        /\ flags'.manifest = (flags.manifest \/ changed) /\ flags'.assoc = flags.assoc
        /\ flags' \in FlagsType
    BY <2>2, <2>3 DEF FlagsType
  <2>5. silent' = silent \ {id}
    BY <1>1 DEF ScheduleProvider
  <2> QED BY <1>1, <2>1, <2>3, <2>4, <2>5, MovedTask DEF Scheduled
<1>2. CASE ~(folder /\ id \in members)
  BY <1>2, Types DEF ScheduleProvider, Schedule, Untouched
<1> QED BY <1>1, <1>2

\* Removing a provider marks everything but its settings.
LEMMA ScheduleRemovalEffect ==
    ASSUME TypeOK, folder, NEW id \in Ids, ScheduleRemoval(id)
    PROVE  /\ flags' \in FlagsType /\ task' \in TaskType /\ Scheduled
           /\ flags'.dirty = flags.dirty \ {id} /\ flags'.removed = flags.removed \union {id}
           /\ flags'.manifest = TRUE /\ flags'.assoc = TRUE
<1>1. Scheduled /\ flags' = [dirty |-> flags.dirty \ {id}, removed |-> flags.removed \union {id},
                             manifest |-> TRUE, assoc |-> TRUE]
  BY DEF ScheduleRemoval, Schedule, Scheduled
<1>2. flags \in FlagsType /\ task \in TaskType
  BY Types
<1> QED BY <1>1, <1>2, MovedTask DEF FlagsType, Scheduled

\* A change of the associations marks them, and nothing else.
LEMMA ScheduleAssociationsEffect ==
    ASSUME TypeOK, folder, ScheduleAssociations
    PROVE  /\ flags' \in FlagsType /\ task' \in TaskType /\ Scheduled
           /\ flags'.dirty = flags.dirty /\ flags'.removed = flags.removed
           /\ flags'.manifest = flags.manifest /\ flags'.assoc = TRUE
<1>1. Scheduled /\ flags' = [flags EXCEPT !.assoc = TRUE]
  BY DEF ScheduleAssociations, Schedule, Scheduled
<1>2. flags \in FlagsType /\ task \in TaskType
  BY Types
<1> QED BY <1>1, <1>2, MovedTask DEF FlagsType, Scheduled

\* Nothing that a snapshot contains changes, but silently.
Steady ==
    /\ UNCHANGED <<flags, project, closed>>
    /\ silent \subseteq silent'
    /\ \A id \in (flags.dirty \intersect project) \ silent' : settings'[id] = settings[id]
    /\ assoc' \intersect project = assoc \intersect project

\* The snapshot of an untouched task then stays one of the present state.
LEMMA FreshKept ==
    ASSUME FreshOK, Steady,
           task'.moved \/ (task'.moved = task.moved /\ task'.snapshot = task.snapshot)
    PROVE  FreshOK'
<1>1. CASE task'.moved
  BY <1>1 DEF FreshOK
<1>2. CASE ~task'.moved /\ ~task.moved /\ task'.snapshot = task.snapshot
  <2>1. assoc' \intersect (project \ flags.removed) = assoc \intersect (project \ flags.removed)
    BY DEF Steady
  <2> QED BY <1>2, <2>1 DEF FreshOK, Steady
<1> QED BY <1>1, <1>2

\* Whatever an event changes, the invariant is kept when every mark is kept, what is
\* unmarked stays saved, and either an autosave is scheduled or what a snapshot would
\* contain is unchanged.
LEMMA EventKeeps ==
    ASSUME IInv, TypeOK', FlagsOK', SavedOK',
           main.at = "frame", UNCHANGED <<folder, saving, main, storage, disk>>,
           \/ Scheduled
           \/ Untouched /\ Steady,
           \A id \in Ids : id \in flags.dirty \/ id \notin project
                             => id \in flags'.dirty \/ id \notin project',
           flags.manifest => flags'.manifest, flags.assoc => flags'.assoc
    PROVE  IInv'
<1>1. /\ task'.at = task.at /\ task'.ok = task.ok /\ task'.snapshot = task.snapshot
      /\ task'.todo = task.todo
      /\ task' = task \/ task'.moved
  <2>1. CASE Scheduled
    BY <2>1, Types, MovedTask DEF IInv, Scheduled
  <2>2. CASE Untouched
    BY <2>2 DEF Untouched
  <2> QED BY <2>1, <2>2
<1>2. LockOK'
  BY <1>1 DEF IInv, LockOK
<1>3. FreshOK'
  <2>1. CASE Scheduled
    BY <2>1, Types, MovedTask DEF IInv, FreshOK, Scheduled
  <2>2. CASE Untouched /\ Steady
    BY <2>2, FreshKept DEF IInv, Untouched
  <2> QED BY <2>1, <2>2
<1>4. WritingOK'
  BY <1>1 DEF IInv, WritingOK, SoFar
<1>5. WrittenOK'
  BY <1>1 DEF IInv, WrittenOK, SoFar
<1>6. StoringOK'
  BY DEF StoringOK
<1>7. MarkedIsScheduled'
  BY DEF IInv, MarkedIsScheduled, Settled, Scheduled, Untouched
<1>8. ManifestIsReadable'
  BY DEF IInv, ManifestIsReadable
<1> QED BY <1>2, <1>3, <1>4, <1>5, <1>6, <1>7, <1>8 DEF IInv

\* Opening a provider: one that joins the project is marked, and one that does not is no part
\* of a snapshot.
LEMMA OpenProviderStep == ASSUME IInv, NEW id \in Ids, OpenProvider(id) PROVE IInv'
<1> USE DEF IInv
<1>1. /\ main.at = "frame"
      /\ UNCHANGED <<folder, saving, main, storage, calls, disk, assoc, pending>>
      /\ budget' \in BudgetType
      /\ open' = open \union {id} /\ closed' = closed \ {id} /\ used' = used \union {id}
      /\ ScheduleProvider(id, project', TRUE)
  BY SpendType, Types DEF OpenProvider, Event, Frame
<1>2. /\ project' \subseteq project \union {id} /\ project \subseteq project'
      /\ ~folder => project' = project
      /\ settings' \in [Ids -> Settings]
      /\ \A i \in Ids \ {id} : settings'[i] = settings[i]
      /\ id \notin project' \/ id \in project => late' \subseteq Ids /\ late \subseteq late'
      /\ id \in project' \ project =>
            late' \subseteq Ids /\ late \subseteq late'
                /\ ((id \in assoc) # (id \in disk.assoc) => id \in late')
      /\ bound' \subseteq Ids
  BY Types DEF OpenProvider, LateFor
<1>3. /\ flags' \in FlagsType /\ task' \in TaskType
      /\ deadline' \in {"none", "armed", "due"} /\ failed' \in BOOLEAN
      /\ folder /\ id \in project' =>
           /\ Scheduled
           /\ flags'.dirty = flags.dirty \union {id} /\ flags'.removed = flags.removed \ {id}
           /\ flags'.manifest = TRUE /\ flags'.assoc = flags.assoc
      /\ ~(folder /\ id \in project') => Untouched
      /\ silent' \subseteq silent /\ silent \ {id} \subseteq silent'
      /\ id \notin project' => silent' = silent
  BY <1>1, ScheduleProviderEffect
<1>4. TypeOK'
  BY <1>1, <1>2, <1>3, Types, TypeStep
<1>5. FlagsOK'
  BY <1>1, <1>2, <1>3 DEF FlagsOK, Untouched
<1>6. SavedOK'
  <2>1. CASE folder /\ id \in project'
    <3>1. /\ \A i \in project' \ (flags'.dirty \union silent') : disk'.settings[i] = settings'[i]
          /\ \A i \in project' \ flags'.dirty : disk'.settings[i] # None
      BY <1>1, <1>2, <1>3, <2>1, Types DEF SavedOK
    <3>2. ~flags'.assoc =>
            (disk'.assoc \intersect project') \ late' = (assoc' \intersect project') \ late'
      BY <1>1, <1>2, <1>3, <2>1 DEF SavedOK
    <3> QED BY <1>3, <2>1, <3>1, <3>2 DEF SavedOK
  <2>2. CASE folder /\ id \notin project'
    <3>1. project' = project /\ closed' = closed /\ Untouched /\ late \subseteq late'
      BY <1>1, <1>2, <1>3, <2>2 DEF FlagsOK
    <3>2. \A i \in project : settings'[i] = settings[i]
      BY <1>2, <2>2, <3>1, Types
    <3>3. (disk.assoc \intersect project) \ late = (assoc \intersect project) \ late
            => (disk.assoc \intersect project) \ late' = (assoc \intersect project) \ late'
      BY <3>1
    <3>4. silent' = silent
      BY <1>3, <2>2
    <3> QED BY <1>1, <2>2, <3>1, <3>2, <3>3, <3>4 DEF SavedOK, Untouched
  <2>3. CASE ~folder
    BY <1>1, <2>3 DEF SavedOK
  <2> QED BY <2>1, <2>2, <2>3
<1>7. Scheduled \/ (Untouched /\ Steady)
  <2>1. CASE ~(folder /\ id \in project')
    <3>1. id \notin project /\ project' = project /\ closed' = closed
      BY <1>1, <1>2, <2>1 DEF FlagsOK
    <3>2. \A i \in flags.dirty \intersect project : settings'[i] = settings[i]
      BY <1>2, <3>1, Types
    <3>3. silent' = silent
      BY <1>2, <1>3, <2>1, <3>1
    <3> QED BY <1>1, <1>3, <2>1, <3>1, <3>2, <3>3 DEF Untouched, Steady
  <2> QED BY <1>3, <2>1
<1> QED BY <1>1, <1>2, <1>3, <1>4, <1>5, <1>6, <1>7, EventKeeps DEF Untouched

\* Settings that change in the project are marked; others are in no snapshot.
LEMMA ChangeSettingsStep == ASSUME IInv, NEW id \in Ids, ChangeSettings(id) PROVE IInv'
<1> USE DEF IInv
<1>1. /\ main.at = "frame" /\ UNCHANGED <<folder, saving, main, storage, calls, disk>>
      /\ UNCHANGED <<open, project, closed, assoc, used, bound, pending, late>>
      /\ budget' \in BudgetType /\ ScheduleProvider(id, project, FALSE)
  BY SpendType, Types DEF ChangeSettings, Event, Frame
<1>2. settings' \in [Ids -> Settings] /\ \A i \in Ids \ {id} : settings'[i] = settings[i]
  BY Types DEF ChangeSettings
<1>3. /\ flags' \in FlagsType /\ task' \in TaskType
      /\ deadline' \in {"none", "armed", "due"} /\ failed' \in BOOLEAN
      /\ folder /\ id \in project =>
           /\ Scheduled
           /\ flags'.dirty = flags.dirty \union {id} /\ flags'.removed = flags.removed \ {id}
           /\ flags'.manifest = flags.manifest /\ flags'.assoc = flags.assoc
      /\ ~(folder /\ id \in project) => Untouched
      /\ silent' \subseteq silent /\ silent \ {id} \subseteq silent'
      /\ id \notin project => silent' = silent
  BY <1>1, ScheduleProviderEffect, Types DEF FlagsType
<1>4. TypeOK'
  BY <1>1, <1>2, <1>3, Types, TypeStep
<1>5. FlagsOK'
  BY <1>1, <1>3 DEF FlagsOK, Untouched
<1>6. SavedOK'
  BY <1>1, <1>2, <1>3, Types DEF SavedOK, Untouched
<1>7. Scheduled \/ (Untouched /\ Steady)
  <2>1. CASE ~(folder /\ id \in project)
    <3>1. \A i \in flags.dirty \intersect project : settings'[i] = settings[i]
      BY <1>2, <2>1, Types DEF FlagsOK
    <3> QED BY <1>1, <1>3, <2>1, <3>1 DEF Untouched, Steady, FlagsOK
  <2> QED BY <1>3, <2>1
<1> QED BY <1>1, <1>3, <1>4, <1>5, <1>6, <1>7, EventKeeps DEF Untouched

\* Base addresses and pages change without a mark, and nothing else changes.
LEMMA ChangeAddressesStep == ASSUME IInv, NEW id \in Ids, ChangeAddresses(id) PROVE IInv'
<1> USE DEF IInv
<1>1. /\ main.at = "frame" /\ UNCHANGED <<folder, saving, main, storage, calls, disk>>
      /\ UNCHANGED <<open, project, closed, assoc, used, bound, pending, late>>
      /\ Untouched /\ silent' = silent \union ({id} \intersect project)
      /\ budget' \in BudgetType
  BY SpendType, Types DEF ChangeAddresses, Event, Frame, Untouched
<1>2. settings' \in [Ids -> Settings] /\ \A i \in Ids \ {id} : settings'[i] = settings[i]
  BY Types DEF ChangeAddresses
<1>3. TypeOK'
  BY <1>1, <1>2, Types, TypeStep DEF Untouched
<1>4. FlagsOK'
  BY <1>1 DEF FlagsOK, Untouched
<1>5. \A i \in project \ silent' : i \in Ids \ {id} /\ settings'[i] = settings[i]
  BY <1>1, <1>2, Types
<1>6. SavedOK'
  BY <1>1, <1>5 DEF SavedOK, Untouched
<1>7. Steady
  BY <1>1, <1>5 DEF Steady, Untouched
<1> QED BY <1>1, <1>3, <1>4, <1>6, <1>7, EventKeeps DEF Untouched

\* Closing a provider of the project changes the manifest, which is marked.
LEMMA CloseProviderStep == ASSUME IInv, NEW id \in Ids, CloseProvider(id) PROVE IInv'
<1> USE DEF IInv
<1>1. /\ main.at = "frame" /\ UNCHANGED <<folder, saving, main, storage, calls, disk>>
      /\ UNCHANGED <<project, settings, assoc, used, late>>
      /\ open' = open \ {id} /\ bound' = bound \ {id} /\ pending' = pending \ {id}
      /\ closed' = IF folder /\ id \in project THEN closed \union {id} ELSE closed
      /\ budget' \in BudgetType /\ ScheduleProvider(id, project, TRUE)
  BY SpendType, Types DEF CloseProvider, Event, Frame
<1>2. /\ flags' \in FlagsType /\ task' \in TaskType
      /\ deadline' \in {"none", "armed", "due"} /\ failed' \in BOOLEAN
      /\ folder /\ id \in project =>
           /\ Scheduled
           /\ flags'.dirty = flags.dirty \union {id} /\ flags'.removed = flags.removed \ {id}
           /\ flags'.manifest = TRUE /\ flags'.assoc = flags.assoc
      /\ ~(folder /\ id \in project) => Untouched
      /\ silent' \subseteq silent /\ silent \ {id} \subseteq silent'
      /\ id \notin project => silent' = silent
  BY <1>1, ScheduleProviderEffect
<1>3. TypeOK'
  BY <1>1, <1>2, Types, TypeStep
<1>4. FlagsOK'
  BY <1>1, <1>2 DEF FlagsOK, Untouched
<1>5. SavedOK'
  BY <1>1, <1>2, Types DEF SavedOK, Untouched
<1>6. Scheduled \/ (Untouched /\ Steady)
  BY <1>1, <1>2 DEF Untouched, Steady, FlagsOK
<1> QED BY <1>1, <1>2, <1>3, <1>4, <1>5, <1>6, EventKeeps DEF Untouched

\* A provider that joins is marked, and its association is late when the files differ.
LEMMA AddToProjectStep == ASSUME IInv, NEW id \in Ids, AddToProject(id) PROVE IInv'
<1> USE DEF IInv
<1>1. /\ main.at = "frame" /\ UNCHANGED <<folder, saving, main, storage, calls, disk>>
      /\ UNCHANGED <<open, closed, settings, assoc, used, bound, pending>>
      /\ folder /\ project' = project \union {id} /\ late' = late \union LateFor(id)
      /\ budget' \in BudgetType /\ ScheduleProvider(id, project', TRUE)
  BY SpendType, Types DEF AddToProject, Event, Frame
<1>2. /\ flags' \in FlagsType /\ task' \in TaskType /\ Scheduled
      /\ deadline' \in {"none", "armed", "due"} /\ failed' \in BOOLEAN
      /\ flags'.dirty = flags.dirty \union {id} /\ flags'.removed = flags.removed \ {id}
      /\ flags'.manifest = TRUE /\ flags'.assoc = flags.assoc
      /\ silent' \subseteq silent /\ silent \ {id} \subseteq silent'
  <2>1. folder /\ id \in project' /\ ScheduleProvider(id, project', TRUE)
    BY <1>1
  <2>2. /\ flags' \in FlagsType /\ task' \in TaskType
        /\ deadline' \in {"none", "armed", "due"} /\ failed' \in BOOLEAN
        /\ folder /\ id \in project' =>
             /\ Scheduled
             /\ flags'.dirty = flags.dirty \union {id} /\ flags'.removed = flags.removed \ {id}
             /\ flags'.manifest = TRUE /\ flags'.assoc = flags.assoc
        /\ silent' \subseteq silent /\ silent \ {id} \subseteq silent'
    BY <2>1, ScheduleProviderEffect
  <2> QED BY <2>1, <2>2
<1>3. TypeOK'
  BY <1>1, <1>2, Types, TypeStep DEF LateFor
<1>4. FlagsOK'
  BY <1>1, <1>2 DEF FlagsOK
<1>5. SavedOK'
  BY <1>1, <1>2, Types DEF SavedOK, LateFor
<1> QED BY <1>1, <1>2, <1>3, <1>4, <1>5, EventKeeps

\* A provider that leaves is marked as removed, with the manifest and the associations.
LEMMA RemoveFromProjectStep == ASSUME IInv, NEW id \in Ids, RemoveFromProject(id) PROVE IInv'
<1> USE DEF IInv
<1>1. /\ main.at = "frame" /\ UNCHANGED <<folder, saving, main, storage, calls, disk>>
      /\ UNCHANGED <<open, settings, silent, used>>
      /\ folder /\ project' = project \ {id} /\ closed' = closed \ {id}
      /\ assoc' = assoc \ {id} /\ late' = late \ {id}
      /\ bound' \subseteq bound /\ pending' \subseteq pending
      /\ budget' \in BudgetType /\ ScheduleRemoval(id)
  BY SpendType, Types DEF RemoveFromProject, Event, Frame
<1>2. /\ flags' \in FlagsType /\ task' \in TaskType /\ Scheduled
      /\ flags'.dirty = flags.dirty \ {id} /\ flags'.removed = flags.removed \union {id}
      /\ flags'.manifest = TRUE /\ flags'.assoc = TRUE
  BY <1>1, ScheduleRemovalEffect
<1>3. TypeOK'
  BY <1>1, <1>2, Types, TypeStep DEF Scheduled
<1>4. FlagsOK'
  BY <1>1, <1>2 DEF FlagsOK
<1>5. SavedOK'
  BY <1>1, <1>2, Types DEF SavedOK
<1> QED BY <1>1, <1>2, <1>3, <1>4, <1>5, EventKeeps

\* Data that was edited has no association any more; the associations are marked.
LEMMA EditDataStep == ASSUME IInv, NEW id \in Ids, EditData(id) PROVE IInv'
<1> USE DEF IInv
<1>1. /\ main.at = "frame" /\ UNCHANGED <<folder, saving, main, storage, calls, disk>>
      /\ UNCHANGED <<open, project, closed, settings, silent, used, bound, late>>
      /\ folder /\ pending' = pending \union {id} /\ assoc' = assoc \ {id}
      /\ budget' \in BudgetType /\ ScheduleAssociations
  BY SpendType, Types DEF EditData, Event, Frame
<1>2. /\ flags' \in FlagsType /\ task' \in TaskType /\ Scheduled
      /\ flags'.dirty = flags.dirty /\ flags'.removed = flags.removed
      /\ flags'.manifest = flags.manifest /\ flags'.assoc = TRUE
  BY <1>1, ScheduleAssociationsEffect
<1>3. TypeOK'
  BY <1>1, <1>2, Types, TypeStep DEF Scheduled
<1>4. FlagsOK'
  BY <1>1, <1>2 DEF FlagsOK
<1>5. SavedOK'
  BY <1>1, <1>2 DEF SavedOK
<1> QED BY <1>1, <1>2, <1>3, <1>4, <1>5, EventKeeps

\* Data is bound to a file: either the associations are marked or they are the same.
LEMMA BindDataStep == ASSUME IInv, NEW id \in Ids, BindData(id) PROVE IInv'
<1> USE DEF IInv
<1>1. /\ main.at = "frame" /\ UNCHANGED <<folder, saving, main, storage, calls, disk>>
      /\ UNCHANGED <<open, project, closed, settings, silent, used, late>>
      /\ folder /\ bound' = bound \union {id} /\ pending' = pending \ {id}
      /\ assoc' = assoc \union {id}
      /\ budget' \in BudgetType
  BY SpendType, Types DEF BindData, Event, Frame
<1>2. CASE ScheduleAssociations
  <2>1. /\ flags' \in FlagsType /\ task' \in TaskType /\ Scheduled
        /\ flags'.dirty = flags.dirty /\ flags'.removed = flags.removed
        /\ flags'.manifest = flags.manifest /\ flags'.assoc = TRUE
    BY <1>1, <1>2, ScheduleAssociationsEffect
  <2>2. TypeOK'
    BY <1>1, <2>1, Types, TypeStep DEF Scheduled
  <2>3. FlagsOK'
    BY <1>1, <2>1 DEF FlagsOK
  <2>4. SavedOK'
    BY <1>1, <2>1 DEF SavedOK
  <2> QED BY <1>1, <2>1, <2>2, <2>3, <2>4, EventKeeps
<1>3. CASE id \in assoc /\ Untouched
  <2>1. assoc' = assoc /\ UNCHANGED <<flags, deadline, task, failed>>
    BY <1>1, <1>3 DEF Untouched
  <2>2. TypeOK'
    BY <1>1, <2>1, Types, TypeStep
  <2>3. FlagsOK'
    BY <1>1, <2>1 DEF FlagsOK
  <2>4. SavedOK'
    BY <1>1, <2>1 DEF SavedOK
  <2>5. Steady
    BY <1>1, <2>1 DEF Steady
  <2> QED BY <1>1, <1>3, <2>1, <2>2, <2>3, <2>4, <2>5, EventKeeps
<1> QED BY <1>2, <1>3 DEF BindData, Untouched

\* Data that is detached loses its association; the associations are marked.
LEMMA DetachStep == ASSUME IInv, NEW id \in Ids, Detach(id) PROVE IInv'
<1> USE DEF IInv
<1>1. /\ main.at = "frame" /\ UNCHANGED <<folder, saving, main, storage, calls, disk>>
      /\ UNCHANGED <<open, project, closed, settings, silent, used, late>>
      /\ folder /\ bound' = bound \ {id} /\ pending' = pending \ {id}
      /\ assoc' = assoc \ {id}
      /\ budget' \in BudgetType /\ ScheduleAssociations
  BY SpendType, Types DEF Detach, Event, Frame
<1>2. /\ flags' \in FlagsType /\ task' \in TaskType /\ Scheduled
      /\ flags'.dirty = flags.dirty /\ flags'.removed = flags.removed
      /\ flags'.manifest = flags.manifest /\ flags'.assoc = TRUE
  BY <1>1, ScheduleAssociationsEffect
<1>3. TypeOK'
  BY <1>1, <1>2, Types, TypeStep DEF Scheduled
<1>4. FlagsOK'
  BY <1>1, <1>2 DEF FlagsOK
<1>5. SavedOK'
  BY <1>1, <1>2 DEF SavedOK
<1> QED BY <1>1, <1>2, <1>3, <1>4, <1>5, EventKeeps

-----------------------------------------------------------------------------
(* The autosave                                                            *)

\* The deadline passes: nothing else changes.
LEMMA PassesStep == ASSUME IInv, Passes PROVE IInv'
<1> USE DEF IInv, Passes, memory
<1>1. TypeOK'
  BY Types, TypeStep
<1>2. FlagsOK' /\ LockOK' /\ WritingOK' /\ WrittenOK' /\ StoringOK'
  BY DEF FlagsOK, LockOK, WritingOK, WrittenOK, StoringOK, SoFar
<1>3. FreshOK'
  BY FreshKept DEF Steady
<1>4. SavedOK' /\ MarkedIsScheduled' /\ ManifestIsReadable'
  BY DEF SavedOK, MarkedIsScheduled, ManifestIsReadable, Settled
<1> QED BY <1>1, <1>2, <1>3, <1>4

\* A new task's snapshot is taken of what Materialize leaves, with its marks.
LEMMA ProcessScheduledStep == ASSUME IInv, ProcessScheduled PROVE IInv'
<1> USE DEF IInv
<1>1. /\ main.at = "frame" /\ ~saving
      /\ UNCHANGED <<folder, open, project, closed, settings, used, main, storage, calls, disk,
                     failed, late>>
      /\ flags' = [flags EXCEPT !.assoc = @ \/ assoc' # assoc]
      /\ Materialize
  BY DEF ProcessScheduled, Frame
<1>2. /\ flags' \in FlagsType /\ flags'.dirty = flags.dirty /\ flags'.removed = flags.removed
      /\ flags'.manifest = flags.manifest /\ flags'.assoc = (flags.assoc \/ assoc' # assoc)
  BY <1>1, Types DEF FlagsType
<1>3. /\ assoc' \subseteq Ids /\ bound' \subseteq Ids /\ pending' \subseteq Ids
      /\ pending' \subseteq pending /\ (~folder => assoc' = assoc)
  BY <1>1, MaterializeType DEF FlagsOK
<1>4. FlagsOK'
  <2>1. ~folder => flags' = flags
    BY <1>1, <1>2, <1>3, Types DEF FlagsType
  <2> QED BY <1>1, <1>2, <1>3, <2>1 DEF FlagsOK
<1>5. silent' \in {silent, silent \ flags.dirty} => SavedOK'
  BY <1>1, <1>2 DEF SavedOK
<1>6. StoringOK'
  BY <1>1 DEF StoringOK
<1>7. ManifestIsReadable'
  BY <1>1 DEF ManifestIsReadable
<1>8. ASSUME folder, silent' = silent \ flags.dirty, deadline' = "none", saving' = TRUE,
             UNCHANGED budget,
             task' = [at |-> "created", moved |-> FALSE, ok |-> FALSE,
                      snapshot |-> SnapshotOf(flags', assoc'), todo |-> Nothing]
      PROVE  IInv'
  <2>1. SnapshotOf(flags', assoc') \in Snapshot
    BY <1>2, <1>3, SnapshotParts
  <2>2. task' \in TaskType
    BY <1>8, <2>1, Plans DEF TaskType
  <2>3. TypeOK'
    BY <1>1, <1>2, <1>3, <1>8, <2>2, Types, TypeStep
  <2>4. LockOK' /\ WritingOK' /\ WrittenOK'
    BY <1>1, <1>8 DEF LockOK, WritingOK, WrittenOK
  <2>5. FreshOK'
    <3> DEFINE s == SnapshotOf(flags', assoc')
    <3>1. /\ \A id \in Ids : s.settings[id] =
               IF id \in (flags'.dirty \intersect project) \ flags'.removed THEN settings[id]
               ELSE None
          /\ s.removed = flags'.removed
          /\ s.manifest =
               IF flags'.manifest \/ flags'.removed # {}
               THEN [providers |-> project \ flags'.removed, closed |-> closed \ flags'.removed]
               ELSE None
          /\ s.assoc = IF flags'.assoc \/ flags'.removed # {}
                       THEN assoc' \intersect (project \ flags'.removed) ELSE None
      <4>1. flags' \in FlagsType /\ assoc' \in SUBSET Ids
        BY <1>2, <1>3
      <4> QED BY <4>1, SnapshotParts
    <3>2. task'.snapshot = s /\ \A id \in Ids : settings[id] # None
      BY <1>8, Types, Values
    <3> HIDE DEF s
    <3> QED BY <1>1, <3>1, <3>2 DEF FreshOK
  <2>6. MarkedIsScheduled'
    BY <1>8 DEF MarkedIsScheduled
  <2>7. SavedOK'
    BY <1>5, <1>8
  <2> QED BY <1>4, <1>6, <1>7, <2>3, <2>4, <2>5, <2>6, <2>7
<1>9. ASSUME Rearm, UNCHANGED <<saving, task, silent>>, budget' \in BudgetType PROVE IInv'
  <2>1. TypeOK'
    BY <1>1, <1>2, <1>3, <1>9, Types, TypeStep DEF Rearm
  <2>2. LockOK' /\ FreshOK'
    BY <1>1, <1>9 DEF LockOK, FreshOK
  <2>3. WritingOK' /\ WrittenOK'
    BY <1>1, <1>2, <1>9 DEF WritingOK, WrittenOK, SoFar
  <2>4. MarkedIsScheduled'
    BY <1>9 DEF MarkedIsScheduled, Rearm
  <2>5. SavedOK'
    BY <1>5, <1>9
  <2> QED BY <1>4, <1>6, <1>7, <2>1, <2>2, <2>3, <2>4, <2>5
<1>10. budget' \in BudgetType \/ UNCHANGED budget
  BY SpendType, Types DEF ProcessScheduled
<1> QED BY <1>8, <1>9, <1>10, Types DEF ProcessScheduled

\* The stages of a snapshot.
LEMMA SnapshotPlan ==
    ASSUME NEW s \in Snapshot
    PROVE  /\ SnapshotWrites(s) \in Plan
           /\ SnapshotWrites(s)[1] = SettingsWrites(s.settings, Ids)
           /\ SnapshotWrites(s)[2] = AssociationsWrite(s.assoc)
           /\ SnapshotWrites(s)[3] = ManifestWrite(s.manifest)
           /\ SnapshotWrites(s)[4] = Removals(s.removed)
<1>1. /\ s.settings \in [Ids -> Settings \union {None}] /\ s.removed \in SUBSET Ids
      /\ s.manifest \in Manifest \union {None} /\ s.assoc \in (SUBSET Ids) \union {None}
  BY DEF Snapshot
<1>2. /\ SettingsWrites(s.settings, Ids) \in SUBSET Write
      /\ AssociationsWrite(s.assoc) \in SUBSET Write
      /\ ManifestWrite(s.manifest) \in SUBSET Write /\ Removals(s.removed) \in SUBSET Write
  BY <1>1, SettingsWritesAre, AssociationsWriteIs, ManifestWriteIs, RemovalsAre
<1> QED BY <1>2, Plans DEF SnapshotWrites

\* The task that holds the mutex of storage keeps the main thread from storing.
LEMMA TaskFrame ==
    ASSUME IInv, NEW from, TaskStep(from)
    PROVE  /\ task.at = from
           /\ UNCHANGED <<folder, open, project, closed, settings, silent, used, assoc, bound, pending>>
           /\ UNCHANGED <<flags, deadline, saving, main, failed, late>>
           /\ FlagsOK' /\ Steady
           /\ task.at \in {"writing", "written"} => main.at # "storing"
<1>1. /\ UNCHANGED <<folder, open, project, closed, settings, silent, used, assoc, bound, pending>>
      /\ UNCHANGED <<flags, deadline, saving, main, failed, late>> /\ task.at = from
  BY DEF TaskStep, memory
<1>2. FlagsOK'
  BY <1>1 DEF IInv, FlagsOK
<1>3. Steady
  BY <1>1 DEF Steady
<1> QED BY <1>1, <1>2, <1>3 DEF IInv, LockOK

\* The task starts to write a snapshot that is one of the present state, or none at all.
LEMMA TaskLocksStep == ASSUME IInv, TaskLocks PROVE IInv'
<1> USE DEF IInv
<1> DEFINE s == task.snapshot
<1>1. /\ task.at = "created" /\ storage = "free" /\ storage' = "task"
      /\ UNCHANGED <<folder, open, project, closed, settings, silent, used, assoc, bound, pending>>
      /\ UNCHANGED <<flags, deadline, saving, main, failed, late>>
      /\ FlagsOK' /\ Steady
      /\ UNCHANGED <<calls, disk, budget>>
  BY TaskFrame DEF TaskLocks
<1>2. s \in Snapshot /\ task \in TaskType
  BY Types DEF TaskType
<1>3. /\ task' \in TaskType /\ task'.at \in {"writing", "written"}
      /\ task'.ok = task.ok /\ task'.moved = task.moved /\ task'.snapshot = s
      /\ task'.at = "writing" => ~task.moved /\ task'.todo = SnapshotWrites(s)
  <2>1. CASE IsCurrent
    BY <1>2, <2>1, SnapshotPlan DEF TaskLocks, TaskType, IsCurrent
  <2>2. CASE ~IsCurrent
    BY <1>2, <2>2 DEF TaskLocks, TaskType
  <2> QED BY <2>1, <2>2
<1>4. TypeOK'
  BY <1>1, <1>3, Types, TypeStep
<1>5. LockOK' /\ FreshOK' /\ WrittenOK' /\ StoringOK'
  BY <1>1, <1>3, FreshKept DEF LockOK, WrittenOK, StoringOK
<1>6. SavedOK' /\ MarkedIsScheduled' /\ ManifestIsReadable'
  BY <1>1, <1>3 DEF SavedOK, MarkedIsScheduled, ManifestIsReadable, Settled
<1>7. WritingOK'
  <2> SUFFICES ASSUME task'.at = "writing" PROVE WritingOK'
    BY DEF WritingOK
  <2>1. ~task.moved /\ folder
    BY <1>3 DEF LockOK
  <2>2. flags \in FlagsType /\ assoc \in SUBSET Ids
    BY Types
  <2>3. /\ \A id \in Ids : s.settings[id] # None
                             <=> id \in (flags.dirty \intersect project) \ flags.removed
        /\ s.removed = flags.removed
        /\ s.manifest =
             IF flags.manifest \/ flags.removed # {}
             THEN [providers |-> project \ flags.removed, closed |-> closed \ flags.removed]
             ELSE None
        /\ s.assoc = IF flags.assoc \/ flags.removed # {}
                     THEN assoc \intersect (project \ flags.removed) ELSE None
    BY <2>1 DEF FreshOK
  <2>4. /\ task'.todo[1] = SettingsWrites(s.settings, Ids)
        /\ task'.todo[2] = AssociationsWrite(s.assoc)
        /\ task'.todo[3] = ManifestWrite(s.manifest) /\ task'.todo[4] = Removals(s.removed)
    BY <1>2, <1>3, SnapshotPlan
  <2>5. /\ \A id \in Ids : s.settings[id] # None
               => SettingsWrite(id, s.settings[id]) \in task'.todo[1]
        /\ s.assoc # None => task'.todo[2] # {}
        /\ s.manifest # None => task'.todo[3] # {}
    <3>1. /\ s.settings \in [Ids -> Settings \union {None}]
          /\ s.manifest \in Manifest \union {None} /\ s.assoc \in (SUBSET Ids) \union {None}
      BY <1>2 DEF Snapshot
    <3> HIDE DEF s
    <3>2. \A id \in Ids : s.settings[id] # None
              => SettingsWrite(id, s.settings[id]) \in task'.todo[1]
      BY <2>4, <3>1, SettingsWritesAre
    <3>3. s.assoc # None => task'.todo[2] # {}
      BY <2>4, <3>1, AssociationsWriteIs
    <3>4. s.manifest # None => task'.todo[3] # {}
      BY <2>4, <3>1, ManifestWriteIs
    <3> QED BY <3>2, <3>3, <3>4
  <2>6. /\ \A id \in Ids : s.settings[id] # None \/ id \in s.removed
               => id \in flags.dirty \/ id \notin project
        /\ \A id \in s.removed : s.settings[id] = None
    BY <2>2, <2>3 DEF FlagsOK, FlagsType
  <2>7. /\ s.manifest # None => flags.manifest
        /\ s.assoc # None => flags.assoc
        /\ s.removed # {} => s.manifest # None
    <3>1. [providers |-> project \ flags.removed, closed |-> closed \ flags.removed] \in Manifest
      BY Types DEF Manifest
    <3> QED BY <2>3, <3>1, Values DEF FlagsOK
  <2>8. s.manifest # None => s.manifest.closed \subseteq s.manifest.providers
                              /\ s.manifest.providers \intersect s.removed = {}
    BY <2>3 DEF FlagsOK
  <2>9. s.manifest # None
            => \A id \in s.manifest.providers : disk.settings[id] # None \/ s.settings[id] # None
    <3> SUFFICES ASSUME s.manifest # None, NEW id \in s.manifest.providers
                 PROVE  disk.settings[id] # None \/ s.settings[id] # None
      OBVIOUS
    <3>1. id \in project \ flags.removed /\ id \in Ids /\ settings[id] \in Settings
      BY <2>3, Types
    <3>2. CASE id \in flags.dirty
      BY <2>3, <3>1, <3>2
    <3>3. CASE id \notin flags.dirty
      BY <2>1, <3>1, <3>3 DEF SavedOK
    <3> QED BY <3>2, <3>3
  <2>10. SoFar(task.snapshot, task.todo)'
    BY <1>3, <2>5 DEF SoFar
  <2> QED BY <1>1, <1>3, <2>4, <2>6, <2>7, <2>8, <2>9, <2>10 DEF WritingOK
<1> QED BY <1>1, <1>4, <1>5, <1>6, <1>7

\* A file of a snapshot is written: one that is marked, and the manifest only after the
\* settings of the providers it names.
LEMMA TaskWritesOne ==
    ASSUME IInv, TaskStep("writing"), UNCHANGED <<storage, calls, budget>>,
           NEW w \in Ready(task.todo), disk' = Written(w),
           task' = [task EXCEPT !.todo = Without(task.todo, w)]
    PROVE  IInv'
<1> USE DEF IInv
<1> DEFINE s == task.snapshot
           todo == task.todo
<1>1. /\ task.at = "writing" /\ storage = "task" /\ main.at # "storing" /\ task.ok = FALSE
      /\ UNCHANGED <<folder, open, project, closed, settings, silent, used, assoc, bound, pending>>
      /\ UNCHANGED <<flags, deadline, saving, main, failed, late>>
      /\ FlagsOK' /\ Steady
  BY TaskFrame, Types DEF LockOK, TaskType
<1>2. task \in TaskType /\ todo \in Plan /\ s \in Snapshot /\ disk \in DiskType
  BY Types DEF TaskType
<1>3. /\ task' \in TaskType /\ task'.at = "writing" /\ task'.ok = task.ok
      /\ task'.moved = task.moved /\ task'.snapshot = s /\ task'.todo = Without(todo, w)
  BY <1>1, <1>2, WithoutStages DEF TaskType
<1>4. /\ task'.todo[1] = todo[1] \ {w} /\ task'.todo[2] = todo[2] \ {w}
      /\ task'.todo[3] = todo[3] \ {w} /\ task'.todo[4] = todo[4] \ {w}
  BY <1>2, <1>3, WithoutStages
<1>5. /\ s.settings \in [Ids -> Settings \union {None}] /\ s.removed \in SUBSET Ids
      /\ s.manifest \in Manifest \union {None} /\ s.assoc \in (SUBSET Ids) \union {None}
  BY <1>2 DEF Snapshot
<1>6. /\ SoFar(s, todo)
      /\ todo[1] \subseteq SettingsWrites(s.settings, Ids)
      /\ todo[2] \subseteq AssociationsWrite(s.assoc)
      /\ todo[3] \subseteq ManifestWrite(s.manifest)
      /\ todo[4] \subseteq Removals(s.removed)
      /\ \A id \in Ids : s.settings[id] # None \/ id \in s.removed
             => id \in flags.dirty \/ id \notin project
      /\ \A id \in s.removed : s.settings[id] = None
      /\ s.manifest # None => flags.manifest
      /\ s.assoc # None => flags.assoc
      /\ s.removed # {} => s.manifest # None
      /\ s.manifest # None =>
            /\ s.manifest.closed \subseteq s.manifest.providers
            /\ s.manifest.providers \intersect s.removed = {}
            /\ \A id \in s.manifest.providers : disk.settings[id] # None \/ s.settings[id] # None
  BY <1>1 DEF WritingOK
<1>7. w \in Write /\ disk' \in DiskType
  BY <1>2, ReadyStage, WriteEffect
<1>8. TypeOK'
  BY <1>1, <1>3, <1>7, Types, TypeStep
<1>9. LockOK' /\ FreshOK' /\ WrittenOK' /\ StoringOK'
  BY <1>1, <1>3, FreshKept DEF LockOK, WrittenOK, StoringOK
<1>10. MarkedIsScheduled'
  BY <1>1, <1>3 DEF MarkedIsScheduled, Settled
<1>11. SavedOK' /\ WritingOK' /\ ManifestIsReadable'
  <2>1. SUFFICES /\ SavedOK' /\ SoFar(task.snapshot, task.todo)'
                 /\ s.manifest # None =>
                      \A id \in s.manifest.providers : disk'.settings[id] # None
                          \/ s.settings[id] # None
                 /\ ManifestIsReadable'
    BY <1>1, <1>3, <1>4, <1>6 DEF WritingOK
  <2>2. \A id \in Ids : w = SettingsWrite(id, s.settings[id]) => w.file = "settings" /\ w.id = id
    BY DEF SettingsWrite
  <2> HIDE DEF s, todo
  <2>3. CASE w \in todo[1]
    <3>1. w.file = "settings" /\ w.id \in Ids /\ w.value = s.settings[w.id] /\ w.value # None
      BY <1>5, <1>6, <2>3, SettingsWritesAre
    <3>2. /\ disk'.manifest = disk.manifest /\ disk'.assoc = disk.assoc
          /\ \A id \in Ids : disk'.settings[id] = IF id = w.id THEN w.value ELSE disk.settings[id]
      BY <1>2, <1>7, <3>1, WriteEffect
    <3>3. SavedOK'
      BY <1>1, <1>6, <3>1, <3>2, Types DEF SavedOK
    <3>4. SoFar(task.snapshot, task.todo)'
      <4>1. \A id \in Ids : s.settings[id] # None =>
              disk'.settings[id] = s.settings[id]
                  \/ SettingsWrite(id, s.settings[id]) \in task'.todo[1]
        BY <1>4, <1>6, <2>2, <3>1, <3>2 DEF SoFar
      <4>2. /\ s.assoc # None => disk'.assoc = s.assoc \/ task'.todo[2] # {}
            /\ s.manifest # None => disk'.manifest = s.manifest \/ task'.todo[3] # {}
        <5>1. w \notin todo[2] /\ w \notin todo[3]
          BY <1>5, <1>6, <3>1, AssociationsWriteIs, ManifestWriteIs
        <5> QED BY <1>4, <1>6, <3>2, <5>1 DEF SoFar
      <4> QED BY <1>3, <4>1, <4>2 DEF SoFar
    <3>5. ManifestIsReadable'
      BY <3>1, <3>2, Types DEF ManifestIsReadable, DiskType, Manifest
    <3>6. s.manifest # None =>
             \A id \in s.manifest.providers : disk'.settings[id] # None \/ s.settings[id] # None
      BY <1>5, <1>6, <3>1, <3>2 DEF Manifest
    <3> QED BY <3>3, <3>4, <3>5, <3>6
  <2>4. CASE w \in todo[2]
    <3>1. w.file = "associations" /\ w.ids = s.assoc /\ s.assoc # None
      BY <1>5, <1>6, <2>4, AssociationsWriteIs
    <3>2. disk'.settings = disk.settings /\ disk'.manifest = disk.manifest /\ disk'.assoc = s.assoc
      BY <1>2, <1>7, <3>1, WriteEffect
    <3>3. w \notin todo[1] /\ w \notin todo[3]
      BY <1>5, <1>6, <3>1, SettingsWritesAre, ManifestWriteIs
    <3>4. SavedOK'
      BY <1>1, <1>6, <3>1, <3>2 DEF SavedOK
    <3>5. SoFar(task.snapshot, task.todo)'
      BY <1>3, <1>4, <1>6, <3>2, <3>3 DEF SoFar
    <3> QED BY <1>6, <3>2, <3>4, <3>5 DEF ManifestIsReadable
  <2>5. CASE w \in todo[3] /\ todo[1] = {}
    <3>1. w.file = "manifest" /\ w.value = s.manifest /\ s.manifest # None
      BY <1>5, <1>6, <2>5, ManifestWriteIs
    <3>2. disk'.settings = disk.settings /\ disk'.manifest = s.manifest /\ disk'.assoc = disk.assoc
      BY <1>2, <1>7, <3>1, WriteEffect
    <3>3. w \notin todo[2]
      BY <1>5, <1>6, <3>1, AssociationsWriteIs
    <3>4. SavedOK'
      BY <1>1, <1>6, <3>1, <3>2 DEF SavedOK
    <3>5. SoFar(task.snapshot, task.todo)'
      BY <1>3, <1>4, <1>6, <2>5, <3>2, <3>3 DEF SoFar
    <3>6. ManifestIsReadable'
      <4>1. \A id \in s.manifest.providers : disk.settings[id] # None
        BY <1>5, <1>6, <2>5, <3>1 DEF SoFar, Manifest
      <4> QED BY <1>6, <3>1, <3>2, <4>1 DEF ManifestIsReadable
    <3> QED BY <1>6, <3>2, <3>4, <3>5, <3>6
  <2>6. CASE w \in todo[4] /\ todo[1] = {} /\ todo[2] = {} /\ todo[3] = {}
    <3>1. w.file = "settings" /\ w.id \in s.removed /\ w.value = None /\ w.id \in Ids
      BY <1>5, <1>6, <2>6, RemovalsAre
    <3>2. /\ disk'.manifest = disk.manifest /\ disk'.assoc = disk.assoc
          /\ \A id \in Ids : disk'.settings[id] = IF id = w.id THEN w.value ELSE disk.settings[id]
      BY <1>2, <1>7, <3>1, WriteEffect
    <3>3. disk.manifest = s.manifest /\ w.id \notin disk.manifest.providers
      BY <1>6, <2>6, <3>1 DEF SoFar
    <3>4. SavedOK'
      BY <1>1, <1>6, <3>1, <3>2, Types DEF SavedOK
    <3>5. SoFar(task.snapshot, task.todo)'
      BY <1>3, <1>4, <1>6, <2>6, <3>1, <3>2 DEF SoFar
    <3>6. ManifestIsReadable'
      BY <3>2, <3>3, Types DEF ManifestIsReadable, DiskType, Manifest
    <3>7. s.manifest # None =>
             \A id \in s.manifest.providers : disk'.settings[id] # None \/ s.settings[id] # None
      BY <1>5, <1>6, <3>2, <3>3 DEF Manifest
    <3> QED BY <3>4, <3>5, <3>6, <3>7
  <2> QED BY <1>2, <2>3, <2>4, <2>5, <2>6, ReadyStage DEF todo
<1> QED BY <1>1, <1>8, <1>9, <1>10, <1>11

\* The task writes one more file, or fails and gives up.
LEMMA TaskWritesStep == ASSUME IInv, TaskWrites PROVE IInv'
<1>1. ASSUME NEW w \in Ready(task.todo), disk' = Written(w), UNCHANGED budget,
             task' = [task EXCEPT !.todo = Without(@, w)]
      PROVE  IInv'
  BY <1>1, TaskWritesOne DEF TaskWrites
<1>2. CASE Spend("accidents") /\ task' = [task EXCEPT !.at = "written", !.todo = Nothing]
           /\ UNCHANGED disk
  <2> USE DEF IInv
  <2>1. /\ task.at = "writing" /\ storage = "task" /\ main.at # "storing" /\ task.ok = FALSE
        /\ UNCHANGED <<folder, open, project, closed, settings, silent, used, assoc, bound, pending>>
        /\ UNCHANGED <<flags, deadline, saving, main, failed, late, storage, calls>>
        /\ FlagsOK' /\ Steady
    BY TaskFrame, Types DEF TaskWrites, LockOK, TaskType
  <2>2. /\ task' \in TaskType /\ task'.at = "written" /\ task'.ok = task.ok
        /\ task'.moved = task.moved /\ task'.snapshot = task.snapshot
    BY <1>2, Types, Plans DEF TaskType
  <2>3. TypeOK'
    BY <1>2, <2>1, <2>2, SpendType, Types, TypeStep
  <2>4. LockOK' /\ FreshOK' /\ WritingOK' /\ WrittenOK' /\ StoringOK'
    BY <2>1, <2>2, FreshKept DEF LockOK, WritingOK, WrittenOK, StoringOK
  <2>5. SavedOK' /\ MarkedIsScheduled' /\ ManifestIsReadable'
    BY <1>2, <2>1, <2>2 DEF SavedOK, MarkedIsScheduled, ManifestIsReadable, Settled
  <2> QED BY <2>1, <2>3, <2>4, <2>5
<1> QED BY <1>1, <1>2 DEF TaskWrites

\* The task has written all: an untouched snapshot is in the files.
LEMMA TaskHasWrittenStep == ASSUME IInv, TaskHasWritten PROVE IInv'
<1> USE DEF IInv
<1>1. /\ task.at = "writing" /\ storage = "task" /\ main.at # "storing" /\ task.todo = Nothing
      /\ UNCHANGED <<folder, open, project, closed, settings, silent, used, assoc, bound, pending>>
      /\ UNCHANGED <<flags, deadline, saving, main, failed, late, storage, calls, disk, budget>>
      /\ FlagsOK' /\ Steady
  BY TaskFrame DEF TaskHasWritten, LockOK
<1>2. /\ task' \in TaskType /\ task'.at = "written" /\ task'.ok = TRUE
      /\ task'.moved = task.moved /\ task'.snapshot = task.snapshot
  BY Types DEF TaskType, TaskHasWritten
<1>3. TypeOK'
  BY <1>1, <1>2, Types, TypeStep
<1>4. LockOK' /\ FreshOK' /\ WritingOK' /\ StoringOK'
  BY <1>1, <1>2, FreshKept DEF LockOK, WritingOK, StoringOK
<1>5. WrittenOK'
  BY <1>1, <1>2 DEF WritingOK, WrittenOK, SoFar
<1>6. SavedOK' /\ MarkedIsScheduled' /\ ManifestIsReadable'
  BY <1>1, <1>2 DEF SavedOK, MarkedIsScheduled, ManifestIsReadable, Settled
<1> QED BY <1>1, <1>3, <1>4, <1>5, <1>6

\* The task releases the mutex and keeps what it found.
LEMMA TaskReleasesStep == ASSUME IInv, TaskReleases PROVE IInv'
<1> USE DEF IInv
<1>1. /\ task.at = "written" /\ main.at # "storing" /\ storage' = "free"
      /\ UNCHANGED <<folder, open, project, closed, settings, silent, used, assoc, bound, pending>>
      /\ UNCHANGED <<flags, deadline, saving, main, failed, late, calls, disk, budget>>
      /\ FlagsOK' /\ Steady
  BY TaskFrame DEF TaskReleases
<1>2. /\ task' \in TaskType /\ task'.at = "released" /\ task'.ok = task.ok
      /\ task'.moved = task.moved /\ task'.snapshot = task.snapshot
  BY Types DEF TaskType, TaskReleases
<1>3. TypeOK'
  BY <1>1, <1>2, Types, TypeStep
<1>4. LockOK' /\ FreshOK' /\ WritingOK' /\ WrittenOK' /\ StoringOK'
  BY <1>1, <1>2, FreshKept DEF LockOK, WritingOK, WrittenOK, StoringOK, SoFar
<1>5. SavedOK' /\ MarkedIsScheduled' /\ ManifestIsReadable'
  BY <1>1, <1>2 DEF SavedOK, MarkedIsScheduled, ManifestIsReadable, Settled
<1> QED BY <1>1, <1>3, <1>4, <1>5

\* The task posts its completion.
LEMMA TaskPostsStep == ASSUME IInv, TaskPosts PROVE IInv'
<1> USE DEF IInv
<1>1. /\ task.at = "released" /\ calls' = Append(calls, "saved")
      /\ UNCHANGED <<folder, open, project, closed, settings, silent, used, assoc, bound, pending>>
      /\ UNCHANGED <<flags, deadline, saving, main, failed, late, storage, disk, budget>>
      /\ FlagsOK' /\ Steady
  BY TaskFrame DEF TaskPosts, DoLater
<1>2. /\ task' \in TaskType /\ task'.at = "posted" /\ task'.ok = task.ok
      /\ task'.moved = task.moved /\ task'.snapshot = task.snapshot
  BY Types DEF TaskType, TaskPosts
<1>3. calls' \in Seq({"saved", "store"})
  BY <1>1, Types
<1>4. TypeOK'
  BY <1>1, <1>2, <1>3, Types, TypeStep
<1>5. LockOK' /\ FreshOK' /\ WritingOK' /\ WrittenOK' /\ StoringOK'
  BY <1>1, <1>2, FreshKept DEF LockOK, WritingOK, WrittenOK, StoringOK, SoFar
<1>6. SavedOK' /\ MarkedIsScheduled' /\ ManifestIsReadable'
  BY <1>1, <1>2 DEF SavedOK, MarkedIsScheduled, ManifestIsReadable, Settled
<1> QED BY <1>1, <1>4, <1>5, <1>6

\* The completion takes the marks of an untouched snapshot away, all of which are saved;
\* of one that was overtaken, none.
LEMMA SavedStep ==
    ASSUME IInv, main.at = "frame", Saved, calls' \in Seq({"saved", "store"})
    PROVE  IInv'
<1> USE DEF IInv
<1> DEFINE s == task.snapshot
<1>1. /\ task' = NoTask /\ saving' = FALSE
      /\ UNCHANGED <<folder, open, settings, silent, used, bound, pending>>
      /\ UNCHANGED <<main, storage, disk, failed, budget>>
      /\ late' \in {late, {}}
  BY DEF Saved, SavingEnds
<1>2. /\ task' \in TaskType /\ task'.at = "none" /\ task'.moved = TRUE /\ task'.ok = FALSE
  BY <1>1, NoTaskType DEF NoTask
<1>3. LockOK' /\ FreshOK' /\ WritingOK' /\ WrittenOK' /\ StoringOK'
  BY <1>1, <1>2 DEF LockOK, FreshOK, WritingOK, WrittenOK, StoringOK
<1>4. ManifestIsReadable'
  BY <1>1 DEF ManifestIsReadable
<1>5. CASE task.moved
  <2>1. UNCHANGED <<flags, deadline, late, project, closed, assoc>>
    BY <1>5 DEF Saved
  <2>2. TypeOK'
    BY <1>1, <1>2, <2>1, Types, TypeStep
  <2>3. FlagsOK' /\ SavedOK' /\ MarkedIsScheduled'
    BY <1>1, <1>5, <2>1 DEF FlagsOK, SavedOK, MarkedIsScheduled, Settled
  <2> QED BY <1>3, <1>4, <2>2, <2>3
<1>6. CASE ~task.moved /\ ~task.ok
  <2>1. deadline' = "armed" /\ UNCHANGED <<flags, late, project, closed, assoc>>
    BY <1>6 DEF Saved, Rearm
  <2>2. TypeOK'
    BY <1>1, <1>2, <2>1, Types, TypeStep
  <2>3. FlagsOK' /\ SavedOK' /\ MarkedIsScheduled'
    BY <1>1, <2>1 DEF FlagsOK, SavedOK, MarkedIsScheduled
  <2> QED BY <1>3, <1>4, <2>2, <2>3
<1>7. CASE ~task.moved /\ task.ok
  <2>1. /\ flags' = [dirty |-> {id \in flags.dirty : s.settings[id] = None},
                     removed |-> flags.removed \ s.removed,
                     manifest |-> flags.manifest /\ s.manifest = None,
                     assoc |-> flags.assoc /\ s.assoc = None]
        /\ project' = project \ s.removed /\ closed' = closed \ s.removed
        /\ assoc' = assoc \ s.removed
        /\ UNCHANGED deadline
        /\ late' = IF s.assoc # None THEN {} ELSE late
    BY <1>7 DEF Saved
  <2>2. folder /\ SoFar(s, Nothing)
    BY <1>7 DEF LockOK, WrittenOK
  <2>3. flags \in FlagsType /\ assoc \in SUBSET Ids
    BY Types
  <2>4. /\ \A id \in (flags.dirty \intersect project) \ flags.removed :
             s.settings[id] # None /\ (id \notin silent => s.settings[id] = settings[id])
        /\ s.removed = flags.removed
        /\ s.manifest =
             IF flags.manifest \/ flags.removed # {}
             THEN [providers |-> project \ flags.removed, closed |-> closed \ flags.removed]
             ELSE None
        /\ s.assoc = IF flags.assoc \/ flags.removed # {}
                     THEN assoc \intersect (project \ flags.removed) ELSE None
    BY <1>7, Types DEF FreshOK
  <2>5. project \ flags.removed = project /\ closed \ flags.removed = closed
    BY DEF FlagsOK
  <2>6. /\ project' = project /\ closed' = closed
        /\ assoc' \subseteq Ids /\ assoc' \intersect project = assoc \intersect project
    BY <2>1, <2>3, <2>4, <2>5
  <2>7. /\ flags.manifest
               => s.manifest = [providers |-> project, closed |-> closed] /\ s.manifest # None
        /\ flags.assoc => s.assoc = assoc \intersect project /\ s.assoc # None
        /\ ~flags.assoc => s.assoc = None
        /\ \A id \in flags.dirty : id \in Ids /\ s.settings[id] # None
               /\ (id \notin silent => s.settings[id] = settings[id])
    <3>1. [providers |-> project, closed |-> closed] \in Manifest
      BY Types DEF Manifest
    <3>2. flags.manifest
              => s.manifest = [providers |-> project, closed |-> closed] /\ s.manifest # None
      BY <2>4, <2>5, <3>1, Values
    <3>3. flags.assoc => s.assoc = assoc \intersect project /\ s.assoc # None
      BY <2>3, <2>4, <2>5, Values
    <3>4. ~flags.assoc => s.assoc = None
      BY <2>4 DEF FlagsOK
    <3>5. \A id \in flags.dirty : id \in Ids /\ s.settings[id] # None
              /\ (id \notin silent => s.settings[id] = settings[id])
      BY <2>4, Types DEF FlagsOK
    <3> QED BY <3>2, <3>3, <3>4, <3>5
  <2>8. flags' = Clean
    BY <2>1, <2>4, <2>7, Types DEF Clean, FlagsType
  <2>9. /\ flags.manifest => disk.manifest = [providers |-> project, closed |-> closed]
        /\ flags.assoc => disk.assoc = assoc \intersect project
        /\ \A id \in flags.dirty : disk.settings[id] = s.settings[id]
    BY <2>2, <2>7, Plans DEF SoFar
  <2>10. TypeOK'
    BY <1>1, <1>2, <2>1, <2>6, <2>8, CleanType, Types, TypeStep
  <2>11. FlagsOK'
    BY <1>1, <2>6, <2>8 DEF FlagsOK, Clean
  <2>12. SavedOK'
    <3>1. /\ \A id \in project \ silent : disk.settings[id] = settings[id]
          /\ \A id \in project : disk.settings[id] # None
      BY <2>2, <2>7, <2>9 DEF SavedOK
    <3>2. disk.manifest = [providers |-> project, closed |-> closed]
      BY <2>2, <2>9 DEF SavedOK
    <3>3. (disk.assoc \intersect project) \ late' = (assoc \intersect project) \ late'
      BY <2>1, <2>2, <2>7, <2>9 DEF SavedOK
    <3> QED BY <1>1, <2>6, <3>1, <3>2, <3>3 DEF SavedOK
  <2>13. MarkedIsScheduled'
    BY <2>8 DEF MarkedIsScheduled, Clean
  <2> QED BY <1>3, <1>4, <2>10, <2>11, <2>12, <2>13
<1> QED BY <1>5, <1>6, <1>7

-----------------------------------------------------------------------------
(* The main thread                                                         *)

\* What only the deferred calls and the main thread's place in them change.
LEMMA QuietStep ==
    ASSUME IInv, main' \in MainType, main'.at = main.at, main'.todo = main.todo,
           calls' \in Seq({"saved", "store"}), budget' \in BudgetType,
           UNCHANGED <<memory, flags, deadline, saving, task, storage, disk, failed, late>>
    PROVE  IInv'
<1> USE DEF IInv, memory
<1>1. TypeOK'
  BY Types, TypeStep
<1>2. FlagsOK' /\ LockOK' /\ WritingOK' /\ WrittenOK' /\ StoringOK'
  BY DEF FlagsOK, LockOK, WritingOK, WrittenOK, StoringOK, SoFar
<1>3. FreshOK'
  BY FreshKept DEF Steady
<1>4. SavedOK' /\ MarkedIsScheduled' /\ ManifestIsReadable'
  BY DEF SavedOK, MarkedIsScheduled, ManifestIsReadable, Settled
<1> QED BY <1>1, <1>2, <1>3, <1>4

\* Storing at once takes the schedule away before it waits for the mutex.
LEMMA BeginStoreStep ==
    ASSUME IInv, main.at = "frame", BeginStore,
           calls' \in Seq({"saved", "store"}), budget' \in BudgetType
    PROVE  IInv'
<1> USE DEF IInv
<1>1. /\ folder /\ Moved /\ deadline' = "none"
      /\ UNCHANGED <<folder, open, project, closed, settings, silent, used, assoc, bound, pending>>
      /\ UNCHANGED <<flags, saving, storage, disk, failed, late>>
  BY DEF BeginStore, Cancel, memory
<1>2. main' \in MainType /\ main'.at = "store"
  BY Types DEF BeginStore, MainType
<1>3. /\ task' \in TaskType /\ task'.moved = TRUE /\ task'.at = task.at /\ task'.ok = task.ok
      /\ task'.snapshot = task.snapshot /\ task'.todo = task.todo
  BY <1>1, Types, MovedTask
<1>4. TypeOK'
  BY <1>1, <1>2, <1>3, Types, TypeStep
<1>5. FlagsOK' /\ LockOK' /\ FreshOK' /\ WritingOK' /\ WrittenOK' /\ StoringOK'
  BY <1>1, <1>2, <1>3 DEF FlagsOK, LockOK, FreshOK, WritingOK, WrittenOK, StoringOK, SoFar
<1>6. SavedOK' /\ MarkedIsScheduled' /\ ManifestIsReadable'
  BY <1>1, <1>2 DEF SavedOK, MarkedIsScheduled, ManifestIsReadable, Settled
<1> QED BY <1>4, <1>5, <1>6

\* The deferred calls: a completion, a store, or one for a project that is gone.
LEMMA DeferredStep ==
    ASSUME IInv, AskToStore \/ StartDeferredCalls \/ EndDeferredCalls \/ RunDeferredCall \/ StoreNow
    PROVE  IInv'
<1>1. TypeOK
  BY DEF IInv
<1>2. CASE AskToStore
  BY <1>1, <1>2, QuietStep, SpendType, Types DEF AskToStore
<1>3. CASE StartDeferredCalls \/ EndDeferredCalls
  <2>1. main' \in MainType /\ main'.at = main.at /\ main'.todo = main.todo
    BY <1>1, <1>3, Types DEF StartDeferredCalls, EndDeferredCalls, MainType
  <2> QED BY <1>1, <1>3, <2>1, QuietStep, Types DEF StartDeferredCalls, EndDeferredCalls
<1>4. CASE RunDeferredCall
  <2>1. /\ main.at = "frame" /\ calls # <<>> /\ calls \in Seq({"saved", "store"})
        /\ calls' = Tail(calls) /\ budget \in BudgetType
    BY <1>1, <1>4, Types DEF RunDeferredCall, Frame
  <2>2. Head(calls) \in {"saved", "store"} /\ calls' \in Seq({"saved", "store"})
    BY <2>1
  <2>3. CASE Head(calls) = "saved"
    BY <1>4, <2>1, <2>2, <2>3, SavedStep DEF RunDeferredCall
  <2>4. CASE Head(calls) = "store" /\ folder
    BY <1>4, <2>1, <2>2, <2>4, BeginStoreStep DEF RunDeferredCall
  <2>5. CASE Head(calls) = "store" /\ ~folder
    BY <1>1, <1>4, <2>1, <2>2, <2>5, QuietStep, Types DEF RunDeferredCall
  <2> QED BY <2>2, <2>3, <2>4, <2>5
<1>5. CASE StoreNow
  BY <1>1, <1>5, BeginStoreStep, SpendType, Types DEF StoreNow, Frame
<1> QED BY <1>2, <1>3, <1>4, <1>5

\* The stages of a store.
LEMMA StorePlan ==
    ASSUME TypeOK, NEW files \in SUBSET Ids
    PROVE  /\ StoreWrites(files) \in Plan
           /\ StoreWrites(files)[1] = SettingsWrites(settings, project)
           /\ StoreWrites(files)[2] = ManifestWrite([providers |-> project, closed |-> closed])
           /\ StoreWrites(files)[3] = AssociationsWrite(files \intersect project)
           /\ StoreWrites(files)[4] = {}
           /\ \A id \in project : SettingsWrite(id, settings[id]) \in StoreWrites(files)[1]
           /\ StoreWrites(files)[2] # {} /\ StoreWrites(files)[3] # {}
<1>1. /\ settings \in [Ids -> Settings \union {None}] /\ project \in SUBSET Ids
      /\ [providers |-> project, closed |-> closed] \in Manifest
      /\ files \intersect project \in SUBSET Ids
  BY Types DEF Manifest
<1>2. /\ SettingsWrites(settings, project) \in SUBSET Write
      /\ \A id \in project : SettingsWrite(id, settings[id]) \in SettingsWrites(settings, project)
  BY <1>1, SettingsWritesAre, Types, Values
<1>3. LET write == ManifestWrite([providers |-> project, closed |-> closed])
      IN  write \in SUBSET Write /\ write # {}
  BY <1>1, ManifestWriteIs, Values
<1>4. AssociationsWrite(files \intersect project) \in SUBSET Write
          /\ AssociationsWrite(files \intersect project) # {}
  BY <1>1, AssociationsWriteIs, Values
<1> QED BY <1>2, <1>3, <1>4, Plans DEF StoreWrites

\* A store starts with everything in the memory to be written.
LEMMA StoreLocksStep == ASSUME IInv, StoreLocks PROVE IInv'
<1> USE DEF IInv
<1>1. /\ main.at = "store" /\ storage = "free" /\ storage' = "main"
      /\ UNCHANGED <<folder, open, project, closed, settings, silent, used, deadline, saving,
                     task, calls, disk, failed, late, budget>>
      /\ flags' = [flags EXCEPT !.assoc = @ \/ assoc' # assoc]
      /\ Materialize
  BY DEF StoreLocks
<1>2. /\ flags' \in FlagsType /\ flags'.dirty = flags.dirty /\ flags'.removed = flags.removed
      /\ flags'.manifest = flags.manifest /\ flags'.assoc = (flags.assoc \/ assoc' # assoc)
  BY <1>1, Types DEF FlagsType
<1>3. /\ assoc' \subseteq Ids /\ bound' \subseteq Ids /\ pending' \subseteq Ids
      /\ pending' \subseteq pending /\ (~folder => assoc' = assoc)
  BY <1>1, MaterializeType DEF FlagsOK
<1>4. main' \in MainType /\ main'.at = "storing" /\ main'.todo = StoreWrites(assoc')
  BY <1>3, StorePlan, Types DEF StoreLocks, MainType
<1>5. TypeOK'
  BY <1>1, <1>2, <1>3, <1>4, Types, TypeStep
<1>6. FlagsOK'
  <2>1. ~folder => flags' = flags
    BY <1>1, <1>2, <1>3, Types DEF FlagsType
  <2> QED BY <1>1, <1>2, <1>3, <2>1 DEF FlagsOK
<1>7. LockOK' /\ FreshOK' /\ WritingOK' /\ WrittenOK'
  BY <1>1, <1>4 DEF LockOK, FreshOK, WritingOK, WrittenOK
<1>8. SavedOK'
  BY <1>1, <1>2 DEF SavedOK
<1>9. StoringOK'
  <2>1. /\ main'.todo[1] = SettingsWrites(settings, project)
        /\ main'.todo[2] = ManifestWrite([providers |-> project, closed |-> closed])
        /\ main'.todo[3] = AssociationsWrite(assoc' \intersect project)
        /\ main'.todo[4] = {}
        /\ \A id \in project : SettingsWrite(id, settings[id]) \in main'.todo[1]
        /\ main'.todo[2] # {} /\ main'.todo[3] # {}
    BY <1>3, <1>4, StorePlan
  <2> QED BY <1>1, <2>1 DEF StoringOK
<1>10. MarkedIsScheduled' /\ ManifestIsReadable'
  BY <1>1, <1>4 DEF MarkedIsScheduled, ManifestIsReadable, Settled
<1> QED BY <1>5, <1>6, <1>7, <1>8, <1>9, <1>10

\* A store writes one more file, of the present memory, the manifest after all settings.
LEMMA StoreWritesOneStep == ASSUME IInv, StoreWritesOne PROVE IInv'
<1> USE DEF IInv
<1> DEFINE todo == main.todo
           manifest == [providers |-> project, closed |-> closed]
<1>1. PICK w \in Ready(todo) : disk' = Written(w) /\ main' = [main EXCEPT !.todo = Without(todo, w)]
  BY DEF StoreWritesOne
<1>2. /\ main.at = "storing" /\ storage = "main" /\ task.at \notin {"writing", "written"}
      /\ task.moved
      /\ UNCHANGED <<folder, open, project, closed, settings, silent, used, assoc, bound, pending>>
      /\ UNCHANGED <<flags, deadline, saving, task, storage, calls, failed, late, budget>>
  BY DEF StoreWritesOne, LockOK, memory
<1>3. main \in MainType /\ todo \in Plan /\ disk \in DiskType
  BY Types DEF MainType
<1>4. main' \in MainType /\ main'.at = "storing" /\ main'.todo = Without(todo, w)
  BY <1>1, <1>2, <1>3, WithoutStages DEF MainType
<1>5. /\ main'.todo[1] = todo[1] \ {w} /\ main'.todo[2] = todo[2] \ {w}
      /\ main'.todo[3] = todo[3] \ {w} /\ main'.todo[4] = todo[4] \ {w}
  BY <1>3, <1>4, WithoutStages
<1>6. /\ settings \in [Ids -> Settings \union {None}] /\ project \in SUBSET Ids
      /\ manifest \in Manifest \union {None}
      /\ assoc \intersect project \in (SUBSET Ids) \union {None}
  BY Types DEF Manifest
<1>7. /\ \A id \in project : disk.settings[id] = settings[id]
             \/ SettingsWrite(id, settings[id]) \in todo[1]
      /\ disk.manifest = manifest \/ todo[2] # {}
      /\ disk.assoc = assoc \intersect project \/ todo[3] # {}
      /\ todo[1] \subseteq SettingsWrites(settings, project)
      /\ todo[2] \subseteq ManifestWrite(manifest)
      /\ todo[3] \subseteq AssociationsWrite(assoc \intersect project)
      /\ todo[4] = {}
  BY <1>2 DEF StoringOK
<1>8. w \in Write /\ disk' \in DiskType
  BY <1>1, <1>3, ReadyStage, WriteEffect
<1>9. TypeOK' /\ FlagsOK'
  <2>1. TypeOK'
    BY <1>2, <1>4, <1>8, Types, TypeStep
  <2> QED BY <1>2, <2>1 DEF FlagsOK
<1>10. LockOK' /\ FreshOK' /\ WritingOK' /\ WrittenOK' /\ MarkedIsScheduled'
  BY <1>2, <1>4 DEF LockOK, FreshOK, WritingOK, WrittenOK, MarkedIsScheduled, Settled
<1>11. SavedOK' /\ StoringOK' /\ ManifestIsReadable'
  <2> SUFFICES /\ SavedOK' /\ ManifestIsReadable'
               /\ \A id \in project : disk'.settings[id] = settings[id]
                                       \/ SettingsWrite(id, settings[id]) \in main'.todo[1]
               /\ disk'.manifest = manifest \/ main'.todo[2] # {}
               /\ disk'.assoc = assoc \intersect project \/ main'.todo[3] # {}
    BY <1>2, <1>5, <1>7 DEF StoringOK
  <2>1. \A id \in Ids : w = SettingsWrite(id, settings[id]) => w.file = "settings" /\ w.id = id
    BY DEF SettingsWrite
  <2> HIDE DEF todo, manifest
  <2>2. CASE w \in todo[1]
    <3>1. w.file = "settings" /\ w.id \in project /\ w.value = settings[w.id] /\ w.value # None
      BY <1>6, <1>7, <2>2, SettingsWritesAre
    <3>2. /\ disk'.manifest = disk.manifest /\ disk'.assoc = disk.assoc
          /\ \A id \in Ids : disk'.settings[id] = IF id = w.id THEN w.value ELSE disk.settings[id]
      BY <1>1, <1>3, <1>8, <3>1, WriteEffect
    <3>3. w \notin todo[2] /\ w \notin todo[3]
      BY <1>6, <1>7, <3>1, AssociationsWriteIs, ManifestWriteIs
    <3>4. SavedOK'
      BY <1>2, <3>1, <3>2, Types DEF SavedOK
    <3>5. ManifestIsReadable'
      BY <3>1, <3>2, Types DEF ManifestIsReadable, DiskType, Manifest
    <3>6. \A id \in project : disk'.settings[id] = settings[id]
                                 \/ SettingsWrite(id, settings[id]) \in main'.todo[1]
      BY <1>5, <1>6, <1>7, <2>1, <3>1, <3>2
    <3> QED BY <1>5, <1>7, <3>2, <3>3, <3>4, <3>5, <3>6
  <2>3. CASE w \in todo[2] /\ todo[1] = {}
    <3>1. w.file = "manifest" /\ w.value = manifest
      BY <1>6, <1>7, <2>3, ManifestWriteIs
    <3>2. disk'.settings = disk.settings /\ disk'.manifest = manifest /\ disk'.assoc = disk.assoc
      BY <1>1, <1>3, <1>8, <3>1, WriteEffect
    <3>3. w \notin todo[3]
      BY <1>6, <1>7, <3>1, AssociationsWriteIs
    <3>4. \A id \in project : disk.settings[id] = settings[id] /\ disk.settings[id] # None
      BY <1>7, <2>3, Types, Values
    <3>5. ManifestIsReadable'
      BY <3>2, <3>4 DEF ManifestIsReadable, FlagsOK, manifest
    <3>6. SavedOK'
      BY <1>2, <3>2 DEF SavedOK, manifest
    <3> QED BY <1>5, <1>7, <2>3, <3>2, <3>3, <3>4, <3>5, <3>6
  <2>4. CASE w \in todo[3] /\ todo[1] = {} /\ todo[2] = {}
    <3>1. w.file = "associations" /\ w.ids = assoc \intersect project
      BY <1>6, <1>7, <2>4, AssociationsWriteIs
    <3>2. /\ disk'.settings = disk.settings /\ disk'.manifest = disk.manifest
          /\ disk'.assoc = assoc \intersect project
      BY <1>1, <1>3, <1>8, <3>1, WriteEffect
    <3>3. SavedOK' /\ ManifestIsReadable'
      BY <1>2, <3>2 DEF SavedOK, ManifestIsReadable
    <3> QED BY <1>7, <2>4, <3>2, <3>3
  <2> QED BY <1>3, <1>7, <2>2, <2>3, <2>4, ReadyStage DEF todo
<1> QED BY <1>9, <1>10, <1>11

\* A store that ends leaves no task that writes and no snapshot that counts.
LEMMA EndOfStoreEffect ==
    ASSUME IInv, main.at = "storing", EndOfStore
    PROVE  /\ main' \in MainType /\ main'.at = "frame" /\ storage' = "free" /\ task.moved
           /\ task.at \notin {"writing", "written"}
           /\ UNCHANGED <<folder, open, project, closed, settings, used, assoc, bound, pending>>
           /\ UNCHANGED <<deadline, saving, task, calls, disk>>
  BY Types, Plans DEF IInv, LockOK, EndOfStore, MainType

\* At the end of a store everything it had to write is in the files.
LEMMA StoreSucceedsStep == ASSUME IInv, StoreSucceeds PROVE IInv'
<1> USE DEF IInv
<1>1. /\ main.at = "storing" /\ main.todo = Nothing
      /\ main' \in MainType /\ main'.at = "frame" /\ storage' = "free" /\ task.moved
      /\ task.at \notin {"writing", "written"}
      /\ UNCHANGED <<folder, open, project, closed, settings, used, assoc, bound, pending>>
      /\ UNCHANGED <<deadline, saving, task, calls, disk, budget>>
      /\ flags' = Clean /\ failed' = FALSE /\ silent' = {} /\ late' = {}
  BY EndOfStoreEffect DEF StoreSucceeds
<1>2. /\ \A id \in project : disk.settings[id] = settings[id] /\ disk.settings[id] # None
      /\ disk.manifest = [providers |-> project, closed |-> closed]
      /\ disk.assoc = assoc \intersect project
  BY <1>1, Plans, Types, Values DEF StoringOK
<1>3. TypeOK'
  BY <1>1, CleanType, Types, TypeStep
<1>4. FlagsOK'
  BY <1>1 DEF FlagsOK, Clean
<1>5. LockOK' /\ FreshOK' /\ WritingOK' /\ WrittenOK' /\ StoringOK'
  BY <1>1 DEF LockOK, FreshOK, WritingOK, WrittenOK, StoringOK
<1>6. SavedOK' /\ MarkedIsScheduled' /\ ManifestIsReadable'
  BY <1>1, <1>2 DEF SavedOK, MarkedIsScheduled, ManifestIsReadable
<1> QED BY <1>3, <1>4, <1>5, <1>6

\* A store that fails leaves every mark.
LEMMA StoreFailsStep == ASSUME IInv, StoreFails PROVE IInv'
<1> USE DEF IInv
<1>1. /\ main' \in MainType /\ main'.at = "frame" /\ storage' = "free" /\ task.moved
      /\ task.at \notin {"writing", "written"}
      /\ UNCHANGED <<folder, open, project, closed, settings, silent, used, assoc, bound, pending>>
      /\ UNCHANGED <<deadline, saving, task, calls, disk, flags, late>>
      /\ budget' \in BudgetType /\ failed' = TRUE
  BY EndOfStoreEffect, SpendType, Types DEF StoreFails
<1>2. TypeOK'
  BY <1>1, Types, TypeStep
<1>3. FlagsOK' /\ LockOK' /\ FreshOK' /\ WritingOK' /\ WrittenOK' /\ StoringOK'
  BY <1>1 DEF FlagsOK, LockOK, FreshOK, WritingOK, WrittenOK, StoringOK
<1>4. SavedOK' /\ MarkedIsScheduled' /\ ManifestIsReadable'
  BY <1>1 DEF SavedOK, MarkedIsScheduled, ManifestIsReadable
<1> QED BY <1>2, <1>3, <1>4

\* What is loaded is what is in the files, because the manifest is readable.
LEMMA FromDiskEffect ==
    ASSUME IInv, FromDisk, UNCHANGED disk
    PROVE  /\ folder' = TRUE /\ failed' = FALSE /\ flags' = Clean
           /\ open' \subseteq Ids /\ project' \subseteq Ids /\ closed' \subseteq Ids
           /\ assoc' \subseteq Ids /\ bound' \subseteq Ids /\ pending' \subseteq Ids
           /\ late' \subseteq Ids /\ silent' \subseteq Ids
           /\ settings' \in [Ids -> Settings]
           /\ FlagsOK' /\ SavedOK' /\ ManifestIsReadable'
<1> USE DEF IInv
<1> DEFINE ids == {id \in disk.manifest.providers : disk.settings[id] # None}
<1>1. disk \in DiskType /\ disk.manifest \in Manifest
  BY Types DEF DiskType
<1>2. ids = disk.manifest.providers /\ ids \subseteq Ids
  BY <1>1 DEF ManifestIsReadable, Manifest
<1>3. /\ folder' = TRUE /\ failed' = FALSE /\ flags' = Clean
      /\ pending' = {} /\ silent' = {} /\ late' = {}
      /\ project' = ids /\ closed' = ids \intersect disk.manifest.closed
      /\ settings' = [id \in Ids |-> IF id \in ids THEN disk.settings[id] ELSE settings[id]]
      /\ assoc' = disk.assoc \intersect ids
      /\ open' \in SUBSET (ids \ closed') /\ bound' \in {{}, assoc' \intersect open'}
  BY DEF FromDisk
<1>4. settings' \in [Ids -> Settings]
  BY <1>1, <1>3, Types DEF DiskType
<1>5. closed' = disk.manifest.closed
  BY <1>1, <1>2, <1>3 DEF ManifestIsReadable, Manifest
<1>6. disk.manifest = [providers |-> project', closed |-> closed']
  BY <1>1, <1>2, <1>3, <1>5 DEF Manifest
<1>7. FlagsOK'
  BY <1>3 DEF FlagsOK, Clean
<1>8. SavedOK'
  <2>1. \A id \in project' : disk.settings[id] = settings'[id] /\ disk.settings[id] # None
    BY <1>2, <1>3
  <2>2. (disk.assoc \intersect project') \ late' = (assoc' \intersect project') \ late'
    BY <1>3
  <2> QED BY <1>6, <2>1, <2>2 DEF SavedOK
<1>9. ManifestIsReadable'
  BY DEF ManifestIsReadable
<1> QED BY <1>2, <1>3, <1>4, <1>7, <1>8, <1>9

\* A load takes what is in the files and clears the marks.
LEMMA LoadProjectStep == ASSUME IInv, LoadProject PROVE IInv'
<1> USE DEF IInv
<1>1. /\ main.at = "frame" /\ storage = "free" /\ Moved /\ deadline' = "none"
      /\ UNCHANGED <<saving, main, storage, calls, disk>> /\ FromDisk
      /\ used' = used \union project' /\ budget' \in BudgetType
  BY SpendType, Types DEF LoadProject, Frame, Cancel
<1>2. /\ task' \in TaskType /\ task'.moved = TRUE /\ task'.at = task.at /\ task'.ok = task.ok
      /\ task'.at \notin {"writing", "written"}
  BY <1>1, Types, MovedTask DEF LockOK
<1>3. TypeOK'
  BY <1>1, <1>2, FromDiskEffect, CleanType, Types, TypeStep
<1>4. LockOK' /\ FreshOK' /\ WritingOK' /\ WrittenOK' /\ StoringOK'
  BY <1>1, <1>2 DEF LockOK, FreshOK, WritingOK, WrittenOK, StoringOK
<1>5. MarkedIsScheduled'
  BY <1>1, FromDiskEffect DEF MarkedIsScheduled
<1> QED BY <1>1, <1>3, <1>4, <1>5, FromDiskEffect

\* A project that is closed has no members and no marks.
LEMMA CloseProjectStep == ASSUME IInv, CloseProject PROVE IInv'
<1> USE DEF IInv
<1>1. /\ main.at = "frame" /\ storage = "free" /\ Moved /\ deadline' = "none" /\ folder' = FALSE
      /\ open' = {} /\ project' = {} /\ closed' = {} /\ assoc' = {} /\ bound' = {} /\ pending' = {}
      /\ flags' = Clean /\ failed' = FALSE /\ silent' = {} /\ late' = {}
      /\ UNCHANGED <<settings, used, saving, main, storage, calls, disk>> /\ budget' \in BudgetType
  BY SpendType, Types DEF CloseProject, Frame, Cancel
<1>2. /\ task' \in TaskType /\ task'.moved = TRUE /\ task'.at = task.at /\ task'.ok = task.ok
      /\ task'.at \notin {"writing", "written"}
  BY <1>1, Types, MovedTask DEF LockOK
<1>3. TypeOK'
  BY <1>1, <1>2, CleanType, Types, TypeStep
<1>4. FlagsOK'
  BY <1>1 DEF FlagsOK, Clean
<1>5. LockOK' /\ FreshOK' /\ WritingOK' /\ WrittenOK' /\ StoringOK'
  BY <1>1, <1>2 DEF LockOK, FreshOK, WritingOK, WrittenOK, StoringOK
<1>6. SavedOK' /\ MarkedIsScheduled' /\ ManifestIsReadable'
  BY <1>1 DEF SavedOK, MarkedIsScheduled, ManifestIsReadable, Settled
<1> QED BY <1>3, <1>4, <1>5, <1>6

\* A crash at any point leaves files that load as they are.
LEMMA CrashStep == ASSUME IInv, CrashAndRestart PROVE IInv'
<1> USE DEF IInv
<1>1. /\ FromDisk /\ used' = project' /\ deadline' = "none" /\ saving' = FALSE /\ task' = NoTask
      /\ main' = [at |-> "frame", deferred |-> FALSE, todo |-> Nothing]
      /\ storage' = "free" /\ calls' = <<>> /\ UNCHANGED disk /\ budget' \in BudgetType
  BY SpendType, Types DEF CrashAndRestart
<1>2. /\ task' \in TaskType /\ task'.at = "none" /\ task'.moved = TRUE /\ task'.ok = FALSE
      /\ main' \in MainType /\ main'.at = "frame" /\ calls' \in Seq({"saved", "store"})
  BY <1>1, NoTaskType, Plans DEF NoTask, MainType
<1>3. TypeOK'
  BY <1>1, <1>2, FromDiskEffect, CleanType, Types, TypeStep
<1>4. LockOK' /\ FreshOK' /\ WritingOK' /\ WrittenOK' /\ StoringOK'
  BY <1>1, <1>2 DEF LockOK, FreshOK, WritingOK, WrittenOK, StoringOK
<1>5. MarkedIsScheduled'
  BY <1>1, FromDiskEffect DEF MarkedIsScheduled
<1> QED BY <1>1, <1>3, <1>4, <1>5, FromDiskEffect

-----------------------------------------------------------------------------
(* The theorems                                                            *)

\* A project that has just been loaded satisfies the invariant.
LEMMA InitInv == ASSUME Init PROVE IInv
<1> USE DEF Init
<1>1. Loaded \subseteq Ids /\ MaxEdits \in Nat /\ MaxAccidents \in Nat
  BY AutosaveAssumption
<1>2. settings \in [Ids -> Settings]
  <2>1. (CHOOSE s \in Settings : TRUE) \in Settings
    BY AutosaveAssumption
  <2> QED BY <2>1
<1>3. /\ task \in TaskType /\ task.at = "none" /\ task.moved = TRUE /\ task.ok = FALSE
      /\ main \in MainType /\ main.at = "frame" /\ flags \in FlagsType
  BY NoTaskType, CleanType, Plans DEF NoTask, MainType
<1>4. /\ disk \in DiskType
      /\ \A id \in project : disk.settings[id] = settings[id] /\ disk.settings[id] # None
      /\ disk.manifest = [providers |-> project, closed |-> closed] /\ disk.assoc = {}
  <2>1. [id \in Ids |-> IF id \in project THEN settings[id] ELSE None]
          \in [Ids -> Settings \union {None}]
    BY <1>2
  <2>2. [providers |-> project, closed |-> {}] \in Manifest
    BY <1>1 DEF Manifest
  <2> QED BY <1>1, <1>2, <2>1, <2>2, Values DEF DiskType
<1>5. TypeOK
  <2>1. budget \in BudgetType /\ calls \in Seq({"saved", "store"})
    BY <1>1 DEF BudgetType
  <2> QED BY <1>1, <1>2, <1>3, <1>4, <2>1, Types
<1>6. FlagsOK /\ LockOK /\ FreshOK /\ WritingOK /\ WrittenOK /\ StoringOK
  BY <1>1, <1>3 DEF FlagsOK, LockOK, FreshOK, WritingOK, WrittenOK, StoringOK, Clean
<1>7. SavedOK /\ MarkedIsScheduled
  BY <1>4 DEF SavedOK, MarkedIsScheduled
<1>8. ManifestIsReadable
  BY <1>1, <1>2, <1>4, Values DEF ManifestIsReadable
<1> QED BY <1>5, <1>6, <1>7, <1>8 DEF IInv

\* Every step keeps the invariant.
LEMMA StepInv == ASSUME IInv, [Next]_vars PROVE IInv'
<1>1. ASSUME NEW id \in Ids,
             \/ OpenProvider(id) \/ CloseProvider(id) \/ AddToProject(id)
             \/ ChangeSettings(id) \/ ChangeAddresses(id)
      PROVE  IInv'
  BY <1>1, OpenProviderStep, CloseProviderStep, AddToProjectStep, ChangeSettingsStep,
     ChangeAddressesStep
<1>2. ASSUME NEW id \in Ids,
             RemoveFromProject(id) \/ EditData(id) \/ BindData(id) \/ Detach(id)
      PROVE  IInv'
  BY <1>2, RemoveFromProjectStep, EditDataStep, BindDataStep, DetachStep
<1>3. CASE AskToStore \/ StoreNow \/ StartDeferredCalls \/ RunDeferredCall \/ EndDeferredCalls
  BY <1>3, DeferredStep
<1>4. CASE LoadProject \/ CloseProject \/ CrashAndRestart
  BY <1>4, LoadProjectStep, CloseProjectStep, CrashStep
<1>5. CASE StoreLocks \/ StoreWritesOne \/ StoreSucceeds \/ StoreFails
  BY <1>5, StoreLocksStep, StoreWritesOneStep, StoreSucceedsStep, StoreFailsStep
<1>6. CASE TaskLocks \/ TaskWrites \/ TaskHasWritten \/ TaskReleases \/ TaskPosts
  BY <1>6, TaskLocksStep, TaskWritesStep, TaskHasWrittenStep, TaskReleasesStep, TaskPostsStep
<1>7. CASE Passes \/ ProcessScheduled
  BY <1>7, PassesStep, ProcessScheduledStep
<1>8. CASE UNCHANGED vars
  <2>1. UNCHANGED <<memory, flags, deadline, saving, task, storage, disk, failed, late>>
        /\ UNCHANGED <<main, calls, budget>>
    BY <1>8 DEF vars
  <2>2. main' \in MainType /\ calls' \in Seq({"saved", "store"}) /\ budget' \in BudgetType
    BY <2>1, Types DEF IInv
  <2> QED BY <2>1, <2>2, QuietStep
<1> QED BY <1>1, <1>2, <1>3, <1>4, <1>5, <1>6, <1>7, <1>8
        DEF Next, UserStep, MainStep, TaskSteps

\* Every reachable state satisfies the inductive invariant.
THEOREM Invariance == Spec => []IInv
  BY InitInv, StepInv, PTL DEF Spec

\* The type of every variable, of the snapshot and of the files.
THEOREM TypeCorrect == Spec => []TypeOK
<1>1. IInv => TypeOK
  BY DEF IInv
<1> QED BY <1>1, Invariance, PTL

\* What is not marked is saved, for any number of providers and however the saves of the
\* task, the stores of the main thread, failures and crashes follow each other - but for
\* base addresses and pages, and for associations of a provider that has joined.
THEOREM UnmarkedAlwaysSaved == Spec => []UnmarkedIsSaved
<1>1. IInv => UnmarkedIsSaved
  BY DEF IInv, SavedOK, UnmarkedIsSaved, Settled
<1> QED BY <1>1, Invariance, PTL

\* What is marked is scheduled, or a store has failed.
THEOREM MarkedAlwaysScheduled == Spec => []MarkedIsScheduled
<1>1. IInv => MarkedIsScheduled
  BY DEF IInv
<1> QED BY <1>1, Invariance, PTL

\* A crash between any two files that are written leaves a manifest that can be loaded.
THEOREM ManifestAlwaysReadable == Spec => []ManifestIsReadable
<1>1. IInv => ManifestIsReadable
  BY DEF IInv
<1> QED BY <1>1, Invariance, PTL

=============================================================================
