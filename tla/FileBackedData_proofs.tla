------------------------ MODULE FileBackedData_proofs ------------------------
(***************************************************************************)
(* The safety properties of FileBackedData that hold for any number of     *)
(* providers, files and values, and any bounds.                            *)
(***************************************************************************)
EXTENDS FileBackedData, TLAPS

(* The inductive invariant ***************************************************)

WellFormed(op) ==
    /\ op.type # "None" => op.path \in Paths
    /\ op.type = "Write" => op.data \in Contents
    /\ op.type = "Read" /\ op.status = "ok" => op.data \in Contents

OperationsOK ==
    \A p \in Providers : WellFormed(operations[p]) /\ WellFormed(results[p])

\* What the main thread is in the middle of.  It has drained the task before it
\* reads a file to bind or visits the entries to flush; entries it is to flush
\* or to relocate stay bound until it gets to them.
MainOK ==
    /\ main.at = "idle" => main = Idle
    /\ main.at \in {"bind", "flush"} => ~running /\ results = NoOperations
    /\ main.at \in {"bind", "relocate"} => main.path \in Paths
    /\ main.at = "bind" /\ main.read # NoFile => Decode[main.read] # NoValue
    /\ main.at = "flush" =>
         \A p \in main.todo : Bound(entries[p]) /\ Dirty(entries[p])
    /\ main.at = "relocate" => \A p \in main.todo : Bound(entries[p])

\* A write under way belongs to a bound entry that still waits for it.
WriteAwaited(e, r) ==
    r.type = "Write" /\ Bound(e) =>
        /\ r.path = e.path /\ Dirty(e) /\ e.touched
        /\ r.revision =< e.revision
        /\ r.revision = e.revision => r.data = Encode[e.value]

Armed(e, timer) == Dirty(e) => timer \in 0..Remaining(e)

FlagsAgree(e) == Bound(e) => (e.touched <=> Dirty(e))

Announced(e, announced) ==
    Bound(e) /\ ~Dirty(e) /\ e.reloadPending => announced

WillLook(p) == externalWorkPending \/ nextSave # Unset \/ callback[p] = "pended"

EntryOK(p) ==
    /\ WriteAwaited(entries[p], InFlight(p))
    /\ Armed(entries[p], nextSave)
    /\ FlagsAgree(entries[p])
    /\ Announced(entries[p], WillLook(p))

IInv ==
    /\ TypeOK
    /\ OperationsOK
    /\ MainOK
    /\ \A p \in Providers : EntryOK(p)

-----------------------------------------------------------------------------
(* Entries after applySynchronizationResults                               *)

\* The result of a write keeps an entry well-typed and bound to its file.
LEMMA AfterWriteType ==
    ASSUME NEW e \in Entry, NEW r \in Operation, r.type = "Write", WellFormed(r)
    PROVE  /\ AfterWrite(e, r) \in Entry
           /\ AfterWrite(e, r).path = e.path
           /\ AfterWrite(e, r).revision = e.revision
<1>1. r.data \in Contents
  BY DEF WellFormed
<1>2. 0 \in 0..Debounce
  BY BoundAssumption
<1>3. CASE r.status = "ok"
  BY <1>1, <1>3 DEF AfterWrite, Entry
<1>4. CASE r.status # "ok"
  BY <1>2, <1>4 DEF AfterWrite, Entry
<1> QED BY <1>3, <1>4

\* So does the result of a read.
LEMMA AfterReadType ==
    ASSUME NEW e \in Entry, NEW r \in Operation, r.type = "Read", WellFormed(r)
    PROVE  /\ AfterRead(e, r) \in Entry
           /\ AfterRead(e, r).path = e.path
           /\ AfterRead(e, r).revision = e.revision
<1>1. /\ AfterFailedRead(e) \in Entry
      /\ AfterFailedRead(e).path = e.path
      /\ AfterFailedRead(e).revision = e.revision
  BY FileAssumption DEF AfterFailedRead, Entry
<1>2. CASE r.status = "ok"
  <2>1. r.data \in Contents
    BY <1>2 DEF WellFormed
  <2>2. Decode[r.data] \in Values \union {NoValue}
    BY <2>1, CodecAssumption
  <2> QED BY <1>2, <2>1, <2>2 DEF AfterRead, Entry
<1>3. CASE r.status # "ok"
  BY <1>1, <1>3 DEF AfterRead, Entry
<1> QED BY <1>2, <1>3

\* Applying the results keeps an entry well-typed and changes neither its file
\* nor its revision.
LEMMA AppliedType ==
    ASSUME TypeOK, OperationsOK, NEW p \in Providers
    PROVE  /\ Applied(p) \in Entry
           /\ Applied(p).path = entries[p].path
           /\ Applied(p).revision = entries[p].revision
<1>1. entries[p] \in Entry /\ results[p] \in Operation /\ WellFormed(results[p])
  BY DEF TypeOK, OperationsOK
<1>2. results[p].type \in {"None", "Read", "Write"}
  BY <1>1 DEF Operation
<1> QED
  BY <1>1, <1>2, AfterWriteType, AfterReadType DEF Applied

\* A write that is still awaited clears both edit flags, or restarts the clock of
\* an entry whose timer is armed.
LEMMA AfterWriteArmed ==
    ASSUME TypeOK, NEW e \in Entry, NEW r \in Operation,
           Dirty(e), e.touched, nextSave \in 0..Remaining(e)
    PROVE  LET a == AfterWrite(e, r) IN
           /\ nextSave # Unset
           /\ Dirty(a) => nextSave \in 0..Remaining(a)
           /\ a.touched <=> Dirty(a)
<1>1. nextSave \in 0..Debounce
  BY BoundAssumption DEF Remaining, Entry, NotDirty, Dirty
<1>2. CASE r.status = "ok"
  BY <1>1, <1>2 DEF AfterWrite, Entry, Dirty, Unset
<1>3. CASE r.status # "ok"
  <2>1. AfterWrite(e, r).dirtyAge = 0 /\ AfterWrite(e, r).touched = e.touched
    BY <1>3 DEF AfterWrite, Entry
  <2> QED BY <1>1, <2>1, BoundAssumption DEF Dirty, NotDirty, Remaining, Unset
<1> QED BY <1>2, <1>3

\* A read that is not overtaken by an edit or another change leaves the entry
\* clean and announces nothing.
LEMMA AfterReadClean ==
    ASSUME NEW e \in Entry, NEW r \in Operation, ~Overtaken(e, r)
    PROVE  LET a == AfterRead(e, r) IN
           /\ ~Dirty(a)
           /\ a.reloadPending = e.reloadPending
           /\ a.touched \in {e.touched, FALSE}
<1>1. ~Dirty(e)
  BY DEF Overtaken
<1> QED BY <1>1 DEF AfterRead, AfterFailedRead, Entry, Dirty

\* Applying the results of a finished task keeps the save timer armed, the two
\* edit flags equal and the pending reloads announced.
LEMMA AppliedArmed ==
    ASSUME IInv, ~running, NEW p \in Providers
    PROVE  /\ Armed(Applied(p), nextSave)
           /\ FlagsAgree(Applied(p))
           /\ Announced(Applied(p), WillLook(p) \/ Repended(p))
<1> DEFINE e == entries[p]
           r == results[p]
<1>1. e \in Entry /\ r \in Operation /\ TypeOK /\ WellFormed(r)
  BY DEF IInv, TypeOK, OperationsOK
<1>2. WriteAwaited(e, r)
  BY DEF IInv, EntryOK, InFlight
<1>3. Armed(e, nextSave) /\ FlagsAgree(e) /\ Announced(e, WillLook(p))
  BY DEF IInv, EntryOK
<1>4. CASE r.type = "None" \/ Obsolete(e, r)
  BY <1>3, <1>4 DEF Applied, Announced
<1>5. CASE ~(r.type = "None" \/ Obsolete(e, r)) /\ r.type = "Write"
  <2>1. Applied(p) = AfterWrite(e, r) /\ Bound(e)
    BY <1>5 DEF Applied, Obsolete
  <2>2. Dirty(e) /\ e.touched /\ nextSave \in 0..Remaining(e)
    BY <1>2, <1>3, <1>5, <2>1 DEF WriteAwaited, Armed
  <2> QED
    BY <1>1, <2>1, <2>2, AfterWriteArmed DEF Armed, FlagsAgree, Announced, WillLook
<1>6. CASE ~(r.type = "None" \/ Obsolete(e, r)) /\ r.type # "Write"
  <2>1. Applied(p) = AfterRead(e, r) /\ r.type = "Read" /\ Bound(e)
    BY <1>1, <1>6 DEF Applied, Operation, Obsolete
  <2>2. CASE Overtaken(e, r)
    <3>1. Repended(p)
      BY <1>6, <2>1, <2>2 DEF Repended
    <3>2. /\ Applied(p).dirtyAge = e.dirtyAge
          /\ Applied(p).touched = e.touched
      BY <1>1, <2>1, <2>2 DEF AfterRead, Entry
    <3> QED
      BY <1>3, <2>1, <3>1, <3>2
         DEF Dirty, Remaining, Armed, FlagsAgree, Announced
  <2>3. CASE ~Overtaken(e, r)
    <3>1. ~Dirty(e) /\ ~e.touched
      BY <1>3, <2>1, <2>3 DEF Overtaken, FlagsAgree
    <3>2. /\ ~Dirty(Applied(p))
          /\ Applied(p).reloadPending = e.reloadPending
          /\ ~Applied(p).touched
      BY <1>1, <2>1, <2>3, <3>1, AfterReadClean
    <3> QED
      BY <1>3, <2>1, <3>1, <3>2 DEF Armed, FlagsAgree, Announced
  <2> QED BY <2>2, <2>3
<1> QED BY <1>4, <1>5, <1>6

-----------------------------------------------------------------------------
(* Every step preserves the invariant                                      *)

LEMMA InitInv == Init => IInv
<1> SUFFICES ASSUME Init PROVE IInv
  OBVIOUS
<1> USE FileAssumption, BoundAssumption DEF Init
<1>1. FreshEntry \in Entry
  BY DEF FreshEntry, Entry
<1>2. NoOp \in Operation
  BY DEF NoOp, Operation
<1>3. TypeOK
  <2>1. NoOperations \in [Providers -> Operation]
    BY <1>2 DEF NoOperations
  <2>2. Idle \in [at : {"idle", "dispatch", "bind", "flush", "relocate", "unbind"},
                  todo : SUBSET Providers, path : Paths \union {NoPath},
                  read : Contents \union {NoFile}]
    BY DEF Idle
  <2>3. budget \in [external : 0..MaxExternal, faults : 0..MaxFaults, moves : 0..MaxMoves]
    OBVIOUS
  <2>4. entries \in [Providers -> Entry] /\ callback \in [Providers -> {"idle", "counted", "pended"}]
    BY <1>1
  <2>5. calls \in 0..MaxCalls /\ nextSave \in {Unset} \union (0..Debounce)
    OBVIOUS
  <2> QED BY <2>1, <2>2, <2>3, <2>4, <2>5 DEF TypeOK
<1>4. OperationsOK
  BY DEF OperationsOK, WellFormed, NoOperations, NoOp
<1>5. MainOK
  BY DEF MainOK, Idle
<1>6. ASSUME NEW p \in Providers PROVE ~Bound(entries[p]) /\ ~Dirty(entries[p])
  BY DEF FreshEntry, Bound, Dirty
<1> QED
  BY <1>3, <1>4, <1>5, <1>6
     DEF IInv, EntryOK, WriteAwaited, Armed, FlagsAgree, Announced

\* Steps that change the flags of one entry only through edits.
LEMMA EditStep ==
    ASSUME IInv, NEW p \in Providers, NEW v \in Values, Edit(p, v),
           calls' \in 0..MaxCalls
    PROVE  IInv'
<1> DEFINE e == entries[p]
           n == entries'[p]
<1> USE DEF Edit
<1>1. e \in Entry /\ TypeOK /\ main = Idle
  BY DEF IInv, TypeOK
<1>2. /\ n \in Entry /\ n.path = e.path /\ n.touched = TRUE
      /\ n.revision = e.revision + 1 /\ n.reloadPending = e.reloadPending
      /\ n.dirtyAge = IF Bound(e) THEN 0 ELSE e.dirtyAge
      /\ \A q \in Providers : q # p => entries'[q] = entries[q]
  BY <1>1, BoundAssumption DEF TypeOK, Entry
<1>3. /\ IF Bound(e) THEN nextSave' \in 0..Debounce ELSE nextSave' = nextSave
      /\ \/ nextSave' = nextSave
         \/ nextSave' \in 0..Debounce /\ (nextSave # Unset => nextSave' =< nextSave)
  BY <1>1, BoundAssumption DEF Earlier, TypeOK, Unset
<1>4. TypeOK'
  BY <1>1, <1>2, <1>3 DEF TypeOK, taskVars, fileVars
<1>5. OperationsOK'
  BY DEF IInv, OperationsOK, WellFormed, taskVars
<1>6. MainOK'
  BY <1>1 DEF IInv, MainOK, Idle, taskVars
<1>7. ASSUME NEW q \in Providers PROVE EntryOK(q)'
  <2>1. EntryOK(q) /\ InFlight(q)' = InFlight(q) /\ InFlight(q) \in Operation
        /\ entries[q] \in Entry
    BY <1>1 DEF IInv, TypeOK, InFlight, taskVars
  <2>2. WillLook(q) => WillLook(q)'
    BY <1>1, <1>3, BoundAssumption DEF WillLook, Unset, TypeOK
  <2>3. CASE q # p
    <3>1. Armed(entries[q], nextSave')
      BY <1>1, <1>2, <1>3, <2>1, <2>3, BoundAssumption
         DEF Armed, EntryOK, Remaining, Entry, TypeOK, Unset
    <3> QED
      BY <1>2, <2>1, <2>2, <2>3, <3>1 DEF EntryOK, Announced
  <2>4. CASE q = p
    <3>1. WriteAwaited(n, InFlight(p))
      BY <1>2, <2>1, <2>4 DEF EntryOK, WriteAwaited, Bound, Dirty, Entry, Operation, NotDirty
    <3>2. Armed(n, nextSave')
      <4>1. CASE Bound(e)
        BY <1>2, <1>3, <4>1, BoundAssumption DEF Armed, Remaining
      <4>2. CASE ~Bound(e)
        BY <1>2, <1>3, <2>1, <2>4, <4>2 DEF EntryOK, Armed, Dirty, Remaining
      <4> QED BY <4>1, <4>2
    <3>3. FlagsAgree(n)
      BY <1>2 DEF FlagsAgree, Bound, Dirty, NotDirty
    <3>4. Announced(n, WillLook(p)')
      BY <1>2 DEF Announced, Bound, Dirty, NotDirty
    <3> QED
      BY <2>1, <2>4, <3>1, <3>2, <3>3, <3>4 DEF EntryOK
  <2> QED BY <2>3, <2>4
<1> QED
  BY <1>4, <1>5, <1>6, <1>7 DEF IInv

\* An entry a step does not touch stays in order while no flag is withdrawn.
LEMMA KeptEntry ==
    ASSUME IInv, NEW q \in Providers, entries'[q] = entries[q],
           InFlight(q)' = InFlight(q), nextSave' = nextSave,
           WillLook(q) => WillLook(q)'
    PROVE  EntryOK(q)'
<1>1. EntryOK(q)
  BY DEF IInv
<1> QED BY <1>1 DEF EntryOK, Announced

\* An entry to which the results of the finished task are applied is in order.
LEMMA AppliedEntry ==
    ASSUME IInv, FinishSynchronization, NEW q \in Providers,
           entries'[q] = Applied(q), callback'[q] = callback[q],
           UNCHANGED <<nextSave, taskVars>>
    PROVE  EntryOK(q)'
<1>1. InFlight(q)' = NoOp
  BY DEF FinishSynchronization, ConsumeResults, InFlight, NoOperations, taskVars
<1>2. WriteAwaited(entries'[q], InFlight(q)')
  BY <1>1 DEF WriteAwaited, NoOp
<1>3. /\ Armed(Applied(q), nextSave) /\ FlagsAgree(Applied(q))
      /\ Announced(Applied(q), WillLook(q) \/ Repended(q))
  BY AppliedArmed DEF FinishSynchronization
<1>4. WillLook(q) \/ Repended(q) => WillLook(q)'
  BY DEF WillLook, FinishSynchronization, ConsumeResults
<1> QED
  BY <1>2, <1>3, <1>4 DEF EntryOK, Announced

\* So is an entry with nothing pending.
LEMMA ResetEntry ==
    ASSUME NEW q \in Providers, ~Dirty(entries'[q]), ~entries'[q].touched,
           ~entries'[q].reloadPending,
           InFlight(q)'.type # "Write" \/ ~Bound(entries'[q])
    PROVE  EntryOK(q)'
BY DEF EntryOK, WriteAwaited, Armed, FlagsAgree, Announced

\* Applying the results leaves all entries well-typed and drains the results.
LEMMA FinishType ==
    ASSUME TypeOK, OperationsOK, FinishSynchronization
    PROVE  /\ AppliedEntries \in [Providers -> Entry]
           /\ results' \in [Providers -> Operation]
           /\ externalWorkPending' \in BOOLEAN
           /\ \A q \in Providers : WellFormed(results'[q])
<1>1. AppliedEntries \in [Providers -> Entry]
  BY AppliedType DEF AppliedEntries
<1>2. NoOp \in Operation /\ WellFormed(NoOp)
  BY DEF NoOp, Operation, WellFormed
<1> QED
  BY <1>1, <1>2 DEF FinishSynchronization, ConsumeResults, NoOperations, TypeOK

MainType ==
    [at : {"idle", "dispatch", "bind", "flush", "relocate", "unbind"},
     todo : SUBSET Providers, path : Paths \union {NoPath},
     read : Contents \union {NoFile}]

\* A job over any of the providers is well-typed, and over when none is left.
LEMMA JobType ==
    ASSUME NEW at \in {"flush", "relocate", "unbind"}, NEW todo \in SUBSET Providers,
           NEW path \in Paths \union {NoPath}
    PROVE  /\ Job(at, todo, path) \in MainType
           /\ Job(at, todo, path) # Idle =>
                Job(at, todo, path) = [at |-> at, todo |-> todo, path |-> path, read |-> NoFile]
BY DEF Job, Idle, MainType

LEMMA BindReadStep ==
    ASSUME IInv, NEW p \in Providers, NEW file \in Paths, BindRead(p, file),
           calls' \in 0..MaxCalls
    PROVE  IInv'
<1> USE DEF BindRead
<1>1. TypeOK /\ OperationsOK /\ main = Idle
  BY DEF IInv
<1>2. TypeOK'
  BY <1>1, FinishType DEF TypeOK, taskVars, Idle
<1>3. OperationsOK'
  BY <1>1, FinishType DEF OperationsOK, WellFormed, taskVars
<1>4. MainOK'
  BY <1>1 DEF MainOK, Idle, FinishSynchronization, ConsumeResults, taskVars
<1>5. ASSUME NEW q \in Providers PROVE EntryOK(q)'
  BY AppliedEntry DEF AppliedEntries, taskVars
<1> QED BY <1>2, <1>3, <1>4, <1>5 DEF IInv

LEMMA BindFinishStep ==
    ASSUME IInv, NEW p \in Providers, BindFinish(p), calls' \in 0..MaxCalls
    PROVE  IInv'
<1> DEFINE e == entries[p]
           n == entries'[p]
<1>1. /\ TypeOK /\ OperationsOK /\ e \in Entry
      /\ main.path \in Paths /\ ~running /\ results = NoOperations
  BY DEF IInv, TypeOK, MainOK, BindFinish
<1>2. main.read # NoFile => Decode[main.read] \in Values /\ main.read \in Contents
  BY <1>1, CodecAssumption DEF IInv, MainOK, TypeOK, BindFinish
<1>3. /\ \A q \in Providers : q # p => entries'[q] = entries[q]
      /\ n = [e EXCEPT
           !.path = main.path, !.missing = FALSE, !.reloadPending = FALSE,
           !.value = IF main.read = NoFile THEN @ ELSE Decode[main.read],
           !.diskSerialized = IF main.read = NoFile THEN EmptyBytes ELSE main.read,
           !.dirtyAge = IF main.read = NoFile THEN Debounce ELSE NotDirty,
           !.touched = main.read = NoFile]
  BY <1>1 DEF TypeOK, BindFinish
<1>4. /\ n.reloadPending = FALSE /\ n \in Entry
      /\ main.read = NoFile => n.dirtyAge = Debounce /\ n.touched = TRUE
      /\ main.read # NoFile => n.dirtyAge = NotDirty /\ n.touched = FALSE
  <2>1. CASE main.read = NoFile
    <3>1. n = [e EXCEPT !.path = main.path, !.missing = FALSE, !.reloadPending = FALSE,
               !.diskSerialized = EmptyBytes, !.dirtyAge = Debounce, !.touched = TRUE]
      BY <1>1, <1>3, <2>1 DEF Entry
    <3>2. EmptyBytes \in Contents /\ Debounce \in 0..Debounce
      BY BoundAssumption, FileAssumption
    <3>3. n \in Entry
      BY <1>1, <3>1, <3>2 DEF Entry
    <3>4. n.reloadPending = FALSE /\ n.dirtyAge = Debounce /\ n.touched = TRUE
      BY <1>1, <3>1 DEF Entry
    <3> QED BY <2>1, <3>3, <3>4
  <2>2. CASE main.read # NoFile
    BY <1>1, <1>2, <1>3, <2>2, BoundAssumption, FileAssumption DEF Entry
  <2> QED BY <2>1, <2>2
<1>5. nextSave' \in {nextSave, 0} /\ (main.read = NoFile => nextSave' = 0)
  BY DEF BindFinish
<1>6. TypeOK'
  <2>1. entries' \in [Providers -> Entry]
    <3>1. \A q \in Providers : entries'[q] \in Entry
      BY <1>1, <1>3, <1>4 DEF TypeOK
    <3> QED BY <1>1, <3>1 DEF BindFinish, TypeOK
  <2>2. nextSave' \in {Unset} \union (0..Debounce)
    BY <1>1, <1>5, BoundAssumption DEF TypeOK
  <2> QED
    BY <1>1, <2>1, <2>2 DEF TypeOK, BindFinish, StopTracking, taskVars, fileVars, Idle
<1>7. OperationsOK'
  BY <1>1 DEF OperationsOK, WellFormed, taskVars, BindFinish
<1>8. MainOK'
  BY DEF MainOK, Idle, BindFinish
<1>9. ASSUME NEW q \in Providers PROVE EntryOK(q)'
  <2>1. InFlight(q)' = NoOp
    BY <1>1 DEF InFlight, taskVars, NoOperations, BindFinish
  <2>2. WriteAwaited(entries'[q], InFlight(q)')
    BY <2>1 DEF WriteAwaited, NoOp
  <2>3. CASE q = p
    <3>1. Armed(n, nextSave')
      BY <1>4, <1>5, BoundAssumption DEF Armed, Dirty, Remaining, NotDirty
    <3>2. FlagsAgree(n)
      <4>1. CASE main.read = NoFile
        BY <1>4, <4>1, BoundAssumption DEF FlagsAgree, Dirty, NotDirty
      <4>2. CASE main.read # NoFile
        BY <1>4, <4>2 DEF FlagsAgree, Dirty
      <4> QED BY <4>1, <4>2
    <3> QED
      BY <1>4, <2>2, <2>3, <3>1, <3>2 DEF EntryOK, Announced
  <2>4. CASE q # p
    <3>1. EntryOK(q) /\ entries[q] \in Entry
      BY DEF IInv, TypeOK
    <3>2. Armed(entries[q], nextSave')
      BY <1>5, <3>1, BoundAssumption DEF EntryOK, Armed, Remaining, Entry, NotDirty, Dirty
    <3>3. WillLook(q) => WillLook(q)'
      BY <1>5 DEF WillLook, Unset, BindFinish
    <3> QED
      BY <1>3, <2>2, <2>4, <3>1, <3>2, <3>3 DEF EntryOK, Announced
  <2> QED BY <2>3, <2>4
<1> QED BY <1>6, <1>7, <1>8, <1>9 DEF IInv

LEMMA UnbindStep ==
    ASSUME IInv, NEW p \in Providers, Unbind(p), calls' \in 0..MaxCalls
    PROVE  IInv'
<1> DEFINE a == Applied(p)
           n == entries'[p]
<1>1. /\ TypeOK /\ OperationsOK /\ AppliedEntries \in [Providers -> Entry]
      /\ FinishSynchronization /\ a \in Entry
  BY FinishType, AppliedType DEF IInv, Unbind
<1>2. /\ \A q \in Providers : q # p => entries'[q] = Applied(q)
      /\ n = [a EXCEPT !.path = NoPath, !.value = Default,
              !.diskSerialized = EmptyBytes, !.dirtyAge = NotDirty,
              !.touched = FALSE, !.reloadPending = FALSE]
  BY <1>1 DEF Unbind, AppliedEntries
<1>3. n \in Entry /\ ~Bound(n) /\ ~Dirty(n) /\ ~n.touched /\ ~n.reloadPending
  BY <1>1, <1>2, FileAssumption DEF Entry, Bound, Dirty
<1>4. main' \in MainType /\ (main' = Idle \/ main'.at = "unbind")
  <2>1. CASE main = Idle
    BY <2>1 DEF Unbind, JobDone, Job, Idle, MainType
  <2>2. CASE main.at = "unbind"
    <3>1. main' = Job("unbind", main.todo \ {p}, main.path)
      BY <2>2 DEF Unbind, JobDone
    <3>2. main.todo \ {p} \in SUBSET Providers /\ main.path \in Paths \union {NoPath}
      BY <1>1 DEF TypeOK
    <3>3. /\ Job("unbind", main.todo \ {p}, main.path) \in MainType
          /\ \/ Job("unbind", main.todo \ {p}, main.path) = Idle
             \/ Job("unbind", main.todo \ {p}, main.path).at = "unbind"
      BY <3>2, JobType
    <3> QED BY <3>1, <3>3
  <2> QED BY <2>1, <2>2 DEF Unbind
<1>5. TypeOK'
  <2>1. entries' \in [Providers -> Entry]
    <3>1. \A q \in Providers : entries'[q] \in Entry
      BY <1>1, <1>2, <1>3, AppliedType
    <3> QED BY <1>1, <3>1 DEF Unbind
  <2> QED
    BY <1>1, <1>4, <2>1, FinishType
       DEF TypeOK, Unbind, StopTracking, taskVars, fileVars, MainType
<1>6. OperationsOK'
  BY <1>1, FinishType DEF OperationsOK, WellFormed, taskVars, Unbind
<1>7. MainOK'
  BY <1>4 DEF MainOK, Idle
<1>8. ASSUME NEW q \in Providers PROVE EntryOK(q)'
  <2>1. CASE q = p
    BY <1>3, <2>1, ResetEntry
  <2>2. CASE q # p
    BY <1>1, <1>2, <2>2, AppliedEntry DEF Unbind, taskVars
  <2> QED BY <2>1, <2>2
<1> QED BY <1>5, <1>6, <1>7, <1>8 DEF IInv

LEMMA FlushStep ==
    ASSUME IInv, Flush, calls' \in 0..MaxCalls
    PROVE  IInv'
<1> DEFINE todo == {p \in Providers : NeedsFlush(Applied(p))}
<1>1. TypeOK /\ OperationsOK /\ ~running /\ FinishSynchronization
  BY DEF IInv, FinishSynchronization, Flush
<1>2. /\ main' \in MainType
      /\ main' # Idle =>
           main' = [at |-> "flush", todo |-> todo, path |-> NoPath, read |-> NoFile]
  BY JobType DEF Flush
<1>3. TypeOK'
  BY <1>1, <1>2, FinishType DEF TypeOK, taskVars, fileVars, MainType, Flush
<1>4. OperationsOK'
  BY <1>1, FinishType DEF OperationsOK, WellFormed, taskVars, Flush
<1>5. ASSUME NEW q \in Providers PROVE EntryOK(q)'
  BY <1>1, AppliedEntry DEF AppliedEntries, taskVars, Flush
<1>6. \A q \in todo : Bound(entries'[q]) /\ Dirty(entries'[q])
  BY <1>1, AppliedArmed DEF NeedsFlush, FlagsAgree, AppliedEntries, Flush
<1>7. ~running' /\ results' = NoOperations
  BY <1>1 DEF Flush, FinishSynchronization, ConsumeResults, taskVars
<1>8. MainOK'
  BY <1>2, <1>6, <1>7 DEF MainOK, Idle
<1> QED BY <1>3, <1>4, <1>5, <1>8 DEF IInv

\* Steps off the main thread leave it in order if they neither start a task nor
\* take a binding or an edit away.
LEMMA MainKept ==
    ASSUME MainOK, main' = main, main \in MainType,
           main.at \in {"bind", "flush"} => UNCHANGED <<running, results>>,
           \A p \in Providers : Bound(entries[p]) => Bound(entries'[p]),
           \A p \in Providers : Dirty(entries[p]) => Dirty(entries'[p])
    PROVE  MainOK'
<1> main.todo \in SUBSET Providers
  BY DEF MainType
<1>1. main.at = "flush" =>
        \A p \in main.todo : Bound(entries'[p]) /\ Dirty(entries'[p])
  BY DEF MainOK
<1>2. main.at = "relocate" => \A p \in main.todo : Bound(entries'[p])
  BY DEF MainOK
<1>3. main.at \in {"bind", "flush"} => ~running' /\ results' = NoOperations
  BY DEF MainOK
<1> QED BY <1>1, <1>2, <1>3 DEF MainOK

LEMMA FlushEntryStep ==
    ASSUME IInv, NEW p \in Providers, FlushEntry(p), calls' \in 0..MaxCalls
    PROVE  IInv'
<1> DEFINE e == entries[p]
           n == entries'[p]
<1>1. /\ TypeOK /\ OperationsOK /\ e \in Entry /\ main \in MainType
      /\ main.at = "flush" /\ ~running /\ results = NoOperations
      /\ \A q \in main.todo : Bound(entries[q]) /\ Dirty(entries[q])
  BY DEF IInv, TypeOK, MainOK, FlushEntry, MainType
<1>2. /\ Bound(e) /\ Dirty(e) /\ nextSave # Unset /\ e.path \in Paths
      /\ Encode[e.value] \in Contents
  <2>1. Bound(e) /\ Dirty(e)
    BY <1>1 DEF FlushEntry
  <2>2. nextSave \in 0..Remaining(e)
    BY <2>1 DEF IInv, EntryOK, Armed
  <2>3. Remaining(e) \in Int
    BY <1>1, BoundAssumption DEF Remaining, Entry, NotDirty
  <2> QED BY <1>1, <2>1, <2>2, <2>3, CodecAssumption DEF Unset, Entry, Bound
<1>3. /\ \A q \in Providers : q # p => entries'[q] = entries[q]
      /\ \/ entries' = entries
         \/ n = [e EXCEPT !.diskSerialized = Encode[e.value],
                  !.dirtyAge = NotDirty, !.touched = FALSE, !.missing = FALSE]
  BY <1>1 DEF FlushEntry, TypeOK
<1>4. /\ n \in Entry /\ n.path = e.path
      /\ entries' = entries \/ (~Dirty(n) /\ ~n.touched)
  BY <1>1, <1>2, <1>3 DEF Entry, Dirty
<1>5. /\ main' \in MainType
      /\ main' # Idle => main'.at = "flush" /\ main'.todo = main.todo \ {p}
  <2>1. main' = Job("flush", main.todo \ {p}, main.path)
    BY <1>1 DEF FlushEntry, JobDone
  <2>2. main.todo \ {p} \in SUBSET Providers /\ main.path \in Paths \union {NoPath}
    BY <1>1 DEF MainType
  <2>3. LET j == Job("flush", main.todo \ {p}, main.path) IN
        j \in MainType /\ (j # Idle => j.at = "flush" /\ j.todo = main.todo \ {p})
    BY <2>2, JobType
  <2> QED BY <2>1, <2>3
<1>6. TypeOK'
  <2>1. entries' \in [Providers -> Entry]
    <3>1. \A q \in Providers : entries'[q] \in Entry
      BY <1>1, <1>3, <1>4 DEF TypeOK
    <3> QED BY <1>1, <3>1 DEF FlushEntry, TypeOK
  <2>2. /\ disk' \in [Paths -> Contents \union {NoFile}]
        /\ fileEvents' \in SUBSET Providers
    BY <1>1, <1>2 DEF FlushEntry, PutFile, Watchers, TypeOK
  <2>3. budget' \in [external : 0..MaxExternal, faults : 0..MaxFaults, moves : 0..MaxMoves]
    BY <1>1, BoundAssumption DEF FlushEntry, MayFail, Failed, TypeOK
  <2> QED
    BY <1>1, <1>5, <2>1, <2>2, <2>3 DEF TypeOK, FlushEntry, taskVars, MainType
<1>7. OperationsOK'
  BY <1>1 DEF OperationsOK, WellFormed, taskVars, FlushEntry
<1>8. MainOK'
  <2>1. ASSUME NEW q \in main.todo, q # p
        PROVE  Bound(entries'[q]) /\ Dirty(entries'[q])
    BY <1>1, <1>3, <2>1 DEF MainType
  <2>2. ~running' /\ results' = NoOperations
    BY <1>1 DEF FlushEntry, taskVars
  <2> QED BY <1>5, <2>1, <2>2 DEF MainOK, Idle
<1>9. ASSUME NEW q \in Providers PROVE EntryOK(q)'
  <2>1. InFlight(q)' = InFlight(q) /\ (WillLook(q) => WillLook(q)')
    BY DEF InFlight, WillLook, taskVars, FlushEntry
  <2>2. CASE entries'[q] = entries[q]
    BY <2>1, <2>2, KeptEntry DEF FlushEntry
  <2>3. CASE entries'[q] # entries[q]
    <3>1. q = p /\ ~Dirty(n) /\ ~n.touched /\ WillLook(p)'
      BY <1>2, <1>3, <1>4, <2>3 DEF WillLook, FlushEntry
    <3>2. InFlight(q)' = NoOp
      BY <1>1 DEF InFlight, NoOperations, taskVars, FlushEntry
    <3> QED
      BY <3>1, <3>2 DEF EntryOK, WriteAwaited, NoOp, Armed, FlagsAgree, Announced
  <2> QED BY <2>2, <2>3
<1> QED BY <1>6, <1>7, <1>8, <1>9 DEF IInv

LEMMA MoveProjectEntryStep ==
    ASSUME IInv, NEW from \in Paths, NEW to \in Paths, MoveProjectEntry(from, to),
           calls' \in 0..MaxCalls
    PROVE  IInv'
<1>1. TypeOK /\ OperationsOK
  BY DEF IInv
<1>2. /\ main' \in MainType
      /\ main' # Idle => main' = [at |-> "relocate", todo |-> Watchers(from),
                                  path |-> to, read |-> NoFile]
  BY JobType DEF MoveProjectEntry, Watchers
<1>3. TypeOK'
  <2>1. budget' \in [external : 0..MaxExternal, faults : 0..MaxFaults, moves : 0..MaxMoves]
    BY <1>1, BoundAssumption DEF MoveProjectEntry, TypeOK
  <2>2. /\ disk' \in [Paths -> Contents \union {NoFile}]
        /\ fileEvents' \in SUBSET Providers
    BY <1>1 DEF MoveProjectEntry, Watchers, TypeOK
  <2> QED
    BY <1>1, <1>2, <2>1, <2>2 DEF TypeOK, MoveProjectEntry, taskVars, MainType
<1>4. OperationsOK'
  BY <1>1 DEF OperationsOK, WellFormed, taskVars, MoveProjectEntry
<1>5. MainOK'
  <2>1. \A q \in Watchers(from) : Bound(entries'[q])
    BY FileAssumption DEF Watchers, Bound, MoveProjectEntry
  <2> QED BY <1>2, <2>1 DEF MainOK, Idle
<1>6. ASSUME NEW q \in Providers PROVE EntryOK(q)'
  BY KeptEntry DEF InFlight, WillLook, taskVars, MoveProjectEntry
<1> QED BY <1>3, <1>4, <1>5, <1>6 DEF IInv

LEMMA DeleteProjectEntryStep ==
    ASSUME IInv, NEW file \in Paths, DeleteProjectEntry(file),
           calls' \in 0..MaxCalls
    PROVE  IInv'
<1>1. TypeOK /\ OperationsOK
  BY DEF IInv
<1>2. main' \in MainType /\ (main' # Idle => main'.at = "unbind")
  BY JobType DEF DeleteProjectEntry, Watchers
<1>3. TypeOK'
  <2>1. budget' \in [external : 0..MaxExternal, faults : 0..MaxFaults, moves : 0..MaxMoves]
    BY <1>1, BoundAssumption DEF DeleteProjectEntry, TypeOK
  <2>2. /\ disk' \in [Paths -> Contents \union {NoFile}]
        /\ fileEvents' \in SUBSET Providers
    BY <1>1 DEF DeleteProjectEntry, PutFile, Watchers, TypeOK
  <2> QED
    BY <1>1, <1>2, <2>1, <2>2 DEF TypeOK, DeleteProjectEntry, taskVars, MainType
<1>4. OperationsOK'
  BY <1>1 DEF OperationsOK, WellFormed, taskVars, DeleteProjectEntry
<1>5. MainOK'
  BY <1>2 DEF MainOK, Idle
<1>6. ASSUME NEW q \in Providers PROVE EntryOK(q)'
  BY KeptEntry DEF InFlight, WillLook, taskVars, DeleteProjectEntry
<1> QED BY <1>3, <1>4, <1>5, <1>6 DEF IInv

LEMMA RelocateStep ==
    ASSUME IInv, NEW p \in Providers, Relocate(p), calls' \in 0..MaxCalls
    PROVE  IInv'
<1> DEFINE a == Applied(p)
           n == entries'[p]
<1>1. /\ TypeOK /\ OperationsOK /\ AppliedEntries \in [Providers -> Entry]
      /\ FinishSynchronization /\ ~running /\ a \in Entry /\ Bound(a)
      /\ main \in MainType /\ main.at = "relocate" /\ main.path \in Paths
      /\ \A q \in main.todo : Bound(entries[q])
  BY FinishType, AppliedType
     DEF IInv, Relocate, FinishSynchronization, MainOK, MainType, TypeOK, Bound
<1>2. /\ \A q \in Providers : q # p => entries'[q] = Applied(q)
      /\ n = [a EXCEPT !.path = main.path, !.missing = FALSE, !.reloadPending = FALSE]
  BY <1>1 DEF Relocate, AppliedEntries
<1>3. /\ n \in Entry /\ n.dirtyAge = a.dirtyAge /\ n.touched = a.touched
      /\ n.reloadPending = FALSE
  BY <1>1, <1>2 DEF Entry
<1>4. /\ main' \in MainType
      /\ main' # Idle => /\ main'.at = "relocate" /\ main'.todo = main.todo \ {p}
                         /\ main'.path = main.path
  <2>1. main' = Job("relocate", main.todo \ {p}, main.path)
    BY <1>1 DEF Relocate, JobDone
  <2>2. main.todo \ {p} \in SUBSET Providers /\ main.path \in Paths \union {NoPath}
    BY <1>1 DEF MainType
  <2>3. LET j == Job("relocate", main.todo \ {p}, main.path) IN
        /\ j \in MainType
        /\ j # Idle => /\ j.at = "relocate" /\ j.todo = main.todo \ {p}
                       /\ j.path = main.path
    BY <2>2, JobType
  <2> QED BY <2>1, <2>3
<1>5. TypeOK'
  <2>1. entries' \in [Providers -> Entry]
    <3>1. \A q \in Providers : entries'[q] \in Entry
      BY <1>1, <1>2, <1>3, AppliedType
    <3> QED BY <1>1, <3>1 DEF Relocate
  <2> QED
    BY <1>1, <1>4, <2>1, FinishType
       DEF TypeOK, Relocate, StopTracking, taskVars, fileVars, MainType
<1>6. OperationsOK'
  BY <1>1, FinishType DEF OperationsOK, WellFormed, taskVars, Relocate
<1>7. MainOK'
  <2>1. ASSUME NEW q \in main.todo, q # p PROVE Bound(entries'[q])
    BY <1>1, <1>2, <2>1, AppliedType DEF MainType, Bound
  <2> QED BY <1>1, <1>4, <2>1 DEF MainOK, Idle, MainType
<1>8. ASSUME NEW q \in Providers PROVE EntryOK(q)'
  <2>1. CASE q = p
    <3>1. InFlight(p)' = NoOp
      BY <1>1 DEF Relocate, ConsumeResults, FinishSynchronization, InFlight,
                  NoOperations, taskVars
    <3>2. Armed(a, nextSave) /\ FlagsAgree(a)
      BY <1>1, AppliedArmed
    <3>3. Armed(n, nextSave') /\ FlagsAgree(n)
      BY <1>1, <1>3, <3>2 DEF Relocate, Armed, FlagsAgree, Dirty, Remaining
    <3> QED
      BY <1>3, <2>1, <3>1, <3>3 DEF EntryOK, WriteAwaited, NoOp, Announced
  <2>2. CASE q # p
    BY <1>1, <1>2, <2>2, AppliedEntry DEF Relocate, taskVars
  <2> QED BY <2>1, <2>2
<1> QED BY <1>5, <1>6, <1>7, <1>8 DEF IInv

LEMMA MovePerProviderDataStep ==
    ASSUME IInv, NEW from \in Providers, NEW to \in Providers,
           MovePerProviderData(from, to), calls' \in 0..MaxCalls
    PROVE  IInv'
<1>1. /\ TypeOK /\ OperationsOK /\ AppliedEntries \in [Providers -> Entry]
      /\ FinishSynchronization /\ ~running /\ from # to /\ main = Idle
  BY FinishType DEF IInv, MovePerProviderData, FinishSynchronization
<1>2. FreshEntry \in Entry
  BY FileAssumption, BoundAssumption DEF FreshEntry, Entry
<1>3. /\ entries'[to] = Applied(from) /\ entries'[from] = FreshEntry
      /\ \A q \in Providers : q \notin {from, to} => entries'[q] = Applied(q)
  BY <1>1 DEF MovePerProviderData, AppliedEntries
<1>4. /\ callback'[to] = callback[from]
      /\ \A q \in Providers : q \notin {from, to} => callback'[q] = callback[q]
      /\ callback' \in [Providers -> {"idle", "counted", "pended"}]
  BY <1>1 DEF MovePerProviderData, TypeOK
<1>5. TypeOK'
  <2>1. entries' \in [Providers -> Entry]
    <3>1. \A q \in Providers : entries'[q] \in Entry
      BY <1>1, <1>2, <1>3, AppliedType
    <3> QED BY <1>1, <3>1 DEF MovePerProviderData
  <2>2. fileEvents' \in SUBSET Providers /\ unreported' \in SUBSET Providers
    BY <1>1 DEF MovePerProviderData, TypeOK
  <2> QED
    BY <1>1, <1>4, <2>1, <2>2, FinishType DEF TypeOK, MovePerProviderData, taskVars
<1>6. OperationsOK'
  BY <1>1, FinishType DEF OperationsOK, WellFormed, taskVars, MovePerProviderData
<1>7. MainOK'
  BY <1>1 DEF MainOK, Idle, MovePerProviderData
<1>8. ASSUME NEW q \in Providers PROVE EntryOK(q)'
  <2>1. InFlight(q)' = NoOp
    BY <1>1 DEF MovePerProviderData, ConsumeResults, FinishSynchronization, InFlight,
                NoOperations, taskVars
  <2>2. CASE q = to
    <3>1. /\ Armed(Applied(from), nextSave) /\ FlagsAgree(Applied(from))
          /\ Announced(Applied(from), WillLook(from) \/ Repended(from))
      BY <1>1, AppliedArmed
    <3>2. WillLook(from) \/ Repended(from) => WillLook(to)'
      BY <1>1, <1>4
         DEF WillLook, MovePerProviderData, FinishSynchronization, ConsumeResults
    <3>3. nextSave' = nextSave
      BY DEF MovePerProviderData
    <3> QED
      BY <1>3, <2>1, <2>2, <3>1, <3>2, <3>3 DEF EntryOK, WriteAwaited, NoOp, Announced
  <2>3. CASE q = from
    <3>1. /\ ~Dirty(entries'[q]) /\ ~entries'[q].touched
          /\ ~entries'[q].reloadPending /\ ~Bound(entries'[q])
      BY <1>3, <2>3 DEF FreshEntry, Bound, Dirty
    <3> QED BY <3>1, ResetEntry
  <2>4. CASE q \notin {from, to}
    BY <1>1, <1>3, <1>4, <2>4, AppliedEntry DEF MovePerProviderData, taskVars
  <2> QED BY <2>2, <2>3, <2>4
<1> QED BY <1>5, <1>6, <1>7, <1>8 DEF IInv

LEMMA EraseStep ==
    ASSUME IInv, NEW gone \in SUBSET Providers, Erase(gone), calls' \in 0..MaxCalls
    PROVE  IInv'
<1>1. TypeOK /\ OperationsOK
  BY DEF IInv
<1>2. FreshEntry \in Entry
  BY FileAssumption, BoundAssumption DEF FreshEntry, Entry
<1>3. entries' \in [Providers -> Entry]
  BY <1>1, <1>2 DEF Erase, TypeOK
<1>4. fileEvents' \in SUBSET Providers
  BY <1>1 DEF Erase, TypeOK
<1>5. TypeOK'
  BY <1>1, <1>3, <1>4 DEF TypeOK, Erase, taskVars, fileVars
<1>6. OperationsOK'
  BY <1>1 DEF OperationsOK, WellFormed, taskVars, Erase
<1>7. MainOK'
  BY DEF MainOK, Idle, Erase
<1>8. ASSUME NEW q \in Providers PROVE EntryOK(q)'
  <2>1. CASE q \in gone
    <3>1. /\ ~Dirty(entries'[q]) /\ ~entries'[q].touched
          /\ ~entries'[q].reloadPending /\ ~Bound(entries'[q])
      BY <2>1 DEF Erase, FreshEntry, Bound, Dirty
    <3> QED BY <3>1, ResetEntry
  <2>2. CASE q \notin gone
    BY <2>2, KeptEntry DEF Erase, InFlight, WillLook, taskVars
  <2> QED BY <2>1, <2>2
<1> QED BY <1>5, <1>6, <1>7, <1>8 DEF IInv

LEMMA SynchronizeApplyStep ==
    ASSUME IInv, SynchronizeApply, calls' \in 0..MaxCalls
    PROVE  IInv'
<1>1. /\ TypeOK /\ OperationsOK
      /\ main' \in MainType /\ main'.at = "dispatch"
  BY DEF IInv, SynchronizeApply, MainType, Idle
<1>2. MainOK'
  BY <1>1 DEF MainOK
<1>3. CASE running /\ UNCHANGED <<entries, results, externalWorkPending>>
  <2>1. TypeOK'
    BY <1>1, <1>3 DEF TypeOK, SynchronizeApply, taskVars, fileVars, MainType
  <2>2. OperationsOK'
    BY <1>1, <1>3 DEF OperationsOK, WellFormed, taskVars, SynchronizeApply
  <2>3. ASSUME NEW q \in Providers PROVE EntryOK(q)'
    BY <1>3, KeptEntry DEF SynchronizeApply, InFlight, WillLook, taskVars
  <2> QED BY <1>2, <2>1, <2>2, <2>3 DEF IInv
<1>4. CASE ~running /\ ConsumeResults /\ entries' = AppliedEntries
  <2>1. FinishSynchronization
    BY <1>4 DEF FinishSynchronization
  <2>2. TypeOK'
    BY <1>1, <1>4, <2>1, FinishType
       DEF TypeOK, SynchronizeApply, taskVars, fileVars, MainType
  <2>3. OperationsOK'
    BY <1>1, <2>1, FinishType DEF OperationsOK, WellFormed, taskVars, SynchronizeApply
  <2>4. ASSUME NEW q \in Providers PROVE EntryOK(q)'
    BY <1>4, <2>1, AppliedEntry DEF SynchronizeApply, AppliedEntries, taskVars
  <2> QED BY <1>2, <2>2, <2>3, <2>4 DEF IInv
<1> QED BY <1>3, <1>4 DEF SynchronizeApply

\* The operation planned for an entry is well-typed; a planned write carries the
\* entry's current value to its file.
LEMMA OperationForOK ==
    ASSUME TypeOK, NEW p \in Providers, FlagsAgree(entries[p])
    PROVE  LET op == OperationFor(p) IN
           /\ op \in Operation /\ WellFormed(op)
           /\ WriteAwaited(entries[p], op)
<1> DEFINE e == entries[p]
<1>1. e \in Entry /\ Encode[e.value] \in Contents
  BY CodecAssumption DEF TypeOK, Entry
<1>2. CASE Readable(e)
  BY <1>1, <1>2 DEF OperationFor, Readable, Bound, Entry, Operation, WellFormed,
                    WriteAwaited
<1>3. CASE ~Readable(e) /\ Writable(e)
  <2>1. Bound(e) /\ Dirty(e) /\ e.touched /\ e.path \in Paths
    BY <1>1, <1>3, BoundAssumption
       DEF Writable, Due, Dirty, NotDirty, FlagsAgree, Bound, Entry
  <2>2. OperationFor(p) =
          [type |-> "Write", path |-> e.path, revision |-> e.revision,
           reloadRevision |-> 0, data |-> Encode[e.value], status |-> "waiting"]
    BY <1>3 DEF OperationFor
  <2> QED
    BY <1>1, <2>1, <2>2 DEF Entry, Operation, WellFormed, WriteAwaited
<1>4. CASE ~Readable(e) /\ ~Writable(e)
  BY <1>4 DEF OperationFor, NoOp, Operation, WellFormed, WriteAwaited
<1> QED BY <1>2, <1>3, <1>4

LEMMA SynchronizeDispatchStep ==
    ASSUME IInv, SynchronizeDispatch, calls' \in 0..MaxCalls
    PROVE  IInv'
<1>1. TypeOK /\ OperationsOK /\ main' = Idle
  BY DEF IInv, SynchronizeDispatch
<1>2. MainOK'
  BY <1>1 DEF MainOK, Idle
<1>3. CASE UNCHANGED <<entries, nextSave, externalWorkPending, taskVars>>
  <2>1. TypeOK'
    BY <1>1, <1>3 DEF TypeOK, SynchronizeDispatch, taskVars, fileVars, Idle
  <2>2. OperationsOK'
    BY <1>1, <1>3 DEF OperationsOK, WellFormed, taskVars, SynchronizeDispatch
  <2>3. ASSUME NEW q \in Providers PROVE EntryOK(q)'
    BY <1>3, KeptEntry DEF SynchronizeDispatch, InFlight, WillLook, taskVars
  <2> QED BY <1>2, <2>1, <2>2, <2>3 DEF IInv
<1>4. CASE /\ ~running
           /\ externalWorkPending' = FALSE
           /\ Rearm
           /\ entries' = [p \in Providers |->
                IF Readable(entries[p])
                THEN [entries[p] EXCEPT !.reloadPending = FALSE] ELSE entries[p]]
           /\ operations' = [p \in Providers |-> OperationFor(p)]
           /\ running' = (\E p \in Providers : OperationFor(p).type # "None")
  <2>1. \A q \in Providers :
          /\ FlagsAgree(entries[q]) /\ Armed(entries[q], nextSave)
          /\ WriteAwaited(entries[q], results[q]) /\ entries[q] \in Entry
    BY <1>1, <1>4 DEF IInv, EntryOK, InFlight, TypeOK
  <2>2. \A q \in Providers :
          LET e == entries[q] IN LET n == entries'[q] IN
          /\ n \in Entry /\ n.path = e.path /\ n.dirtyAge = e.dirtyAge
          /\ n.touched = e.touched /\ n.revision = e.revision
          /\ n.value = e.value
          /\ Bound(n) /\ ~Dirty(n) => ~n.reloadPending
    <3> TAKE q \in Providers
    <3>1. CASE Readable(entries[q])
      BY <1>4, <2>1, <3>1 DEF Entry
    <3>2. CASE ~Readable(entries[q])
      BY <1>4, <2>1, <3>2 DEF Readable
    <3> QED BY <3>1, <3>2
  <2>3. \A q \in Providers : Dirty(entries[q]) => Remaining(entries[q]) \in 0..Debounce
    BY <2>1, BoundAssumption DEF Dirty, Remaining, Entry, NotDirty
  <2>4. /\ nextSave' \in {Unset} \union (0..Debounce)
        /\ \A q \in Providers : Dirty(entries[q]) => nextSave' \in 0..Remaining(entries[q])
    BY <1>4, <2>3, BoundAssumption DEF Rearm, DirtyProviders
  <2>5. \A q \in Providers :
          /\ OperationFor(q) \in Operation /\ WellFormed(OperationFor(q))
          /\ WriteAwaited(entries[q], OperationFor(q))
    BY <1>1, <2>1, OperationForOK
  <2>6. TypeOK'
    <3>1. entries' \in [Providers -> Entry]
      <4>1. \A q \in Providers : entries'[q] \in Entry
        BY <2>2
      <4> QED BY <1>4, <4>1
    <3>2. operations' \in [Providers -> Operation]
      BY <1>4, <2>5
    <3>3. running' \in BOOLEAN /\ externalWorkPending' \in BOOLEAN
      BY <1>4
    <3> QED
      BY <1>1, <2>4, <3>1, <3>2, <3>3
         DEF TypeOK, SynchronizeDispatch, fileVars, Idle
  <2>7. OperationsOK'
    BY <1>1, <1>4, <2>5 DEF OperationsOK, WellFormed, SynchronizeDispatch
  <2>8. ASSUME NEW q \in Providers PROVE EntryOK(q)'
    <3> DEFINE e == entries[q]
               n == entries'[q]
    <3>1. WriteAwaited(e, InFlight(q)')
      BY <1>4, <2>1, <2>5 DEF InFlight, SynchronizeDispatch
    <3>2. WriteAwaited(n, InFlight(q)')
      BY <2>2, <3>1 DEF WriteAwaited, Bound, Dirty
    <3>3. Armed(n, nextSave')
      BY <2>2, <2>4 DEF Armed, Dirty, Remaining
    <3>4. FlagsAgree(n)
      BY <2>1, <2>2 DEF FlagsAgree, Bound, Dirty
    <3>5. Announced(n, WillLook(q)')
      BY <2>2 DEF Announced
    <3> QED BY <3>2, <3>3, <3>4, <3>5 DEF EntryOK
  <2> QED BY <1>2, <2>6, <2>7, <2>8 DEF IInv
<1> QED BY <1>3, <1>4 DEF SynchronizeDispatch

LEMMA PerformStep ==
    ASSUME IInv, NEW p \in Providers, Perform(p), calls' \in 0..MaxCalls
    PROVE  IInv'
<1> DEFINE op == operations[p]
           n == operations'[p]
<1>1. /\ TypeOK /\ OperationsOK /\ MainOK /\ running /\ running' = running
      /\ op \in Operation /\ WellFormed(op) /\ main \in MainType
  BY DEF IInv, TypeOK, OperationsOK, Perform, MainType
<1>2. /\ op.path \in Paths /\ op.type \in {"Read", "Write"}
      /\ op.type = "Write" => op.data \in Contents
      /\ disk[op.path] \in Contents \union {NoFile}
  BY <1>1 DEF Perform, WellFormed, TypeOK
<1>3. /\ operations' \in [Providers -> Operation]
      /\ n.type = op.type /\ n.path = op.path /\ n.revision = op.revision
      /\ op.type = "Write" => n.data = op.data
      /\ op.type = "Read" /\ n.status = "ok" => n.data \in Contents
      /\ \A q \in Providers : q # p => operations'[q] = operations[q]
  <2>1. PICK status \in {"ok", "failed"}, data \in Contents \union {NoFile} :
          /\ operations' = [operations EXCEPT ![p].status = status, ![p].data = data]
          /\ op.type = "Write" => data = op.data
          /\ op.type = "Read" /\ status = "ok" => data \in Contents
    <3>1. CASE op.type = "Read"
      BY <1>1, <1>2, <3>1 DEF Perform, Complete
    <3>2. CASE op.type = "Write"
      BY <1>1, <1>2, <3>2 DEF Perform, Complete
    <3> QED BY <1>2, <3>1, <3>2
  <2>2. n = [op EXCEPT !.status = status, !.data = data]
    BY <1>1, <2>1 DEF TypeOK
  <2>3. n \in Operation
    BY <1>1, <2>2 DEF Operation
  <2>4. \A q \in Providers : q # p => operations'[q] = operations[q]
    BY <1>1, <2>1 DEF TypeOK
  <2>5. operations' \in [Providers -> Operation]
    <3>1. \A q \in Providers : operations'[q] \in Operation
      BY <1>1, <2>3, <2>4 DEF TypeOK
    <3> QED BY <1>1, <2>1, <3>1 DEF TypeOK
  <2> QED
    BY <1>1, <2>1, <2>2, <2>4, <2>5 DEF Operation
<1>4. TypeOK'
  <2>1. budget' \in [external : 0..MaxExternal, faults : 0..MaxFaults, moves : 0..MaxMoves]
    <3>1. budget' = budget \/ (MayFail("read") /\ Failed) \/ (MayFail("write") /\ Failed)
      BY DEF Perform
    <3> QED
      BY <1>1, <3>1, BoundAssumption DEF MayFail, Failed, TypeOK
  <2>2. /\ disk' \in [Paths -> Contents \union {NoFile}]
        /\ fileEvents' \in SUBSET Providers
    BY <1>1, <1>2 DEF Perform, PutFile, Watchers, TypeOK
  <2> QED
    BY <1>1, <1>3, <2>1, <2>2 DEF TypeOK, Perform
<1>5. OperationsOK'
  <2>1. WellFormed(n)
    BY <1>1, <1>2, <1>3 DEF WellFormed
  <2>2. results' = results
    BY DEF Perform
  <2> QED BY <1>1, <1>3, <2>1, <2>2 DEF OperationsOK
<1>6. MainOK'
  BY <1>1, MainKept DEF Perform, MainOK
<1>7. ASSUME NEW q \in Providers PROVE EntryOK(q)'
  <2>1. WriteAwaited(entries[q], InFlight(q)')
    BY <1>1, <1>3 DEF IInv, EntryOK, InFlight, WriteAwaited
  <2> QED
    BY <2>1 DEF IInv, EntryOK, Announced, WillLook, Perform
<1> QED BY <1>4, <1>5, <1>6, <1>7 DEF IInv

LEMMA FinishTaskStep ==
    ASSUME IInv, FinishTask, calls' \in 0..MaxCalls
    PROVE  IInv'
<1>1. TypeOK /\ OperationsOK /\ MainOK /\ running /\ main \in MainType
  BY DEF IInv, FinishTask, TypeOK, MainType
<1>2. NoOp \in Operation /\ WellFormed(NoOp)
  BY DEF NoOp, Operation, WellFormed
<1>3. TypeOK'
  BY <1>1, <1>2 DEF TypeOK, FinishTask, NoOperations, fileVars
<1>4. OperationsOK'
  BY <1>1, <1>2 DEF OperationsOK, NoOperations, FinishTask
<1>5. MainOK'
  <2>1. main.at \notin {"bind", "flush"}
    BY <1>1 DEF MainOK
  <2> QED BY <1>1, <2>1, MainKept DEF FinishTask
<1>6. ASSUME NEW q \in Providers PROVE EntryOK(q)'
  BY KeptEntry DEF FinishTask, InFlight, WillLook
<1> QED BY <1>3, <1>4, <1>5, <1>6 DEF IInv

LEMMA CallbackCountStep ==
    ASSUME IInv, NEW p \in Providers, CallbackCount(p), calls' \in 0..MaxCalls
    PROVE  IInv'
<1> DEFINE e == entries[p]
           n == entries'[p]
<1>1. TypeOK /\ OperationsOK /\ MainOK /\ e \in Entry /\ main \in MainType
  BY DEF IInv, TypeOK, MainType
<1>2. /\ n = [e EXCEPT !.reloadRevision = @ + 1]
      /\ \A q \in Providers : q # p => entries'[q] = entries[q]
  BY <1>1 DEF CallbackCount, TypeOK
<1>3. /\ n \in Entry /\ n.path = e.path /\ n.dirtyAge = e.dirtyAge
      /\ n.touched = e.touched /\ n.revision = e.revision
      /\ n.value = e.value /\ n.reloadPending = e.reloadPending
  BY <1>1, <1>2 DEF Entry
<1>4. TypeOK'
  <2>1. entries' \in [Providers -> Entry]
    <3>1. \A q \in Providers : entries'[q] \in Entry
      BY <1>1, <1>2, <1>3 DEF TypeOK
    <3> QED BY <1>1, <3>1 DEF CallbackCount, TypeOK
  <2> QED
    BY <1>1, <2>1 DEF TypeOK, CallbackCount, taskVars, fileVars
<1>5. OperationsOK'
  BY <1>1 DEF OperationsOK, WellFormed, CallbackCount, taskVars
<1>6. MainOK'
  <2>1. \A q \in Providers : /\ entries'[q].path = entries[q].path
                             /\ entries'[q].dirtyAge = entries[q].dirtyAge
    BY <1>2, <1>3
  <2> QED BY <1>1, <2>1, MainKept DEF Bound, Dirty, CallbackCount, taskVars
<1>7. ASSUME NEW q \in Providers PROVE EntryOK(q)'
  <2>1. InFlight(q)' = InFlight(q) /\ (WillLook(q) => WillLook(q)')
    BY <1>1 DEF CallbackCount, InFlight, WillLook, taskVars, TypeOK
  <2>2. EntryOK(q)
    BY DEF IInv
  <2>3. CASE q = p
    BY <1>3, <2>1, <2>2, <2>3
       DEF CallbackCount, EntryOK, WriteAwaited, Armed, FlagsAgree, Announced,
           Bound, Dirty, Remaining
  <2>4. CASE q # p
    BY <1>2, <2>1, <2>4, KeptEntry DEF CallbackCount
  <2> QED BY <2>3, <2>4
<1> QED BY <1>4, <1>5, <1>6, <1>7 DEF IInv

LEMMA CallbackPendStep ==
    ASSUME IInv, NEW p \in Providers, CallbackPend(p), calls' \in 0..MaxCalls
    PROVE  IInv'
<1> DEFINE e == entries[p]
           n == entries'[p]
<1>1. TypeOK /\ OperationsOK /\ MainOK /\ e \in Entry /\ main \in MainType
  BY DEF IInv, TypeOK, MainType
<1>2. /\ n = [e EXCEPT !.reloadPending = TRUE]
      /\ \A q \in Providers : q # p => entries'[q] = entries[q]
  BY <1>1 DEF CallbackPend, TypeOK
<1>3. /\ n \in Entry /\ n.path = e.path /\ n.dirtyAge = e.dirtyAge
      /\ n.touched = e.touched /\ n.revision = e.revision
      /\ n.value = e.value
  BY <1>1, <1>2 DEF Entry
<1>4. TypeOK'
  <2>1. entries' \in [Providers -> Entry]
    <3>1. \A q \in Providers : entries'[q] \in Entry
      BY <1>1, <1>2, <1>3 DEF TypeOK
    <3> QED BY <1>1, <3>1 DEF CallbackPend, TypeOK
  <2> QED
    BY <1>1, <2>1 DEF TypeOK, CallbackPend, taskVars, fileVars
<1>5. OperationsOK'
  BY <1>1 DEF OperationsOK, WellFormed, CallbackPend, taskVars
<1>6. MainOK'
  <2>1. \A q \in Providers : /\ entries'[q].path = entries[q].path
                             /\ entries'[q].dirtyAge = entries[q].dirtyAge
    BY <1>2, <1>3
  <2> QED BY <1>1, <2>1, MainKept DEF Bound, Dirty, CallbackPend, taskVars
<1>7. ASSUME NEW q \in Providers PROVE EntryOK(q)'
  <2>1. InFlight(q)' = InFlight(q) /\ (WillLook(q) => WillLook(q)')
    BY <1>1 DEF CallbackPend, InFlight, WillLook, taskVars, TypeOK
  <2>2. EntryOK(q)
    BY DEF IInv
  <2>3. CASE q = p
    <3>1. WillLook(p)'
      BY <1>1 DEF CallbackPend, WillLook, TypeOK
    <3> QED
      BY <1>3, <2>1, <2>2, <2>3, <3>1
         DEF CallbackPend, EntryOK, WriteAwaited, Armed, FlagsAgree, Announced,
             Bound, Dirty, Remaining
  <2>4. CASE q # p
    BY <1>2, <2>1, <2>4, KeptEntry DEF CallbackPend
  <2> QED BY <2>3, <2>4
<1> QED BY <1>4, <1>5, <1>6, <1>7 DEF IInv

LEMMA CallbackFlagStep ==
    ASSUME IInv, NEW p \in Providers, CallbackFlag(p), calls' \in 0..MaxCalls
    PROVE  IInv'
<1>1. TypeOK /\ OperationsOK /\ MainOK /\ main \in MainType
  BY DEF IInv, TypeOK, MainType
<1>2. TypeOK'
  BY <1>1 DEF TypeOK, CallbackFlag, taskVars, fileVars
<1>3. OperationsOK'
  BY <1>1 DEF OperationsOK, WellFormed, CallbackFlag, taskVars
<1>4. MainOK'
  BY <1>1, MainKept DEF CallbackFlag, taskVars
<1>5. ASSUME NEW q \in Providers PROVE EntryOK(q)'
  BY KeptEntry DEF CallbackFlag, InFlight, WillLook, taskVars
<1> QED BY <1>2, <1>3, <1>4, <1>5 DEF IInv

LEMMA ExternalChangeStep ==
    ASSUME IInv, NEW file \in Paths, NEW contents \in Contents \union {NoFile},
           ExternalChange(file, contents), calls' \in 0..MaxCalls
    PROVE  IInv'
<1>1. TypeOK /\ OperationsOK /\ MainOK /\ main \in MainType
  BY DEF IInv, TypeOK, MainType
<1>2. TypeOK'
  <2>1. budget' \in [external : 0..MaxExternal, faults : 0..MaxFaults, moves : 0..MaxMoves]
    BY <1>1, BoundAssumption DEF ExternalChange, TypeOK
  <2>2. /\ disk' \in [Paths -> Contents \union {NoFile}]
        /\ fileEvents' \in SUBSET Providers /\ unreported' \in SUBSET Providers
    BY <1>1 DEF ExternalChange, PutFile, Watchers, TypeOK, MainType
  <2> QED
    BY <1>1, <2>1, <2>2 DEF TypeOK, ExternalChange, taskVars
<1>3. OperationsOK'
  BY <1>1 DEF OperationsOK, WellFormed, ExternalChange, taskVars
<1>4. MainOK'
  BY <1>1, MainKept DEF ExternalChange, taskVars
<1>5. ASSUME NEW q \in Providers PROVE EntryOK(q)'
  BY KeptEntry DEF ExternalChange, InFlight, WillLook, taskVars
<1> QED BY <1>2, <1>3, <1>4, <1>5 DEF IInv

LEMMA TickStep ==
    ASSUME IInv, Tick, calls' \in 0..MaxCalls
    PROVE  IInv'
<1>1. TypeOK /\ OperationsOK /\ MainOK /\ main \in MainType
  BY DEF IInv, TypeOK, MainType
<1>2. ASSUME NEW q \in Providers
      PROVE  LET e == entries[q] IN LET n == entries'[q] IN
             /\ n \in Entry /\ n.path = e.path /\ n.touched = e.touched
             /\ n.revision = e.revision /\ n.value = e.value
             /\ n.reloadPending = e.reloadPending
             /\ Dirty(n) <=> Dirty(e)
             /\ Dirty(e) => \/ Remaining(e) = 0 /\ Remaining(n) = 0
                            \/ Remaining(e) > 0 /\ Remaining(n) = Remaining(e) - 1
  <2> DEFINE e == entries[q]
             n == entries'[q]
  <2>1. e \in Entry
    BY <1>1 DEF TypeOK
  <2>2. CASE Dirty(e) /\ ~Due(e)
    <3>1. n = [e EXCEPT !.dirtyAge = @ + 1]
      BY <2>2 DEF Tick
    <3>2. e.dirtyAge \in 0..Debounce /\ e.dirtyAge # Debounce
      BY <2>1, <2>2 DEF Dirty, Due, Entry
    <3>3. n.dirtyAge = e.dirtyAge + 1 /\ n.dirtyAge \in 0..Debounce
      BY <2>1, <3>1, <3>2, BoundAssumption DEF Entry
    <3>4. n \in Entry
      BY <2>1, <3>1, <3>3 DEF Entry
    <3>5. /\ n.path = e.path /\ n.touched = e.touched
          /\ n.revision = e.revision /\ n.value = e.value
          /\ n.reloadPending = e.reloadPending
      BY <2>1, <3>1 DEF Entry
    <3>6. /\ Dirty(n) <=> Dirty(e)
          /\ Remaining(e) > 0 /\ Remaining(n) = Remaining(e) - 1
      BY <2>2, <3>2, <3>3, BoundAssumption DEF Dirty, NotDirty, Remaining
    <3> QED BY <3>4, <3>5, <3>6
  <2>3. CASE ~(Dirty(e) /\ ~Due(e))
    <3>1. n = e
      BY <2>3 DEF Tick
    <3>2. Dirty(e) => Remaining(e) = 0
      BY <2>1, <2>3, BoundAssumption DEF Due, Remaining
    <3> QED BY <2>1, <3>1, <3>2
  <2> QED BY <2>2, <2>3
<1>3. /\ nextSave' \in {Unset} \union (0..Debounce)
      /\ nextSave' # Unset <=> nextSave # Unset
      /\ \/ nextSave > 0 /\ nextSave' = nextSave - 1
         \/ ~(nextSave > 0) /\ nextSave' = nextSave
  BY <1>1, BoundAssumption DEF Tick, TypeOK, Unset
<1>4. TypeOK'
  <2>1. entries' \in [Providers -> Entry]
    <3>1. \A q \in Providers : entries'[q] \in Entry
      BY <1>2
    <3> QED BY <3>1 DEF Tick
  <2> QED
    BY <1>1, <1>3, <2>1 DEF TypeOK, Tick, taskVars, fileVars
<1>5. OperationsOK'
  BY <1>1 DEF OperationsOK, WellFormed, Tick, taskVars
<1>6. MainOK'
  <2>1. \A q \in Providers : /\ Bound(entries[q]) => Bound(entries'[q])
                             /\ Dirty(entries[q]) => Dirty(entries'[q])
    BY <1>2 DEF Bound
  <2> QED BY <1>1, <2>1, MainKept DEF Tick, taskVars
<1>7. ASSUME NEW q \in Providers PROVE EntryOK(q)'
  <2> DEFINE e == entries[q]
             n == entries'[q]
  <2>1. /\ WriteAwaited(e, InFlight(q)) /\ Armed(e, nextSave)
        /\ FlagsAgree(e) /\ Announced(e, WillLook(q))
    BY DEF IInv, EntryOK
  <2>2. InFlight(q)' = InFlight(q) /\ (WillLook(q) => WillLook(q)')
    BY <1>3 DEF Tick, InFlight, WillLook, taskVars
  <2>3. WriteAwaited(n, InFlight(q))
    BY <1>2, <2>1 DEF WriteAwaited, Bound
  <2>4. Armed(n, nextSave')
    <3>1. CASE ~Dirty(n)
      BY <3>1 DEF Armed
    <3>2. CASE Dirty(n)
      <4>1. nextSave \in 0..Remaining(e)
        BY <1>2, <2>1, <3>2 DEF Armed
      <4>2. \/ Remaining(e) = 0 /\ Remaining(n) = 0
            \/ Remaining(e) > 0 /\ Remaining(n) = Remaining(e) - 1
        BY <1>2, <3>2
      <4>3. Remaining(e) \in Int
        BY <1>1, BoundAssumption DEF TypeOK, Entry, Remaining, NotDirty
      <4>4. nextSave' \in 0..Remaining(n)
        BY <1>3, <4>1, <4>2, <4>3
      <4> QED BY <4>4 DEF Armed
    <3> QED BY <3>1, <3>2
  <2>5. FlagsAgree(n) /\ Announced(n, WillLook(q)')
    BY <1>2, <2>1, <2>2 DEF FlagsAgree, Announced, Bound
  <2> QED BY <2>2, <2>3, <2>4, <2>5 DEF EntryOK
<1> QED BY <1>4, <1>5, <1>6, <1>7 DEF IInv

-----------------------------------------------------------------------------
LEMMA UserStepInv ==
    ASSUME IInv, UserStep, calls' \in 0..MaxCalls
    PROVE  IInv'
<1>1. CASE \E p \in Providers, v \in Values : Edit(p, v)
  BY <1>1, EditStep
<1>2. CASE \E p \in Providers, f \in Paths : BindRead(p, f)
  BY <1>2, BindReadStep
<1>3. CASE \E p \in Providers : main = Idle /\ Unbind(p)
  BY <1>3, UnbindStep
<1>4. CASE Flush
  BY <1>4, FlushStep
<1>5. CASE \E f, g \in Paths : MoveProjectEntry(f, g)
  BY <1>5, MoveProjectEntryStep
<1>6. CASE \E f \in Paths : DeleteProjectEntry(f)
  BY <1>6, DeleteProjectEntryStep
<1>7. CASE \E p, q \in Providers : MovePerProviderData(p, q)
  BY <1>7, MovePerProviderDataStep
<1>8. CASE (\E p \in Providers : Erase({p})) \/ Erase(Providers)
  BY <1>8, EraseStep
<1> QED
  BY <1>1, <1>2, <1>3, <1>4, <1>5, <1>6, <1>7, <1>8 DEF UserStep

LEMMA ReactionInv ==
    ASSUME IInv, Reaction
    PROVE  IInv'
<1>1. calls' \in 0..MaxCalls
  BY DEF IInv, TypeOK, Reaction
<1>2. CASE JobStep
  BY <1>1, <1>2, BindFinishStep, FlushEntryStep, RelocateStep, UnbindStep DEF JobStep
<1>3. CASE FrameEnd
  BY <1>1, <1>3, SynchronizeApplyStep, SynchronizeDispatchStep DEF FrameEnd
<1>4. CASE TaskStep
  BY <1>1, <1>4, PerformStep, FinishTaskStep DEF TaskStep
<1>5. CASE \E p \in Providers : TrackerStep(p)
  BY <1>1, <1>5, CallbackCountStep, CallbackPendStep, CallbackFlagStep DEF TrackerStep
<1>6. CASE \E f \in Paths, c \in Contents \union {NoFile} : ExternalChange(f, c)
  BY <1>1, <1>6, ExternalChangeStep
<1>7. CASE Tick
  BY <1>1, <1>7, TickStep
<1> QED
  BY <1>2, <1>3, <1>4, <1>5, <1>6, <1>7 DEF Reaction

LEMMA StutterInv ==
    ASSUME IInv, UNCHANGED vars
    PROVE  IInv'
<1> USE DEF vars
<1>1. TypeOK'
  BY DEF IInv, TypeOK
<1>2. OperationsOK'
  BY DEF IInv, OperationsOK, WellFormed
<1>3. MainOK'
  BY DEF IInv, MainOK
<1>4. ASSUME NEW q \in Providers PROVE EntryOK(q)'
  BY KeptEntry DEF InFlight, WillLook
<1> QED BY <1>1, <1>2, <1>3, <1>4 DEF IInv

LEMMA StepInv == IInv /\ [Next]_vars => IInv'
<1> SUFFICES ASSUME IInv, [Next]_vars PROVE IInv'
  OBVIOUS
<1>1. CASE UserCall
  <2>1. calls' \in 0..MaxCalls
    BY <1>1, BoundAssumption DEF UserCall, IInv, TypeOK
  <2> QED BY <1>1, <2>1, UserStepInv DEF UserCall
<1>2. CASE Reaction
  BY <1>2, ReactionInv
<1>3. CASE UNCHANGED vars
  BY <1>3, StutterInv
<1> QED BY <1>1, <1>2, <1>3 DEF Next

\* The inductive invariant holds in every behaviour of synchronize(), its task,
\* the trackers and the calls of the main thread.
THEOREM Invariance == Spec => []IInv
BY InitInv, StepInv, PTL DEF Spec

-----------------------------------------------------------------------------
(* What the invariant gives                                                *)

\* The entries, batches and results are always well-typed; in particular no
\* value is ever nullopt of decode() (lines 566-587).
THEOREM TypeCorrect == Spec => []TypeOK
<1>1. IInv => TypeOK
  BY DEF IInv
<1> QED BY <1>1, Invariance, PTL

\* m_nextSaveTime is armed no later than the deadline of any dirty entry, so that
\* synchronize() (line 360) forgets no autosave and no retry of a failed write.
THEOREM SaveAlwaysArmed == Spec => []SaveArmed
<1>1. IInv => SaveArmed
  BY DEF IInv, EntryOK, Armed, SaveArmed
<1> QED BY <1>1, Invariance, PTL

\* A reload left pending for a clean bound entry always finds synchronize()'s
\* gate (line 360) open, or about to be opened by its callback (line 278).
THEOREM ReloadAlwaysArmed == Spec => []ReloadArmed
<1>1. IInv => ReloadArmed
  BY DEF IInv, EntryOK, Announced, WillLook, ReloadArmed
<1> QED BY <1>1, Invariance, PTL

\* The flag hasPendingData() tells the user about (line 354) and the clock of the
\* autosave agree on every bound entry, through every call and every result.
THEOREM TouchedAlwaysMeansDirty == Spec => []TouchedMeansDirty
<1>1. IInv => TouchedMeansDirty
  BY DEF IInv, EntryOK, FlagsAgree, TouchedMeansDirty
<1> QED BY <1>1, Invariance, PTL

\* No write that the background task has still to do can overwrite what flush()
\* has written, nor go to a file its entry is no longer bound to (lines 425-455).
THEOREM NeverStaleWrite == Spec => []NoStaleWrite
<1>1. IInv => NoStaleWrite
  <2> SUFFICES ASSUME IInv, NEW p \in Providers, running,
                      operations[p].type = "Write", Bound(entries[p])
               PROVE  /\ operations[p].path = entries[p].path
                      /\ entries[p].touched
                      /\ operations[p].revision = entries[p].revision =>
                           operations[p].data = Encode[entries[p].value]
    BY DEF NoStaleWrite
  <2> QED BY DEF IInv, EntryOK, InFlight, WriteAwaited
<1> QED BY <1>1, Invariance, PTL
=============================================================================
