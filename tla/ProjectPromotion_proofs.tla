----------------------- MODULE ProjectPromotion_proofs -----------------------
(***************************************************************************)
(* The safety properties of ProjectPromotion and its refinement of         *)
(* ProjectHome, for any files, data and bounds: an inductive invariant     *)
(* about what both folders hold at every stage of a promotion.             *)
(***************************************************************************)
EXTENDS ProjectPromotion, TLAPS

(* The inductive invariant                                                 *)

Temp == disk["temp"]
Dest == disk["dest"]

Before == {"flush", "check", "copy", "relocate", "setPath"}
After == {"store", "manifest", "stored", "bindings", "marker", "rename"}

\* Which folder is the project, and when the temporary one is gone.
PathOK ==
    /\ pc = "idle" => (path = "temp" <=> Temp.there)
    /\ pc \in Before => path = "temp" /\ Temp.there
    /\ pc \in After => path = "dest" /\ Temp.there
    /\ pc = "remove" => path = "dest" /\ ~Temp.there

\* The temporary project is complete while it is there: a restart can read it.  Data that is
\* not bound to it, and never was in this attempt, has no file in it.
TempOK ==
    Temp.there =>
        /\ Temp.meta = "complete"
        /\ \A x \in Items : Temp.files[x] # Foreign
        /\ \A x \in Files : Temp.files[x] # NoFile
        /\ \A x \in Data \ moved : at[x] # "temp" => Temp.files[x] = NoFile

\* Files of others are at the destination only until it has been found free of them.
DestOK ==
    /\ \A x \in Data : Dest.files[x] # Foreign
    /\ pc \notin {"idle", "flush", "check"} \/ path = "dest" =>
         \A x \in Items : Dest.files[x] # Foreign
    /\ ~Temp.there => Dest.meta = "complete"

\* What the attempt has flushed, copied and moved so far.
FlushedOK ==
    /\ pc = "flush" => todo \subseteq InTemp /\ \A x \in InTemp \ todo : Temp.files[x] = memory[x]
    /\ pc \in {"check", "copy", "relocate", "setPath", "store", "manifest", "stored"} =>
         \A x \in InTemp : Temp.files[x] = memory[x]

CopiedOK ==
    /\ pc \in {"idle", "flush", "check", "remove"} => copied = {}
    /\ \A x \in copied : x \in Entries /\ Dest.files[x] = Temp.files[x]
    /\ pc = "copy" => Entries \subseteq copied \union todo /\ todo \subseteq Entries
    /\ pc \in {"relocate", "setPath"} \union After => Entries \subseteq copied

MovedOK ==
    /\ pc \in {"idle", "flush", "check", "copy", "remove"} => moved = {}
    /\ pc \in {"relocate", "setPath", "store", "manifest", "stored"} => moved \subseteq Files
    /\ pc = "relocate" => todo = Files \intersect InTemp
    /\ pc \in {"setPath"} \union After => Files \intersect InTemp = {}
    /\ pc = "bindings" => todo = Data \intersect InTemp
    /\ pc \in {"marker", "rename", "remove"} => InTemp = {}

\* Where open files and bound data are; a file of somebody else is none of them.
AtOK ==
    /\ pc \in Before \union {"idle"} /\ path = "temp" =>
         \A x \in Items : at[x] = "dest" => x \in strayed \union moved
    /\ pc \in After => \A x \in Files : at[x] = "dest" => x \in strayed \union moved
    /\ pc = "idle" /\ path = "dest" => InTemp = {}
    /\ \A x \in Items : at[x] = "dest" => Dest.files[x] # Foreign

\* What the destination may hold that is not from others: copies, and what data bound to
\* it wrote there.
Left == strayed \union copied \union {x \in Data \ moved : pc \in After /\ at[x] = "dest"}
CleanOK ==
    Temp.there /\ whole =>
        /\ \A x \in Items \ Left : Dest.files[x] \in {NoFile, Foreign}
        /\ pc \notin After => Dest.meta \in {"none", "foreign"}

\* Until the marks are cleared, what the files lack is marked; the rename makes the files of
\* the destination, which lack nothing, those of the project.
MarksOK ==
    /\ pc \in Before \union {"idle", "store", "manifest", "stored"} =>
         unsaved \ (IF forgotten THEN {Project} ELSE {}) \subseteq flags \union shown
    /\ pc \in {"stored", "bindings", "marker", "rename", "remove"} => Dest.meta = "complete"
    /\ pc = "remove" => unsaved = {}

IInv ==
    /\ TypeOK /\ PathOK /\ TempOK /\ DestOK /\ FlushedOK /\ CopiedOK /\ MovedOK /\ AtOK
    /\ CleanOK /\ MarksOK

-----------------------------------------------------------------------------
(* Lemmas about the operators                                              *)

\* What stands for no file and for foreign contents is no version.
LEMMA Values ==
    /\ NoFile # Foreign /\ NoFile \notin Version /\ Foreign \notin Version
    /\ 0 \in Version
    /\ \A n \in 0 .. MaxEdits : n < MaxEdits => n + 1 \in Version
<1>1. MaxEdits \in Nat /\ {NoFile, Foreign} \intersect Nat = {}
  BY PromotionAssumption
<1> QED BY <1>1, PromotionAssumption DEF Version

\* Nothing spent is within the bounds.
LEMMA ZeroBound ==
    [edits |-> 0, faults |-> 0, tries |-> 0, crashes |-> 0] \in
        [edits : 0..MaxEdits, faults : 0..MaxFaults, tries : 0..MaxTries, crashes : 0..MaxCrashes]
<1>1. MaxEdits \in Nat /\ MaxFaults \in Nat /\ MaxTries \in Nat /\ MaxCrashes \in Nat
  BY PromotionAssumption
<1> QED BY <1>1

\* The three folders have the type of a folder.
LEMMA FolderType ==
    ASSUME TypeOK
    PROVE  /\ Temp \in Folder /\ Dest \in Folder /\ disk["promoted"] \in Folder
           /\ DOMAIN disk = Dirs
  BY DEF TypeOK, Temp, Dest, Dirs

Bounds == [edits : 0..MaxEdits, faults : 0..MaxFaults, tries : 0..MaxTries, crashes : 0..MaxCrashes]
\* Spending keeps within the bounds.
LEMMA SpendType ==
    ASSUME TypeOK
    PROVE  /\ used \in Bounds
           /\ Spend("edits", MaxEdits) => used' \in Bounds /\ used.edits + 1 \in Version
           /\ Spend("faults", MaxFaults) => used' \in Bounds
           /\ Spend("tries", MaxTries) => used' \in Bounds
           /\ Spend("crashes", MaxCrashes) => used' \in Bounds
<1>1. MaxEdits \in Nat /\ MaxFaults \in Nat /\ MaxTries \in Nat /\ MaxCrashes \in Nat
  BY PromotionAssumption
<1>2. used \in Bounds
  BY DEF TypeOK, Bounds
<1>3. ASSUME Spend("edits", MaxEdits)
      PROVE  used' \in Bounds /\ used.edits + 1 \in Version
  BY <1>1, <1>2, <1>3 DEF Spend, Uses, Bounds, Version
<1>4. ASSUME Spend("faults", MaxFaults) PROVE used' \in Bounds
  BY <1>1, <1>2, <1>4 DEF Spend, Uses, Bounds
<1>5. ASSUME Spend("tries", MaxTries) PROVE used' \in Bounds
  BY <1>1, <1>2, <1>5 DEF Spend, Uses, Bounds
<1>6. ASSUME Spend("crashes", MaxCrashes) PROVE used' \in Bounds
  BY <1>1, <1>2, <1>6 DEF Spend, Uses, Bounds
<1> QED BY <1>2, <1>3, <1>4, <1>5, <1>6

\* Putting items into a folder, and cleaning one up, concerns its files, and its metadata
\* and presence.
LEMMA PutType ==
    ASSUME TypeOK, NEW folder \in Folder, NEW items
    PROVE  /\ Put(folder, items) \in Folder
           /\ Put(folder, items).there = folder.there
           /\ Put(folder, items).meta = folder.meta
           /\ Put(folder, items).marker = folder.marker
           /\ \A x \in Items : Put(folder, items).files[x] =
                    IF x \in items THEN memory[x] ELSE folder.files[x]
  BY DEF TypeOK, Folder, Put

\* What an undoing may leave behind: files that were moved, copies that were made or begun,
\* metadata that was there.
LEMMA UndoingsType ==
    ASSUME TypeOK, NEW u \in Undoings
    PROVE  /\ u.stuck \subseteq moved /\ u.stuck \subseteq Files
           /\ u.left \subseteq Items /\ (pc # "copy" => u.left \subseteq copied)
           /\ u.meta \in {"none", "foreign", "partial", "complete"}
<1>1. u.stuck \in SUBSET (moved \intersect Files)
  BY DEF Undoings
<1>2. u.left \in SUBSET (copied \union (IF pc = "copy" THEN todo ELSE {}))
  BY DEF Undoings
<1>3. u.meta \in IF disk["dest"].meta = "none" THEN {"none"}
                 ELSE {"none", "partial", disk["dest"].meta}
  BY DEF Undoings
<1>4. disk["dest"].meta \in {"none", "foreign", "partial", "complete"}
  BY FolderType DEF Dest, Folder
<1> QED BY <1>1, <1>2, <1>3, <1>4 DEF TypeOK

\* An undoing keeps within the bounds, whether it goes well or not.
LEMMA UndoingType ==
    ASSUME TypeOK, NEW u, NEW n \in {0, 1}, Undoing(u, n)
    PROVE  /\ u \in Undoings /\ used' \in Bounds /\ whole' \in BOOLEAN
           /\ pc' = "idle" /\ todo' = {} /\ existed' = FALSE /\ copied' = {} /\ moved' = {}
           /\ whole' => whole /\ u.left = {} /\ u.meta = "none"
<1>1. \E k \in {0, 1, 2} : Uses("faults", k, MaxFaults)
  <2>1. Uses("faults", IF Flawless(u) THEN n ELSE n + 1, MaxFaults)
    BY DEF Undoing
  <2>2. (IF Flawless(u) THEN n ELSE n + 1) \in {0, 1, 2}
    OBVIOUS
  <2> QED BY <2>1, <2>2
<1>2. used' \in Bounds
  BY <1>1, SpendType, PromotionAssumption DEF Uses, Bounds
<1> QED BY <1>2 DEF Undoing, Goes, TypeOK

\* A destination that was cleaned up is a folder.
LEMMA CleanedType ==
    ASSUME TypeOK, NEW folder \in Folder, NEW u \in Undoings
    PROVE  /\ Cleaned(folder, u) \in Folder
           /\ Cleaned(folder, u).meta = u.meta
           /\ \A x \in Items : Cleaned(folder, u).files[x] =
                    IF x \in u.left THEN Temp.files[x]
                    ELSE IF x \in copied THEN NoFile ELSE folder.files[x]
<1> DEFINE files == [x \in Items |-> IF x \in u.left THEN disk["temp"].files[x]
                                     ELSE IF x \in copied THEN NoFile ELSE folder.files[x]]
           there == existed \/ u.meta # "none" \/ \E x \in Items : files[x] # NoFile
<1>1. files \in [Items -> Version \union {NoFile, Foreign}]
  BY FolderType DEF Folder, Temp
<1>2. Cleaned(folder, u) = [folder EXCEPT !.files = files, !.meta = u.meta, !.there = there]
  BY DEF Cleaned
<1>3. there \in BOOLEAN
  BY DEF TypeOK
<1>4. \A x \in Items : files[x] = IF x \in u.left THEN Temp.files[x]
                                  ELSE IF x \in copied THEN NoFile ELSE folder.files[x]
  BY DEF Temp
<1> HIDE DEF files, there
<1>5. u.meta \in {"none", "foreign", "partial", "complete"}
  BY UndoingsType
<1>6. /\ Cleaned(folder, u) = [there |-> there, files |-> files, meta |-> u.meta,
                               marker |-> folder.marker]
      /\ folder.marker \in BOOLEAN
  BY <1>2 DEF Folder
<1>7. Cleaned(folder, u) \in Folder /\ Cleaned(folder, u).files = files
  BY <1>1, <1>3, <1>5, <1>6 DEF Folder
<1> QED BY <1>4, <1>6, <1>7

\* The type invariant of the next state, field by field.
LEMMA TypeStep ==
    ASSUME /\ disk' \in [Dirs -> Folder] /\ path' \in {"temp", "dest"}
           /\ at' \in [Items -> {"temp", "dest", "nowhere"}] /\ memory' \in [Items -> Version]
           /\ unsaved' \subseteq Parts /\ flags' \subseteq Parts /\ shown' \subseteq Files
           /\ scheduled' \in BOOLEAN /\ forgotten' \in BOOLEAN /\ existed' \in BOOLEAN
           /\ whole' \in BOOLEAN /\ pc' \in Stages
           /\ todo' \subseteq Items /\ copied' \subseteq Items /\ moved' \subseteq Items
           /\ strayed' \subseteq Items /\ used' \in Bounds
    PROVE  TypeOK'
  BY DEF TypeOK, Bounds

\* Flushing the data of the project that has just been stored writes nothing new to the
\* temporary one, which was flushed before it was copied.
LEMMA StoredEffect ==
    ASSUME IInv, Store, pc = "stored"
    PROVE  /\ disk' \in [Dirs -> Folder] /\ Temp' = Temp
           /\ Dest' \in Folder /\ Dest'.there = Dest.there /\ Dest'.meta = Dest.meta
           /\ \A y \in Items : Dest'.files[y] = IF y \in Data /\ at[y] = "dest" THEN memory[y]
                                                                        ELSE Dest.files[y]
<1> DEFINE There == {x \in Data : at[x] = "dest"}
           Here == {x \in Data : at[x] = "temp"}
<1> USE DEF IInv
<1>1. disk' = [disk EXCEPT !["dest"] = Put(Dest, There), !["temp"] = Put(Temp, Here)]
  BY DEF Store, Temp, Dest
<1>2. Put(Dest, There) \in Folder /\ Put(Temp, Here) \in Folder
  BY FolderType, PutType
<1>3. Temp' = Put(Temp, Here) /\ Dest' = Put(Dest, There) /\ disk' \in [Dirs -> Folder]
  BY <1>1, <1>2 DEF Temp, Dest, TypeOK, Dirs
<1>4. Put(Temp, Here).files = Temp.files
  <2>1. \A y \in Items : Put(Temp, Here).files[y] = Temp.files[y]
    BY FolderType, PutType DEF FlushedOK, InTemp
  <2> QED BY <2>1, <1>2, FolderType DEF Folder
<1>5. Put(Temp, Here) = Temp
  BY <1>4, FolderType, PutType DEF Folder
<1> HIDE DEF Here
<1> QED BY <1>3, <1>5, FolderType, PutType

-----------------------------------------------------------------------------
(* Between attempts                                                        *)

\* An edit between attempts changes the memory only.
LEMMA EditStep == ASSUME IInv, NEW x \in Items, Edit(x) PROVE IInv'
<1> USE DEF IInv, marks, Edit, Quiet, Idle
<1>1. disk' \in [Dirs -> Folder] /\ Temp' = Temp /\ Dest' = Dest
  BY DEF Temp, Dest, TypeOK
<1>2. TypeOK'
  BY SpendType, TypeStep DEF TypeOK
<1>3. PathOK'
  BY <1>1 DEF PathOK
<1>4. TempOK'
  BY <1>1 DEF TempOK
<1>5. DestOK'
  BY <1>1 DEF DestOK
<1>6. FlushedOK'
  BY DEF FlushedOK
<1>7. CopiedOK'
  BY DEF CopiedOK, After
<1>8. MovedOK'
  BY DEF MovedOK, After
<1>9. AtOK'
  BY <1>1 DEF AtOK, InTemp
<1>10. CleanOK'
  BY <1>1 DEF CleanOK, Left
<1>11. MarksOK'
  BY DEF MarksOK
<1> QED BY <1>2, <1>3, <1>4, <1>5, <1>6, <1>7, <1>8, <1>9, <1>10, <1>11

\* What changes of the metadata is marked.
LEMMA EditMetadataStep == ASSUME IInv, NEW p \in Parts, EditMetadata(p) PROVE IInv'
<1> USE DEF IInv, marks, EditMetadata, Quiet, Idle
<1>1. disk' \in [Dirs -> Folder] /\ Temp' = Temp /\ Dest' = Dest
  BY DEF Temp, Dest, TypeOK
<1>2. TypeOK'
  BY SpendType, TypeStep DEF TypeOK
<1>3. PathOK'
  BY <1>1 DEF PathOK
<1>4. TempOK'
  BY <1>1 DEF TempOK
<1>5. DestOK'
  BY <1>1 DEF DestOK
<1>6. FlushedOK'
  BY DEF FlushedOK
<1>7. CopiedOK'
  BY DEF CopiedOK, After
<1>8. MovedOK'
  BY DEF MovedOK, After
<1>9. AtOK'
  BY <1>1 DEF AtOK, InTemp
<1>10. CleanOK'
  BY <1>1 DEF CleanOK, Left
<1>11. MarksOK'
  BY DEF MarksOK
<1> QED BY <1>2, <1>3, <1>4, <1>5, <1>6, <1>7, <1>8, <1>9, <1>10, <1>11

\* What is saved between attempts goes into the project, or where the data was bound.
LEMMA SaveItemStep == ASSUME IInv, NEW x \in Items, SaveItem(x) PROVE IInv'
<1> USE DEF IInv, marks, Quiet, Idle, SaveItem
<1>1. CASE at[x] = "temp"
  <2>1. /\ disk' \in [Dirs -> Folder] /\ Dest' = Dest
        /\ Temp' \in Folder /\ Temp'.there = Temp.there /\ Temp'.meta = Temp.meta
        /\ \A y \in Items : Temp'.files[y] = IF y = x THEN memory[y] ELSE Temp.files[y]
        /\ \A y \in Items : memory[y] \notin {NoFile, Foreign}
    BY <1>1, PutType, Values DEF Temp, Dest, TypeOK, Dirs
  <2>2. TypeOK'
    BY <2>1 DEF TypeOK
  <2>3. PathOK'
    BY <2>1 DEF PathOK
  <2>4. TempOK'
    BY <1>1, <2>1 DEF TempOK, Items
  <2>5. DestOK'
    BY <2>1 DEF DestOK
  <2>6. FlushedOK'
    BY DEF FlushedOK
  <2>7. CopiedOK'
    BY DEF CopiedOK, After
  <2>8. MovedOK'
    BY DEF MovedOK, After
  <2>9. AtOK'
    BY <2>1 DEF AtOK, InTemp
  <2>10. CleanOK'
    BY <2>1 DEF CleanOK, Left
  <2>11. MarksOK'
    BY <1>1, <2>1 DEF MarksOK, Temp
  <2> QED BY <2>2, <2>3, <2>4, <2>5, <2>6, <2>7, <2>8, <2>9, <2>10, <2>11
<1>2. CASE at[x] = "dest"
  <2>1. /\ disk' \in [Dirs -> Folder] /\ Temp' = Temp
        /\ Dest' \in Folder /\ Dest'.there = Dest.there /\ Dest'.meta = Dest.meta
        /\ \A y \in Items : Dest'.files[y] = IF y = x THEN memory[y] ELSE Dest.files[y]
        /\ \A y \in Items : memory[y] \notin {NoFile, Foreign}
    BY <1>2, PutType, Values DEF Temp, Dest, TypeOK, Dirs
  <2>2. TypeOK'
    BY <2>1 DEF TypeOK
  <2>3. PathOK'
    BY <2>1 DEF PathOK
  <2>4. TempOK'
    BY <2>1 DEF TempOK
  <2>5. DestOK'
    BY <2>1, Values DEF DestOK, Items
  <2>6. FlushedOK'
    BY DEF FlushedOK
  <2>7. CopiedOK'
    BY DEF CopiedOK, After
  <2>8. MovedOK'
    BY DEF MovedOK, After
  <2>9. AtOK'
    BY <2>1 DEF AtOK, InTemp
  <2>10. CleanOK'
    BY <1>2, <2>1 DEF CleanOK, Left, AtOK, MovedOK, PathOK
  <2>11. MarksOK'
    BY <1>2, <2>1 DEF MarksOK, Dest
  <2> QED BY <2>2, <2>3, <2>4, <2>5, <2>6, <2>7, <2>8, <2>9, <2>10, <2>11
<1> QED BY <1>1, <1>2 DEF TypeOK

\* The autosave writes the parts whose flags it clears, and gives data a file in the project.
LEMMA SaveMetadataStep == ASSUME IInv, SaveMetadata PROVE IInv'
<1> USE DEF IInv, SaveMetadata, Materialize, Relocated, Idle
<1>1. disk' \in [Dirs -> Folder] /\ Temp' = Temp /\ Dest' = Dest
  BY DEF Temp, Dest, TypeOK
<1>2. TypeOK'
  BY <1>1, SpendType, TypeStep DEF TypeOK
<1>3. PathOK'
  BY <1>1 DEF PathOK
<1>4. TempOK'
  BY <1>1 DEF TempOK, Items
<1>5. DestOK'
  BY <1>1 DEF DestOK
<1>6. FlushedOK'
  BY DEF FlushedOK
<1>7. CopiedOK'
  BY DEF CopiedOK, After
<1>8. MovedOK'
  BY DEF MovedOK, After
<1>9. AtOK'
  BY <1>1 DEF AtOK, InTemp, PathOK, DestOK, After
<1>10. CleanOK'
  BY <1>1 DEF CleanOK, Left, After
<1>11. MarksOK'
  BY <1>1 DEF MarksOK
<1> QED BY <1>2, <1>3, <1>4, <1>5, <1>6, <1>7, <1>8, <1>9, <1>10, <1>11

-----------------------------------------------------------------------------
(* Failing before the path is set                                          *)

\* Giving up moves back the providers that can be moved, and removes of what was copied, and
\* nothing else, what can be removed.
LEMMA GiveUpStep ==
    ASSUME IInv, pc \in {"flush", "check", "copy", "relocate"}, NEW u, GiveUp(u)
    PROVE  IInv'
<1> USE DEF IInv
<1>0. /\ u \in Undoings /\ used' \in Bounds /\ whole' \in BOOLEAN
      /\ pc' = "idle" /\ todo' = {} /\ existed' = FALSE /\ copied' = {} /\ moved' = {}
      /\ whole' => whole /\ u.left = {} /\ u.meta = "none"
      /\ at' = [x \in Items |-> IF x \in moved \ u.stuck THEN "temp" ELSE at[x]]
      /\ strayed' = strayed \union u.stuck
      /\ UNCHANGED <<path, memory, unsaved, flags, shown, scheduled, forgotten>>
  BY UndoingType DEF GiveUp, MovedBack, Relocated, marks
<1>1. /\ disk' \in [Dirs -> Folder]
      /\ Temp' = Temp /\ Dest' \in Folder /\ Dest'.meta = u.meta
      /\ \A x \in Items : Dest'.files[x] = IF x \in u.left THEN Temp.files[x]
                                           ELSE IF x \in copied THEN NoFile ELSE Dest.files[x]
  BY <1>0, CleanedType, FolderType DEF GiveUp, Temp, Dest, TypeOK, Dirs
<1>2. u.stuck \subseteq moved /\ u.stuck \subseteq Files
  BY <1>0, UndoingsType
<1>3. TypeOK'
  BY <1>0, <1>1, <1>2, TypeStep DEF TypeOK, Stages, Items
<1>4. PathOK'
  BY <1>0, <1>1 DEF PathOK, Before, After
<1>5. TempOK'
  BY <1>0, <1>1, <1>2, PromotionAssumption DEF TempOK, Items
<1>6. Temp.there /\ path = "temp" /\ \A x \in Items : Temp.files[x] # Foreign
  BY DEF PathOK, TempOK, Before
<1>7. DestOK'
  BY <1>0, <1>1, <1>6, Values DEF DestOK, Items
<1>8. FlushedOK' /\ CopiedOK' /\ MovedOK'
  BY <1>0 DEF FlushedOK, CopiedOK, MovedOK, After
<1>9. AtOK'
  BY <1>0, <1>1, <1>6, Values DEF AtOK, After, Before
<1>10. CleanOK'
  BY <1>0, <1>1 DEF CleanOK, Left, After
<1>11. MarksOK'
  BY <1>0, <1>6 DEF MarksOK, Before
<1> QED BY <1>3, <1>4, <1>5, <1>7, <1>8, <1>9, <1>10, <1>11

-----------------------------------------------------------------------------
(* store() with another folder                                             *)

\* An attempt starts with everything of the temporary project still to be flushed.
LEMMA PromoteStep == ASSUME IInv, Promote PROVE IInv'
<1> USE DEF IInv, marks, Promote, Idle, Goes
<1>1. /\ disk' \in [Dirs -> Folder]
      /\ Temp' = Temp /\ Dest' = [Dest EXCEPT !.there = TRUE]
  BY FolderType DEF Temp, Dest, TypeOK, Dirs, Folder
<1>2. TypeOK'
  <2>1. existed' \in BOOLEAN
    BY FolderType DEF Folder, Dest
  <2> QED BY <1>1, <2>1, SpendType, TypeStep DEF TypeOK, Stages, InTemp
<1>3. PathOK'
  BY <1>1 DEF PathOK, After
<1>4. TempOK'
  BY <1>1 DEF TempOK
<1>5. DestOK'
  BY <1>1 DEF DestOK
<1>6. FlushedOK'
  BY DEF FlushedOK, InTemp
<1>7. CopiedOK'
  BY DEF CopiedOK, After
<1>8. MovedOK'
  BY DEF MovedOK, After
<1>9. AtOK'
  BY <1>1 DEF AtOK, After
<1>10. CleanOK'
  BY <1>1 DEF CleanOK, Left, PathOK
<1>11. MarksOK'
  BY DEF MarksOK
<1> QED BY <1>2, <1>3, <1>4, <1>5, <1>6, <1>7, <1>8, <1>9, <1>10, <1>11

\* One more item is flushed to the temporary folder, or all have been.
LEMMA FlushStep == ASSUME IInv, Flush PROVE IInv'
<1> USE DEF IInv, marks, Goes, Flush
<1>1. ASSUME NEW x \in todo, Goes("flush", todo \ {x}), disk' = [disk EXCEPT !["temp"]
                 = Put(@, {x})]
      PROVE  IInv'
  <2>1. /\ disk' \in [Dirs -> Folder] /\ Dest' = Dest
        /\ Temp' \in Folder /\ Temp'.there = Temp.there /\ Temp'.meta = Temp.meta
        /\ \A y \in Items : Temp'.files[y] = IF y = x THEN memory[y] ELSE Temp.files[y]
        /\ \A y \in Items : memory[y] \notin {NoFile, Foreign}
    BY <1>1, PutType, Values DEF Temp, Dest, TypeOK, Dirs
  <2>2. TypeOK'
    BY <1>1, <2>1 DEF TypeOK
  <2>3. PathOK'
    BY <1>1, <2>1 DEF PathOK
  <2>4. TempOK'
    BY <2>1 DEF TempOK, FlushedOK, InTemp, Items
  <2>5. DestOK'
    BY <1>1, <2>1 DEF DestOK
  <2>6. FlushedOK'
    BY <1>1, <2>1 DEF FlushedOK, InTemp
  <2>7. CopiedOK'
    BY <1>1 DEF CopiedOK, After
  <2>8. MovedOK'
    BY <1>1 DEF MovedOK, After
  <2>9. AtOK'
    BY <1>1, <2>1 DEF AtOK
  <2>10. CleanOK'
    BY <1>1, <2>1 DEF CleanOK, Left
  <2>11. MarksOK'
    BY <1>1, <2>1 DEF MarksOK, Temp
  <2> QED BY <2>2, <2>3, <2>4, <2>5, <2>6, <2>7, <2>8, <2>9, <2>10, <2>11
<1>2. CASE todo = {} /\ Goes("check", {}) /\ UNCHANGED disk
  <2>1. disk' \in [Dirs -> Folder] /\ Temp' = Temp /\ Dest' = Dest
    BY <1>2 DEF Temp, Dest, TypeOK
  <2>2. TypeOK'
    BY <1>2 DEF TypeOK, Stages
  <2>3. PathOK'
    BY <1>2, <2>1 DEF PathOK, Before, After
  <2>4. TempOK'
    BY <2>1 DEF TempOK
  <2>5. DestOK'
    BY <1>2, <2>1 DEF DestOK
  <2>6. FlushedOK'
    BY <1>2, <2>1 DEF FlushedOK, InTemp
  <2>7. CopiedOK'
    BY <1>2 DEF CopiedOK, After
  <2>8. MovedOK'
    BY <1>2 DEF MovedOK, After
  <2>9. AtOK'
    BY <1>2, <2>1 DEF AtOK, After, Before
  <2>10. CleanOK'
    BY <2>1 DEF CleanOK, Left, Before, PathOK
  <2>11. MarksOK'
    BY <1>2 DEF MarksOK, Before
  <2> QED BY <2>2, <2>3, <2>4, <2>5, <2>6, <2>7, <2>8, <2>9, <2>10, <2>11
<1> QED BY <1>1, <1>2 DEF Flush, MustFlush

\* The files of a destination that is not free are left as they were; a free one has no file of
\* others.
LEMMA CheckStep == ASSUME IInv, Check PROVE IInv'
<1> USE DEF IInv, marks, Check, Goes
<1>1. CASE IsFree
  <2>0. /\ pc = "check" /\ pc' = "copy" /\ todo' = Entries
        /\ UNCHANGED <<disk, path, at, memory, marks, existed, copied, moved, strayed, used, whole>>
    BY <1>1
  <2>1. disk' \in [Dirs -> Folder] /\ Temp' = Temp /\ Dest' = Dest
    BY <2>0 DEF Temp, Dest, TypeOK
  <2> HIDE DEF Check
  <2>2. TypeOK'
    BY <2>0, <2>1 DEF TypeOK, Stages, Entries
  <2>3. PathOK'
    BY <2>0, <2>1 DEF PathOK, Before, After
  <2>4. TempOK'
    BY <2>0, <2>1 DEF TempOK
  <2>5. DestOK'
    BY <1>1, <2>0, <2>1, Values DEF DestOK, TempOK, PathOK, Before, Items, Entries, Temp, Dest,
       IsFree
  <2>6. FlushedOK'
    BY <2>0, <2>1 DEF FlushedOK, InTemp
  <2>7. CopiedOK'
    BY <2>0 DEF CopiedOK, Entries, After
  <2>8. MovedOK'
    BY <2>0 DEF MovedOK, After
  <2>9. AtOK'
    BY <2>0, <1>1, <2>1 DEF AtOK, After, Before
  <2>10. CleanOK'
    BY <2>0, <1>1, <2>1 DEF CleanOK, Left, Before, PathOK
  <2>11. MarksOK'
    BY <2>0, <1>1 DEF MarksOK, Before
  <2> QED BY <2>2, <2>3, <2>4, <2>5, <2>6, <2>7, <2>8, <2>9, <2>10, <2>11
<1>2. CASE ~IsFree
  <2>0. PICK u \in Undoings : Undoing(u, 0) /\ disk' = [disk EXCEPT !["dest"] = Cleaned(@, u)]
    BY <1>2 DEF Check
  <2>1. /\ used' \in Bounds /\ whole' \in BOOLEAN
        /\ pc' = "idle" /\ todo' = {} /\ existed' = FALSE /\ copied' = {} /\ moved' = {}
        /\ whole' => whole /\ u.left = {} /\ u.meta = "none"
        /\ UNCHANGED <<path, at, memory, unsaved, flags, shown, scheduled, forgotten, strayed>>
    BY <1>2, <2>0, UndoingType DEF Check, marks
  <2>2. /\ disk' \in [Dirs -> Folder]
        /\ Temp' = Temp /\ Dest' \in Folder /\ Dest'.meta = u.meta /\ pc = "check"
        /\ \A x \in Items : Dest'.files[x] = Dest.files[x]
    <3>1. pc = "check" /\ copied = {} /\ u.left = {}
      BY <2>0, UndoingsType DEF Check, CopiedOK
    <3> QED BY <2>0, <3>1, CleanedType, FolderType DEF Temp, Dest, TypeOK, Dirs
  <2> HIDE DEF Check
  <2>3. TypeOK'
    BY <2>1, <2>2, TypeStep DEF TypeOK, Stages
  <2>4. PathOK'
    BY <2>1, <2>2 DEF PathOK, Before, After
  <2>5. TempOK'
    BY <2>1, <2>2 DEF TempOK, MovedOK
  <2>6. DestOK'
    BY <2>1, <2>2 DEF DestOK, PathOK, Before, Items
  <2>7. FlushedOK' /\ CopiedOK' /\ MovedOK'
    BY <2>1 DEF FlushedOK, CopiedOK, MovedOK, After
  <2>8. AtOK'
    BY <2>1, <2>2 DEF AtOK, After, Before, PathOK, MovedOK
  <2>9. CleanOK'
    BY <2>1, <2>2 DEF CleanOK, Left, After, CopiedOK
  <2>10. MarksOK'
    BY <2>1, <2>2 DEF MarksOK, Before
  <2> QED BY <2>3, <2>4, <2>5, <2>6, <2>7, <2>8, <2>9, <2>10
<1> QED BY <1>1, <1>2 DEF Check

\* One more file is copied; when all have been, the providers are to be moved.
LEMMA CopyStep == ASSUME IInv, Copy PROVE IInv'
<1> USE DEF IInv, marks, Copy, Goes
<1>1. ASSUME NEW x \in todo, Goes("copy", todo \ {x}),
             disk' = [disk EXCEPT !["dest"].files[x] = disk["temp"].files[x]],
             copied' = copied \union {x}
      PROVE  IInv'
  <2>1. disk' \in [Dirs -> Folder] /\ Temp' = Temp
            /\ Dest' = [Dest EXCEPT !.files[x] = Temp.files[x]]
    BY <1>1 DEF Temp, Dest, TypeOK, Dirs, Folder
  <2>2. TypeOK'
    BY <2>1 DEF TypeOK
  <2>3. PathOK'
    BY <2>1 DEF PathOK
  <2>4. TempOK'
    BY <2>1 DEF TempOK
  <2>5. DestOK'
    BY <2>1 DEF DestOK, TempOK, PathOK, Before, Items
  <2>6. FlushedOK'
    BY <2>1 DEF FlushedOK, InTemp
  <2>7. CopiedOK'
    BY <1>1, <2>1 DEF CopiedOK, Entries, Dest, Folder
  <2>8. MovedOK'
    BY DEF MovedOK, After
  <2>9. AtOK'
    BY <2>1 DEF AtOK, DestOK, TempOK, PathOK, Before, Items
  <2>10. CleanOK'
    BY <1>1, <2>1 DEF CleanOK, Left
  <2>11. MarksOK'
    BY <1>1 DEF MarksOK
  <2> QED BY <2>2, <2>3, <2>4, <2>5, <2>6, <2>7, <2>8, <2>9, <2>10, <2>11
<1>2. CASE todo = {} /\ Goes("relocate", Files \intersect InTemp) /\ UNCHANGED <<disk, copied>>
  <2>1. disk' \in [Dirs -> Folder] /\ Temp' = Temp /\ Dest' = Dest
    BY <1>2 DEF Temp, Dest, TypeOK
  <2>2. TypeOK'
    BY <2>1 DEF TypeOK, Stages, InTemp
  <2>3. PathOK'
    BY <2>1 DEF PathOK, Before, After
  <2>4. TempOK'
    BY <2>1 DEF TempOK
  <2>5. DestOK'
    BY <2>1 DEF DestOK
  <2>6. FlushedOK'
    BY <2>1 DEF FlushedOK, InTemp
  <2>7. CopiedOK'
    BY <1>2, <2>1 DEF CopiedOK, Entries
  <2>8. MovedOK'
    BY DEF MovedOK, InTemp, After
  <2>9. AtOK'
    BY <2>1 DEF AtOK, After, Before, DestOK, TempOK, PathOK, Items
  <2>10. CleanOK'
    BY <2>1 DEF CleanOK, Left, Before, PathOK
  <2>11. MarksOK'
    BY <1>2 DEF MarksOK, Before
  <2> QED BY <2>2, <2>3, <2>4, <2>5, <2>6, <2>7, <2>8, <2>9, <2>10, <2>11
<1> QED BY <1>1, <1>2 DEF Copy

\* One more provider is moved; when all have been, none is left in the temporary folder.
LEMMA RelocateFilesStep == ASSUME IInv, Relocate("relocate", "setPath") PROVE IInv'
<1> USE DEF IInv, marks, Relocate, Goes
<1>1. ASSUME NEW x \in todo, Goes("relocate", todo \ {x}), at' = [at EXCEPT ![x] = "dest"],
             moved' = moved \union {x}
      PROVE  IInv'
  <2>1. disk' \in [Dirs -> Folder] /\ Temp' = Temp /\ Dest' = Dest
    BY DEF Temp, Dest, TypeOK
  <2>2. TypeOK'
    BY DEF TypeOK
  <2>3. PathOK'
    BY <2>1 DEF PathOK
  <2>4. TempOK'
    BY <1>1, <2>1 DEF TempOK
  <2>5. DestOK'
    BY <2>1 DEF DestOK
  <2>6. FlushedOK'
    BY <1>1, <2>1 DEF FlushedOK, InTemp
  <2>7. CopiedOK'
    BY <2>1 DEF CopiedOK, Entries
  <2>8. MovedOK'
    BY DEF MovedOK, InTemp, TypeOK
  <2>9. AtOK'
    BY <1>1, <2>1 DEF AtOK, DestOK
  <2>10. CleanOK'
    BY <2>1 DEF CleanOK, Left, MovedOK
  <2>11. MarksOK'
    BY DEF MarksOK
  <2> QED BY <2>2, <2>3, <2>4, <2>5, <2>6, <2>7, <2>8, <2>9, <2>10, <2>11
<1>2. CASE todo = {} /\ Goes("setPath", {}) /\ UNCHANGED <<at, moved>>
  <2>1. disk' \in [Dirs -> Folder] /\ Temp' = Temp /\ Dest' = Dest
    BY DEF Temp, Dest, TypeOK
  <2>2. TypeOK'
    BY DEF TypeOK, Stages
  <2>3. PathOK'
    BY <2>1 DEF PathOK, Before, After
  <2>4. TempOK'
    BY <1>2, <2>1 DEF TempOK
  <2>5. DestOK'
    BY <2>1 DEF DestOK
  <2>6. FlushedOK'
    BY <1>2, <2>1 DEF FlushedOK, InTemp
  <2>7. CopiedOK'
    BY <2>1 DEF CopiedOK, Entries
  <2>8. MovedOK'
    BY <1>2 DEF MovedOK, InTemp
  <2>9. AtOK'
    BY <1>2, <2>1 DEF AtOK, After, Before, DestOK
  <2>10. CleanOK'
    BY <2>1 DEF CleanOK, Left, Before, PathOK
  <2>11. MarksOK'
    BY DEF MarksOK, Before
  <2> QED BY <2>2, <2>3, <2>4, <2>5, <2>6, <2>7, <2>8, <2>9, <2>10, <2>11
<1> QED BY <1>1, <1>2 DEF Relocate

\* One more piece of data is moved, after the destination has become a project.
LEMMA RelocateDataStep == ASSUME IInv, Relocate("bindings", "marker") PROVE IInv'
<1> USE DEF IInv, marks, Relocate, Goes
<1>1. ASSUME NEW x \in todo, Goes("bindings", todo \ {x}), at' = [at EXCEPT ![x] = "dest"],
             moved' = moved \union {x}
      PROVE  IInv'
  <2>1. disk' \in [Dirs -> Folder] /\ Temp' = Temp /\ Dest' = Dest
    BY DEF Temp, Dest, TypeOK
  <2>2. TypeOK'
    BY DEF TypeOK
  <2>3. PathOK'
    BY <2>1 DEF PathOK
  <2>4. TempOK'
    BY <1>1, <2>1 DEF TempOK
  <2>5. DestOK'
    BY <2>1 DEF DestOK
  <2>6. FlushedOK'
    BY DEF FlushedOK
  <2>7. CopiedOK'
    BY <2>1 DEF CopiedOK, Entries
  <2>8. MovedOK'
    BY DEF MovedOK, InTemp, TypeOK
  <2>9. AtOK'
    BY <1>1, <2>1 DEF AtOK, DestOK
  <2>10. CleanOK'
    BY <1>1, <2>1 DEF CleanOK, Left, InTemp, MovedOK
  <2>11. MarksOK'
    BY <2>1 DEF MarksOK
  <2> QED BY <2>2, <2>3, <2>4, <2>5, <2>6, <2>7, <2>8, <2>9, <2>10, <2>11
<1>2. CASE todo = {} /\ Goes("marker", {}) /\ UNCHANGED <<at, moved>>
  <2>1. disk' \in [Dirs -> Folder] /\ Temp' = Temp /\ Dest' = Dest
    BY DEF Temp, Dest, TypeOK
  <2>2. TypeOK'
    BY DEF TypeOK, Stages
  <2>3. PathOK'
    BY <2>1 DEF PathOK, Before, After
  <2>4. TempOK'
    BY <1>2, <2>1 DEF TempOK
  <2>5. DestOK'
    BY <2>1 DEF DestOK
  <2>6. FlushedOK'
    BY DEF FlushedOK
  <2>7. CopiedOK'
    BY <2>1 DEF CopiedOK, Entries, After
  <2>8. MovedOK'
    BY <1>2 DEF MovedOK, InTemp, After, Items
  <2>9. AtOK'
    BY <1>2, <2>1 DEF AtOK, After, PathOK, DestOK
  <2>10. CleanOK'
    BY <1>2, <2>1 DEF CleanOK, Left, After
  <2>11. MarksOK'
    BY <2>1 DEF MarksOK, Before
  <2> QED BY <2>2, <2>3, <2>4, <2>5, <2>6, <2>7, <2>8, <2>9, <2>10, <2>11
<1> QED BY <1>1, <1>2 DEF Relocate

\* The destination becomes the path while the temporary folder still is complete.
LEMMA SetPathStep == ASSUME IInv, SetPath PROVE IInv'
<1> USE DEF IInv, marks, SetPath, Materialize, Relocated, Goes
<1>1. disk' \in [Dirs -> Folder] /\ Temp' = Temp /\ Dest' = Dest
  BY DEF Temp, Dest, TypeOK
<1>2. TypeOK'
  <2>1. /\ at' \in [Items -> {"temp", "dest", "nowhere"}] /\ path' = "dest"
        /\ pc' = "store" /\ todo' = {}
    BY DEF TypeOK
  <2>2. unsaved' \subseteq Parts /\ flags' \subseteq Parts
    BY DEF TypeOK, Bound, Parts
  <2> QED BY <1>1, <2>1, <2>2, TypeStep DEF TypeOK, Stages, Bounds
<1>3. PathOK'
  BY <1>1 DEF PathOK, Before
<1>4. TempOK'
  BY <1>1 DEF TempOK, Items
<1>5. DestOK'
  BY <1>1 DEF DestOK
<1>6. FlushedOK'
  BY <1>1 DEF FlushedOK, InTemp
<1>7. CopiedOK'
  BY <1>1 DEF CopiedOK, Entries
<1>8. MovedOK'
  BY DEF MovedOK, InTemp
<1>9. AtOK'
  <2>1. PICK items \in SUBSET {x \in Data : at[x] = "nowhere"} : at' = Relocated(items, "dest")
    BY DEF SetPath, Materialize
  <2>2. \A x \in Files : at'[x] = at[x]
    <3>1. \A x \in Files : x \in Items /\ x \notin items
      BY PromotionAssumption DEF Items
    <3> QED BY <2>1, <3>1 DEF Relocated
  <2> QED BY <1>1, <2>2, PromotionAssumption DEF AtOK, After, Before, PathOK, DestOK, Items
<1>10. CleanOK'
  BY <1>1 DEF CleanOK, Left, Before, PathOK
<1>11. MarksOK'
  BY DEF MarksOK, Before
<1> QED BY <1>2, <1>3, <1>4, <1>5, <1>6, <1>7, <1>8, <1>9, <1>10, <1>11

\* The metadata are written in two steps, then data is flushed where it is bound and the mark
\* is cleared.
LEMMA StoreStep == ASSUME IInv, Store PROVE IInv'
<1> USE DEF IInv, marks, Store, Goes
<1>1. CASE pc = "store" /\ disk' = [disk EXCEPT !["dest"].meta = "partial"]
                 /\ UNCHANGED <<flags, shown>>
  <2>1. disk' \in [Dirs -> Folder] /\ Temp' = Temp /\ Dest' = [Dest EXCEPT !.meta = "partial"]
    BY <1>1 DEF Temp, Dest, TypeOK, Dirs, Folder
  <2>2. TypeOK'
    BY <1>1, <2>1 DEF TypeOK, Stages
  <2>3. PathOK'
    BY <2>1 DEF PathOK, Before, After
  <2>4. TempOK'
    BY <2>1 DEF TempOK
  <2>5. DestOK'
    BY <2>1 DEF DestOK, PathOK, After
  <2>6. FlushedOK'
    BY <2>1 DEF FlushedOK, InTemp
  <2>7. CopiedOK'
    BY <1>1, <2>1 DEF CopiedOK, Entries, After
  <2>8. MovedOK'
    BY DEF MovedOK, InTemp, After
  <2>9. AtOK'
    BY <2>1 DEF AtOK, After, PathOK, DestOK
  <2>10. CleanOK'
    BY <2>1 DEF CleanOK, Left, After
  <2>11. MarksOK'
    BY <1>1 DEF MarksOK, Before
  <2> QED BY <2>2, <2>3, <2>4, <2>5, <2>6, <2>7, <2>8, <2>9, <2>10, <2>11
<1>2. CASE pc = "manifest" /\ disk' = [disk EXCEPT !["dest"].meta = "complete"]
                 /\ UNCHANGED <<flags, shown>>
  <2>1. disk' \in [Dirs -> Folder] /\ Temp' = Temp /\ Dest' = [Dest EXCEPT !.meta = "complete"]
    BY <1>2 DEF Temp, Dest, TypeOK, Dirs, Folder
  <2>2. TypeOK'
    BY <1>2, <2>1 DEF TypeOK, Stages
  <2>3. PathOK'
    BY <2>1 DEF PathOK, Before, After
  <2>4. TempOK'
    BY <2>1 DEF TempOK
  <2>5. DestOK'
    BY <2>1 DEF DestOK, PathOK, After
  <2>6. FlushedOK'
    BY <2>1 DEF FlushedOK, InTemp
  <2>7. CopiedOK'
    BY <1>2, <2>1 DEF CopiedOK, Entries, After
  <2>8. MovedOK'
    BY DEF MovedOK, InTemp, After
  <2>9. AtOK'
    BY <2>1 DEF AtOK, After, PathOK, DestOK
  <2>10. CleanOK'
    BY <2>1 DEF CleanOK, Left, After
  <2>11. MarksOK'
    BY <2>1 DEF MarksOK, Before
  <2> QED BY <2>2, <2>3, <2>4, <2>5, <2>6, <2>7, <2>8, <2>9, <2>10, <2>11
<1>3. CASE pc = "stored"
  <2>1. /\ disk' \in [Dirs -> Folder] /\ Temp' = Temp
        /\ Dest' \in Folder /\ Dest'.there = Dest.there /\ Dest'.meta = Dest.meta
        /\ \A y \in Items : Dest'.files[y] = IF y \in Data /\ at[y] = "dest" THEN memory[y]
                                                                     ELSE Dest.files[y]
        /\ \A y \in Items : memory[y] \notin {NoFile, Foreign}
    <3>1. \A y \in Items : memory[y] \notin {NoFile, Foreign}
      BY Values DEF TypeOK
    <3> HIDE DEF IInv, Store
    <3> QED BY <1>3, <3>1, StoredEffect
  <2>2. TypeOK'
    BY <1>3, <2>1, SpendType, Values, TypeStep DEF TypeOK, Stages, InTemp, Items
  <2>3. PathOK'
    BY <2>1 DEF PathOK, Before, After
  <2>4. TempOK'
    BY <2>1 DEF TempOK
  <2>5. DestOK'
    BY <2>1 DEF DestOK, Items
  <2>6. FlushedOK'
    BY <1>3 DEF FlushedOK
  <2>7. CopiedOK'
    BY <2>1, PromotionAssumption DEF CopiedOK, Entries, Temp, After, TempOK, MovedOK, PathOK
  <2>8. MovedOK'
    BY DEF MovedOK, InTemp, After
  <2>9. AtOK'
    BY <2>1 DEF AtOK, After, PathOK, DestOK
  <2>10. CleanOK'
    <3>1. \A x \in Items \ Left' : x \notin Left /\ Dest'.files[x] = Dest.files[x]
      BY <2>1, PromotionAssumption DEF Left, MovedOK, After
    <3> QED BY <2>1, <3>1 DEF CleanOK, After
  <2>11. MarksOK'
    BY <1>3, <2>1 DEF MarksOK, Before
  <2> QED BY <2>2, <2>3, <2>4, <2>5, <2>6, <2>7, <2>8, <2>9, <2>10, <2>11
<1> QED BY <1>1, <1>2, <1>3

\* The marker changes nothing but itself.
LEMMA WriteMarkerStep == ASSUME IInv, WriteMarker PROVE IInv'
<1> USE DEF IInv, marks, WriteMarker, Goes
<1>1. disk' \in [Dirs -> Folder] /\ Dest' = Dest /\ Temp' = [Temp EXCEPT !.marker = TRUE]
  BY FolderType DEF Temp, Dest, TypeOK, Dirs, Folder
<1>2. TypeOK'
  BY <1>1 DEF TypeOK, Stages
<1>3. PathOK'
  BY <1>1 DEF PathOK, Before, After
<1>4. TempOK'
  BY <1>1 DEF TempOK
<1>5. DestOK'
  BY <1>1 DEF DestOK
<1>6. FlushedOK'
  BY DEF FlushedOK
<1>7. CopiedOK'
  BY <1>1 DEF CopiedOK, Entries, After
<1>8. MovedOK'
  BY DEF MovedOK, InTemp
<1>9. AtOK'
  BY <1>1 DEF AtOK, After, PathOK
<1>10. CleanOK'
  BY <1>1 DEF CleanOK, Left, After
<1>11. MarksOK'
  BY <1>1 DEF MarksOK, Before
<1> QED BY <1>2, <1>3, <1>4, <1>5, <1>6, <1>7, <1>8, <1>9, <1>10, <1>11

\* The rename is the moment at which the destination holds the project alone.
LEMMA RenameStep == ASSUME IInv, Rename PROVE IInv'
<1> USE DEF IInv, marks, Rename, Goes
<1>1. disk' \in [Dirs -> Folder] /\ Dest' = Dest /\ Temp' = Absent /\ ~Absent.there
  BY DEF Temp, Dest, TypeOK, Dirs, Folder, Absent, NoFiles
<1>2. TypeOK'
  BY <1>1 DEF TypeOK, Stages
<1>3. PathOK'
  BY <1>1 DEF PathOK, Before, After
<1>4. TempOK'
  BY <1>1 DEF TempOK
<1>5. DestOK'
  BY <1>1 DEF DestOK, TypeOK, MarksOK
<1>6. FlushedOK'
  BY DEF FlushedOK
<1>7. CopiedOK'
  BY DEF CopiedOK, After
<1>8. MovedOK'
  BY DEF MovedOK, InTemp
<1>9. AtOK'
  BY <1>1 DEF AtOK, After, PathOK
<1>10. CleanOK'
  BY <1>1 DEF CleanOK
<1>11. MarksOK'
  BY <1>1 DEF MarksOK, Before
<1> QED BY <1>2, <1>3, <1>4, <1>5, <1>6, <1>7, <1>8, <1>9, <1>10, <1>11

\* The promoted folder is removed, or stays.
LEMMA RemovePromotedStep == ASSUME IInv, RemovePromoted PROVE IInv'
<1> USE DEF IInv, marks, RemovePromoted, Goes
<1>1. disk' \in [Dirs -> Folder] /\ Temp' = Temp /\ Dest' = Dest
  <2>1. Absent \in Folder
    BY DEF Absent, NoFiles, Folder
  <2> QED BY <2>1 DEF Temp, Dest, TypeOK, Dirs
<1>2. TypeOK'
  BY <1>1, SpendType, TypeStep DEF TypeOK, Stages
<1>3. PathOK'
  BY <1>1 DEF PathOK, Before, After
<1>4. TempOK'
  BY <1>1 DEF TempOK
<1>5. DestOK'
  BY <1>1 DEF DestOK
<1>6. FlushedOK'
  BY DEF FlushedOK
<1>7. CopiedOK'
  BY DEF CopiedOK, After
<1>8. MovedOK'
  BY DEF MovedOK, After
<1>9. AtOK'
  BY <1>1 DEF AtOK, InTemp, After, MovedOK, PathOK
<1>10. CleanOK'
  BY <1>1 DEF CleanOK, PathOK
<1>11. MarksOK'
  BY <1>1 DEF MarksOK, PathOK, Dest
<1> QED BY <1>2, <1>3, <1>4, <1>5, <1>6, <1>7, <1>8, <1>9, <1>10, <1>11

-----------------------------------------------------------------------------
(* Failing after the path is set, and a crash                              *)

\* A failure after the path was set: the temporary folder is the project again, all providers
\* show that they have changed; what is still at the destination has strayed.
LEMMA UndoStep ==
    ASSUME IInv, pc \in After, NEW temp \in {Temp, [Temp EXCEPT !.marker = FALSE]}, NEW u,
           UndoIn(temp, u)
    PROVE  IInv'
<1> USE DEF IInv
<1> DEFINE bound == {x \in Data \ moved : at[x] = "dest"}
<1>0. PICK flushed \in SUBSET bound :
        disk' = [disk EXCEPT !["dest"] = Cleaned(Put(Dest, flushed), u), !["temp"] = temp]
  BY DEF UndoIn, Dest
<1>1. /\ u \in Undoings /\ used' \in Bounds /\ whole' \in BOOLEAN
      /\ pc' = "idle" /\ todo' = {} /\ existed' = FALSE /\ copied' = {} /\ moved' = {}
      /\ whole' => whole /\ u.left = {} /\ u.meta = "none"
  BY UndoingType DEF UndoIn
<1>2. /\ at' = [x \in Items |-> IF x \in moved \ u.stuck THEN "temp" ELSE at[x]]
      /\ strayed' = strayed \union u.stuck \union bound
      /\ path' = "temp" /\ shown' = Files
      /\ forgotten' = (forgotten \/ (/\ Project \in unsaved
                                     /\ pc \in {"bindings", "marker", "rename"}))
      /\ UNCHANGED <<memory, unsaved, flags, scheduled>>
  BY DEF UndoIn, MovedBack, Relocated, Remark
<1>3. /\ u.stuck \subseteq moved /\ u.stuck \subseteq Files /\ u.left \subseteq copied
  BY <1>1, UndoingsType DEF After
<1>4. /\ disk' \in [Dirs -> Folder]
      /\ Temp' \in Folder /\ Temp'.there = Temp.there /\ Temp'.meta = Temp.meta
      /\ Temp'.files = Temp.files
      /\ Dest' \in Folder /\ Dest'.meta = u.meta
      /\ \A x \in Items : Dest'.files[x] = IF x \in u.left THEN Temp.files[x]
                                           ELSE IF x \in copied THEN NoFile
                                           ELSE IF x \in flushed THEN memory[x] ELSE Dest.files[x]
      /\ \A x \in Items : memory[x] \notin {NoFile, Foreign}
  <2>1. /\ temp \in Folder /\ temp.there = Temp.there /\ temp.meta = Temp.meta
        /\ temp.files = Temp.files
    BY FolderType DEF Folder
  <2>2. Put(Dest, flushed) \in Folder
    BY FolderType, PutType
  <2>3. Cleaned(Put(Dest, flushed), u) \in Folder
    BY <1>1, <2>2, CleanedType
  <2>4. /\ disk' \in [Dirs -> Folder] /\ Temp' = temp
        /\ Dest' = Cleaned(Put(Dest, flushed), u)
    BY <1>0, <2>1, <2>3 DEF Temp, Dest, TypeOK, Dirs
  <2> QED BY <1>1, <2>1, <2>2, <2>4, FolderType, PutType, CleanedType, Values DEF TypeOK
<1>5. TypeOK'
  BY <1>1, <1>2, <1>3, <1>4, TypeStep DEF TypeOK, Stages, Items
<1>6. PathOK'
  BY <1>1, <1>2, <1>4 DEF PathOK, Before, After
<1>7. TempOK'
  BY <1>1, <1>2, <1>3, <1>4, PromotionAssumption DEF TempOK, Items
<1>8. /\ Temp.there /\ path = "dest"
      /\ \A x \in Items : Temp.files[x] # Foreign /\ Dest.files[x] # Foreign
  BY DEF PathOK, TempOK, DestOK, After
<1>9. DestOK'
  BY <1>1, <1>2, <1>4, <1>8, Values DEF DestOK, Items
<1>10. FlushedOK' /\ CopiedOK' /\ MovedOK'
  BY <1>1 DEF FlushedOK, CopiedOK, MovedOK, After
<1>11. AtOK'
  <2>1. \A x \in Items : at'[x] = "dest" => x \in strayed'
    BY <1>2 DEF AtOK, Items
  <2>2. \A x \in Items : Dest'.files[x] # Foreign
    BY <1>4, <1>8, Values
  <2> QED BY <1>1, <1>2, <2>1, <2>2 DEF AtOK, After
<1>12. CleanOK'
  <2>1. Left' = strayed' /\ strayed \subseteq strayed'
    BY <1>1, <1>2 DEF Left, After
  <2>2. \A x \in Items \ strayed' : x \notin bound
    BY <1>2
  <2>3. \A x \in Items \ strayed' : x \notin flushed /\ (x \notin copied => x \notin Left)
    BY <2>1, <2>2 DEF Left
  <2> QED BY <1>1, <1>2, <1>4, <2>1, <2>3 DEF CleanOK
<1>13. MarksOK'
  <2>1. unsaved \subseteq Files \union {Project}
    BY DEF TypeOK, Parts
  <2>2. CASE pc \in {"bindings", "marker", "rename"}
    BY <1>1, <1>2, <2>1, <2>2 DEF MarksOK
  <2>3. CASE pc \in {"store", "manifest", "stored"}
    <3>1. forgotten' = forgotten
      BY <1>2, <2>3 DEF TypeOK
    <3> QED BY <1>1, <1>2, <2>1, <2>3, <3>1 DEF MarksOK, TypeOK
  <2> QED BY <2>2, <2>3 DEF After
<1> QED BY <1>5, <1>6, <1>7, <1>9, <1>10, <1>11, <1>12, <1>13

\* A failure at any stage.
LEMMA FailStep == ASSUME IInv, Fail PROVE IInv'
<1>1. ASSUME NEW u \in Undoings, pc \in {"flush", "check", "copy", "relocate"} /\ GiveUp(u)
      PROVE  IInv'
  BY <1>1, GiveUpStep
<1>2. ASSUME NEW u \in Undoings,
             pc \in {"store", "manifest", "stored", "bindings", "marker"} /\ Undo(u)
      PROVE  IInv'
  BY <1>2, UndoStep DEF Undo, Temp, After
<1>3. ASSUME NEW u \in Undoings,
             pc = "rename" /\ UndoIn([disk["temp"] EXCEPT !.marker = FALSE], u)
      PROVE  IInv'
  BY <1>3, UndoStep DEF Temp, After
<1> QED BY <1>1, <1>2, <1>3 DEF Fail

\* A restart reads the folder that is complete, whichever stage it interrupted.
LEMMA RestartStep == ASSUME IInv, Restart PROVE IInv'
<1> USE DEF IInv
<1> DEFINE home == IF Temp.there THEN "temp" ELSE "dest"
           folder == IF Temp.there THEN Temp ELSE Dest
<1>1. /\ disk' \in [Dirs -> Folder] /\ Dest' = Dest
      /\ Temp' = [Temp EXCEPT !.marker = FALSE]
      /\ Temp' \in Folder /\ Temp'.there = Temp.there /\ Temp'.meta = Temp.meta
      /\ Temp'.files = Temp.files
  <2>1. Absent \in Folder
    BY DEF Absent, NoFiles, Folder
  <2>2. [Temp EXCEPT !.marker = FALSE] \in Folder
    BY FolderType DEF Folder
  <2>3. /\ disk' \in [Dirs -> Folder] /\ Dest' = Dest
        /\ Temp' = [Temp EXCEPT !.marker = FALSE]
    BY <2>1, <2>2 DEF Restart, Swept, Temp, Dest, TypeOK, Dirs
  <2> QED BY <2>2, <2>3
<1>2. /\ path' = home
      /\ memory' = [x \in Items |-> IF folder.files[x] = NoFile THEN 0 ELSE folder.files[x]]
      /\ at' = [x \in Items |-> IF folder.files[x] = NoFile THEN "nowhere" ELSE home]
      /\ unsaved' = {} /\ flags' = {} /\ shown' = {} /\ scheduled' = FALSE /\ forgotten' = FALSE
      /\ pc' = "idle" /\ todo' = {} /\ existed' = FALSE /\ copied' = {} /\ moved' = {}
      /\ whole' = (whole /\ Idle) /\ UNCHANGED strayed
  <2>1. path' = home
    BY <1>1 DEF Restart, FoundBy, Temp
  <2>2. disk'[path'].files = folder.files
    BY <1>1, <2>1 DEF Temp, Dest
  <2> QED BY <2>1, <2>2 DEF Restart, Read, Goes
<1>3. ~Temp.there => path = "dest"
  BY DEF PathOK, TypeOK, Stages, Before, After
<1>4. \A x \in Items : folder.files[x] \in Version \union {NoFile}
  BY <1>3, FolderType DEF TempOK, DestOK, Folder
<1> HIDE DEF home, folder
<1>5. TypeOK'
  <2>1. memory' \in [Items -> Version]
    BY <1>2, <1>4, Values
  <2>2. at' \in [Items -> {"temp", "dest", "nowhere"}] /\ path' \in {"temp", "dest"}
    BY <1>2 DEF home
  <2> QED BY <1>1, <1>2, <1>4, <2>1, <2>2, SpendType, TypeStep DEF Restart, TypeOK, Stages, Idle
<1>6. PathOK'
  BY <1>1, <1>2 DEF PathOK, Before, After, home
<1>7. TempOK'
  <2>1. Temp.there => \A x \in Items : at'[x] # "temp" => Temp.files[x] = NoFile
    BY <1>2 DEF home, folder
  <2> QED BY <1>1, <2>1 DEF TempOK, Items
<1>8. DestOK'
  BY <1>1, <1>2, <1>3 DEF DestOK, home
<1>9. FlushedOK' /\ CopiedOK' /\ MovedOK'
  BY <1>2 DEF FlushedOK, CopiedOK, MovedOK, After
<1>10. AtOK'
  <2>1. \A x \in Items : at'[x] = "dest" => folder = Dest /\ Dest.files[x] # Foreign
    BY <1>2, <1>4, Values DEF home, folder
  <2>2. \A x \in Items : at'[x] = path' \/ at'[x] = "nowhere"
    BY <1>2
  <2> QED BY <1>1, <1>2, <2>1, <2>2 DEF AtOK, InTemp, After
<1>11. CleanOK'
  <2>1. whole' => Left = strayed /\ Left' = strayed /\ pc = "idle"
    BY <1>2 DEF Left, After, Idle, CopiedOK
  <2> QED BY <1>1, <1>2, <2>1 DEF CleanOK, After
<1>12. MarksOK'
  BY <1>2 DEF MarksOK
<1> QED BY <1>5, <1>6, <1>7, <1>8, <1>9, <1>10, <1>11, <1>12

-----------------------------------------------------------------------------
(* The theorems                                                            *)

\* The invariant holds at the start, for any destination.
LEMMA InitInv == ASSUME Init PROVE IInv
<1>1. PICK bound \in SUBSET Data,
           dest \in {Absent, [Absent EXCEPT !.there = TRUE],
                    [Absent EXCEPT !.there = TRUE, !.meta = "foreign"]}
                \union {[Absent EXCEPT !.there = TRUE, !.files[x] = Foreign] : x \in Files} :
        /\ at = [x \in Items |-> IF x \in Files \union bound THEN "temp" ELSE "nowhere"]
        /\ disk = [d \in Dirs |->
                CASE d = "temp" -> [there |-> TRUE, meta |-> "complete", marker |-> FALSE, files |->
                         [x \in Items |-> IF x \in Files \union bound THEN 0 ELSE NoFile]]
                  [] d = "dest" -> dest
                  [] d = "promoted" -> Absent]
  BY DEF Init
<1>2. Absent \in Folder
  BY DEF Absent, NoFiles, Folder
<1>3. /\ dest \in Folder /\ dest.meta \in {"none", "foreign"}
      /\ \A x \in Items : dest.files[x] \in {NoFile, Foreign}
      /\ \A x \in Data : dest.files[x] = NoFile
  <2>1. CASE dest \in {Absent, [Absent EXCEPT !.there = TRUE],
                      [Absent EXCEPT !.there = TRUE, !.meta = "foreign"]}
    <3>1. Absent.files = NoFiles /\ Absent.meta = "none"
      BY DEF Absent
    <3>2. dest.files = NoFiles /\ dest.meta \in {"none", "foreign"} /\ dest \in Folder
      <4>1. CASE dest = Absent
        BY <1>2, <3>1, <4>1
      <4>2. CASE dest = [Absent EXCEPT !.there = TRUE]
        BY <1>2, <3>1, <4>2 DEF Folder
      <4>3. CASE dest = [Absent EXCEPT !.there = TRUE, !.meta = "foreign"]
        BY <1>2, <3>1, <4>3 DEF Folder
      <4> QED BY <2>1, <4>1, <4>2, <4>3
    <3> QED BY <3>2 DEF NoFiles, Items
  <2>2. ASSUME NEW x \in Files, dest = [Absent EXCEPT !.there = TRUE, !.files[x] = Foreign]
        PROVE  <1>3!1 /\ <1>3!2 /\ <1>3!3
    <3>1. dest.files = [NoFiles EXCEPT ![x] = Foreign] /\ dest.meta = "none"
      BY <2>2 DEF Absent
    <3>2. dest \in Folder
      BY <1>2, <2>2 DEF Absent, NoFiles, Folder
    <3>3. \A y \in Data : y # x /\ y \in Items
      BY PromotionAssumption DEF Items
    <3> QED BY <3>1, <3>2, <3>3 DEF NoFiles
  <2> QED BY <1>1, <2>1, <2>2
<1>4. /\ Temp \in Folder /\ Temp.there /\ Temp.meta = "complete"
      /\ Temp.files = [x \in Items |-> IF x \in Files \union bound THEN 0 ELSE NoFile]
      /\ Dest = dest /\ disk["promoted"] = Absent
  <2> DEFINE files == [x \in Items |-> IF x \in Files \union bound THEN 0 ELSE NoFile]
  <2>1. files \in [Items -> Version \union {NoFile, Foreign}]
    BY Values
  <2> HIDE DEF files
  <2>2. Temp = [there |-> TRUE, meta |-> "complete", marker |-> FALSE, files |-> files]
    BY <1>1 DEF Temp, Dirs, files
  <2>3. Dest = dest /\ disk["promoted"] = Absent
    BY <1>1 DEF Dest, Dirs
  <2> QED BY <2>1, <2>2, <2>3, Values DEF Folder, files
<1>5. /\ path = "temp" /\ memory = [x \in Items |-> 0]
      /\ unsaved = {} /\ flags = {} /\ shown = {} /\ scheduled = FALSE /\ forgotten = FALSE
      /\ pc = "idle" /\ todo = {}
      /\ existed = FALSE /\ copied = {} /\ moved = {} /\ strayed = {} /\ whole = TRUE
      /\ used = [edits |-> 0, faults |-> 0, tries |-> 0, crashes |-> 0]
  BY DEF Init
<1>6. TypeOK
  <2>1. disk \in [Dirs -> Folder]
    BY <1>1, <1>2, <1>3, <1>4 DEF Temp, Dest, Dirs
  <2>2. at \in [Items -> {"temp", "dest", "nowhere"}]
    BY <1>1
  <2>3. used \in Bounds
    BY <1>5, ZeroBound DEF Bounds
  <2> QED BY <1>5, <2>1, <2>2, <2>3, Values DEF TypeOK, Stages, Bounds
<1>7. PathOK
  BY <1>4, <1>5 DEF PathOK, Before, After
<1>8. TempOK
  <2>1. \A x \in Items : Temp.files[x] = IF x \in Files \union bound THEN 0 ELSE NoFile
    BY <1>4
  <2>2. \A x \in Items : at[x] = IF x \in Files \union bound THEN "temp" ELSE "nowhere"
    BY <1>1
  <2> QED BY <1>4, <1>5, <2>1, <2>2, Values DEF TempOK, Items
<1>9. DestOK
  BY <1>3, <1>4, <1>5, Values DEF DestOK
<1>10. FlushedOK /\ CopiedOK /\ MovedOK
  BY <1>5 DEF FlushedOK, CopiedOK, MovedOK, After
<1>11. AtOK
  BY <1>1, <1>4, <1>5 DEF AtOK, After
<1>12. CleanOK
  BY <1>3, <1>4, <1>5 DEF CleanOK
<1>13. MarksOK
  BY <1>5 DEF MarksOK
<1> QED BY <1>6, <1>7, <1>8, <1>9, <1>10, <1>11, <1>12, <1>13 DEF IInv

\* Every step preserves the invariant.
LEMMA StepInv == ASSUME IInv, [Next]_vars PROVE IInv'
<1>1. ASSUME NEW x \in Items, Edit(x) \/ SaveItem(x) PROVE IInv'
  BY <1>1, EditStep, SaveItemStep
<1>2. CASE (\E p \in Parts : EditMetadata(p)) \/ SaveMetadata
  BY <1>2, EditMetadataStep, SaveMetadataStep
<1>3. CASE Promote \/ Flush \/ Check \/ Copy \/ SetPath \/ Store
  BY <1>3, PromoteStep, FlushStep, CheckStep, CopyStep, SetPathStep, StoreStep
<1>4. CASE Relocate("relocate", "setPath") \/ Relocate("bindings", "marker")
  BY <1>4, RelocateFilesStep, RelocateDataStep
<1>5. CASE WriteMarker \/ Rename \/ RemovePromoted
  BY <1>5, WriteMarkerStep, RenameStep, RemovePromotedStep
<1>6. CASE Fail \/ Restart
  BY <1>6, FailStep, RestartStep
<1>7. CASE UNCHANGED vars
  BY <1>7 DEF vars, IInv, TypeOK, PathOK, TempOK, DestOK, FlushedOK, CopiedOK, MovedOK, AtOK,
     CleanOK,
         MarksOK, Temp, Dest, InTemp, Entries, Left
<1> QED BY <1>1, <1>2, <1>3, <1>4, <1>5, <1>6, <1>7 DEF Next

\* The inductive invariant holds in every reachable state.
THEOREM Invariance == Spec => []IInv
  BY InitInv, StepInv, PTL DEF Spec

\* The type of every variable.
THEOREM TypeCorrect == Spec => []TypeOK
<1>1. IInv => TypeOK
  BY DEF IInv
<1> QED BY <1>1, Invariance, PTL

\* Between attempts every open file is in the folder of the open project (a failing store moves
\* back what it moved), except data that a failed attempt bound elsewhere and files that it
\* could not move back.
THEOREM FilesAlwaysFollow == Spec => []FilesFollowProject
<1>1. IInv => FilesFollowProject
  <2> SUFFICES ASSUME IInv, Idle, NEW x \in Items \ strayed PROVE at[x] \in {path, "nowhere"}
    BY DEF FilesFollowProject
  <2>1. at[x] \in {"temp", "dest", "nowhere"} /\ path \in {"temp", "dest"} /\ moved = {}
    BY DEF IInv, TypeOK, MovedOK, Idle
  <2> QED BY <2>1 DEF IInv, AtOK, InTemp, Idle
<1> QED BY <1>1, Invariance, PTL

\* A failed attempt leaves nothing of the project at the destination (cleanupPromotion), unless
\* a crash or an error of the cleanup cut it short.
THEOREM FailureNeverLeaves == Spec => []FailureLeavesNothing
<1>1. IInv => FailureLeavesNothing
  <2> SUFFICES ASSUME IInv, Idle, path = "temp", whole
               PROVE  /\ Dest.meta \in {"none", "foreign"}
                      /\ \A x \in Items \ strayed : Dest.files[x] \in {NoFile, Foreign}
    BY DEF FailureLeavesNothing, Dest
  <2>1. Temp.there /\ Left = strayed
    BY DEF IInv, PathOK, Left, CopiedOK, Idle
  <2> QED BY <2>1 DEF IInv, CleanOK, Idle, After
<1> QED BY <1>1, Invariance, PTL

\* Metadata that the files lack is flagged or shown by its provider, also after an attempt that
\* cleared the marks and failed (resetPath), except what belongs to no provider.
THEOREM UnsavedAlwaysMarked == Spec => []UnsavedIsMarked
<1>1. IInv => UnsavedIsMarked
  BY DEF IInv, MarksOK, UnsavedIsMarked, Idle
<1> QED BY <1>1, Invariance, PTL

-----------------------------------------------------------------------------
(* Files of others at the destination                                      *)

\* No step touches a file of others: nothing is copied before the destination was found free of
\* the name, nothing is cleaned up that was not copied.
LEMMA ForeignStep ==
    ASSUME IInv, Next, NEW x \in Items, Dest.files[x] = Foreign
    PROVE  Dest'.files[x] = Foreign
<1> USE FolderType DEF IInv
<1>1. pc \in {"idle", "flush", "check"} /\ path = "temp" /\ x \in Files /\ x \notin copied
  BY DEF DestOK, TypeOK, Items, CopiedOK
<1>2. ASSUME NEW y \in Items, Edit(y) \/ SaveItem(y) PROVE Dest'.files[x] = Foreign
  <2>1. CASE Edit(y)
    BY <2>1 DEF Edit, Dest
  <2>2. CASE SaveItem(y)
    <3>1. at[y] = "dest" => y # x
      BY DEF AtOK
    <3>2. CASE at[y] = "dest"
      <4>1. Dest' = Put(Dest, {y})
        BY <2>2, <3>2 DEF SaveItem, Dest, Dirs
      <4> QED BY <3>1, <3>2, <4>1, PutType
    <3>3. CASE at[y] = "temp"
      BY <2>2, <3>3 DEF SaveItem, Dest
    <3> QED BY <2>2, <3>2, <3>3 DEF SaveItem, TypeOK
  <2> QED BY <1>2, <2>1, <2>2
<1>3. CASE (\E p \in Parts : EditMetadata(p)) \/ SaveMetadata
  BY <1>3 DEF EditMetadata, SaveMetadata, Dest
<1>4. CASE Promote \/ Flush
  <2>1. CASE Promote
    BY <2>1 DEF Promote, Dest
  <2>2. CASE Flush
    BY <2>2 DEF Flush, MustFlush, Dest, TypeOK, Dirs
  <2> QED BY <1>4, <2>1, <2>2
<1>5. ASSUME NEW u \in Undoings, disk' = [disk EXCEPT !["dest"] = Cleaned(@, u)],
             pc \in {"flush", "check"}
      PROVE  Dest'.files[x] = Foreign
  <2>1. Dest' = Cleaned(Dest, u) /\ x \notin u.left
    BY <1>1, <1>5, UndoingsType DEF Dest, TypeOK, Dirs
  <2> QED BY <1>1, <2>1, CleanedType
<1>6. CASE Check \/ Fail
  BY <1>1, <1>5, <1>6 DEF Check, Fail, GiveUp, Dest
<1>7. CASE Restart
  BY <1>7 DEF Restart, Swept, Dest, Dirs
<1>8. ~(\/ Copy \/ Relocate("relocate", "setPath") \/ SetPath \/ Store
        \/ Relocate("bindings", "marker") \/ WriteMarker \/ Rename \/ RemovePromoted)
  BY <1>1 DEF Copy, Relocate, SetPath, Store, WriteMarker, Rename, RemovePromoted
<1> QED BY <1>2, <1>3, <1>4, <1>6, <1>7, <1>8 DEF Next

\* copyTemporaryProjectFiles and cleanupPromotion neither overwrite nor remove what was at the
\* destination before.
THEOREM ForeignFilesAlwaysKept == Spec => ForeignFilesKept
<1>1. IInv /\ [Next]_vars
        => [\A x \in Items : disk["dest"].files[x] = Foreign
            => disk'["dest"].files[x] = Foreign]_vars
  BY ForeignStep DEF Dest
<1> QED BY <1>1, Invariance, PTL DEF Spec, ForeignFilesKept

-----------------------------------------------------------------------------
(* The refinement of ProjectHome                                           *)

\* A step that keeps the temporary folder, and what is in it, is a stutter of ProjectHome.
LEMMA HomeStutters ==
    ASSUME Temp'.there = Temp.there,
           Temp.there => Temp'.files = Temp.files,
           ~Temp.there => Dest'.files = Dest.files
    PROVE  UNCHANGED <<IF disk["temp"].there THEN "temp" ELSE "dest",
                       IF disk["temp"].there THEN disk["temp"].files ELSE disk["dest"].files>>
  BY DEF Temp, Dest

\* A step that saves into the folder that is the project's home is a save of ProjectHome.
LEMMA HomeSaves ==
    ASSUME IInv, NEW x \in Items,
           \/ Temp.there /\ Temp' = Put(Temp, {x})
           \/ ~Temp.there /\ Temp' = Temp /\ Dest' = Put(Dest, {x})
    PROVE  Home!Save(x)
<1> USE FolderType, PutType DEF IInv
<1>1. \A folder \in Folder : Put(folder, {x}).files = [folder.files EXCEPT ![x] = memory[x]]
  <2> SUFFICES ASSUME NEW folder \in Folder
               PROVE  Put(folder, {x}).files = [folder.files EXCEPT ![x] = memory[x]]
    OBVIOUS
  <2>1. folder.files \in [Items -> Version \union {NoFile, Foreign}]
    BY DEF Folder
  <2>2. Put(folder, {x}).files \in [Items -> Version \union {NoFile, Foreign}]
    BY DEF Folder
  <2> QED BY <2>1, <2>2
<1>2. memory[x] \in Version
  BY DEF TypeOK
<1>3. CASE Temp.there /\ Temp' = Put(Temp, {x})
  <2>1. Temp'.there /\ Temp'.files = [Temp.files EXCEPT ![x] = memory[x]]
    BY <1>1, <1>3
  <2> QED BY <1>2, <2>1 DEF Home!Save, Temp
<1>4. CASE ~Temp.there /\ Temp' = Temp /\ Dest' = Put(Dest, {x})
  <2>1. ~Temp'.there /\ Dest'.files = [Dest.files EXCEPT ![x] = memory[x]]
    BY <1>1, <1>4
  <2> QED BY <1>2, <2>1 DEF Home!Save, Temp, Dest
<1> QED BY <1>3, <1>4

\* Every step is a step of ProjectHome or a stutter: only Rename moves the home.
LEMMA HomeStep ==
    ASSUME IInv, [Next]_vars
    PROVE  [Home!Next]_<<IF disk["temp"].there THEN "temp" ELSE "dest",
                       IF disk["temp"].there THEN disk["temp"].files ELSE disk["dest"].files>>
<1> USE FolderType DEF IInv
<1> DEFINE Stutters == /\ Temp'.there = Temp.there
                       /\ Temp.there => Temp'.files = Temp.files
                       /\ ~Temp.there => Dest'.files = Dest.files
<1>1. ASSUME NEW x \in Items, Edit(x) PROVE Stutters
  BY <1>1 DEF Edit, Temp, Dest
<1>2. ASSUME NEW x \in Items, SaveItem(x) PROVE Stutters \/ Home!Save(x)
  <2>1. CASE at[x] = "temp"
    <3>1. Temp.there /\ Temp' = Put(Temp, {x})
      BY <1>2, <2>1 DEF SaveItem, Temp, Dirs
    <3> QED BY <3>1, HomeSaves
  <2>2. CASE at[x] = "dest"
    <3>1. Temp' = Temp /\ Dest' = Put(Dest, {x})
      BY <1>2, <2>2 DEF SaveItem, Temp, Dest, Dirs
    <3> QED BY <3>1, HomeSaves
  <2> QED BY <1>2, <2>1, <2>2 DEF SaveItem, TypeOK
<1>3. ASSUME (\E p \in Parts : EditMetadata(p)) \/ SaveMetadata PROVE Stutters
  BY <1>3 DEF EditMetadata, SaveMetadata, Temp, Dest
<1>4. ASSUME Promote PROVE Stutters
  BY <1>4 DEF Promote, PathOK, Idle, Temp
<1>5. CASE Flush
  <2>1. ASSUME NEW x \in todo, disk' = [disk EXCEPT !["temp"] = Put(@, {x})]
        PROVE  Home!Save(x) /\ x \in Items
    <3>1. Temp.there /\ Temp' = Put(Temp, {x}) /\ x \in Items
      BY <1>5, <2>1 DEF Flush, PathOK, Before, Temp, TypeOK, Dirs
    <3> QED BY <3>1, HomeSaves
  <2>2. CASE UNCHANGED disk
    BY <2>2 DEF Temp, Dest
  <2> QED BY <1>5, <2>1, <2>2, HomeStutters DEF Flush, MustFlush, Home!Next
<1>6. ASSUME Check \/ Copy PROVE Stutters
  BY <1>6 DEF Check, Copy, PathOK, Before, Temp, TypeOK, Dirs
<1>7. ASSUME Relocate("relocate", "setPath") \/ Relocate("bindings", "marker")
                 \/ SetPath PROVE Stutters
  BY <1>7 DEF Relocate, SetPath, Temp, Dest
<1>8. ASSUME Store PROVE Stutters
  <2>1. Temp.there
    BY <1>8 DEF Store, PathOK, After
  <2>2. CASE pc \in {"store", "manifest"}
    BY <1>8, <2>1, <2>2 DEF Store, Temp, TypeOK, Dirs
  <2>3. CASE pc = "stored"
    BY <1>8, <2>1, <2>3, StoredEffect
  <2> QED BY <1>8, <2>2, <2>3 DEF Store
<1>9. ASSUME WriteMarker \/ RemovePromoted PROVE Stutters
  BY <1>9 DEF WriteMarker, RemovePromoted, Temp, Dest, Dirs, Folder
<1>10. CASE Rename
  <2>1. Temp.there /\ ~Temp'.there /\ Dest' = Dest
    BY <1>10 DEF Rename, PathOK, After, Absent, Temp, Dest, Dirs
  <2>2. \A x \in Items : Temp.files[x] # NoFile => Dest.files[x] = Temp.files[x]
    BY <1>10 DEF Rename, CopiedOK, Entries, After, Temp
  <2> QED BY <2>1, <2>2 DEF Home!Next, Home!Move, Temp, Dest
<1>11. ASSUME Fail PROVE Stutters
  <2>1. ASSUME NEW u, pc \in {"flush", "check", "copy", "relocate"}, GiveUp(u) PROVE Stutters
    BY <2>1 DEF GiveUp, PathOK, Before, Temp
  <2>2. ASSUME NEW u, NEW temp \in {Temp, [Temp EXCEPT !.marker = FALSE]}, UndoIn(temp, u),
               pc \in After
        PROVE  Stutters
    BY <2>2 DEF UndoIn, PathOK, Temp, Dirs, Folder
  <2>3. PICK u \in Undoings :
          \/ pc \in {"flush", "check", "copy", "relocate"} /\ GiveUp(u)
          \/ pc \in {"store", "manifest", "stored", "bindings", "marker"} /\ UndoIn(Temp, u)
          \/ pc = "rename" /\ UndoIn([Temp EXCEPT !.marker = FALSE], u)
    BY <1>11 DEF Fail, Undo, Temp
  <2> HIDE DEF Stutters
  <2> QED BY <2>1, <2>2, <2>3 DEF After
<1>12. ASSUME Restart PROVE Stutters
  BY <1>12 DEF Restart, Swept, Temp, Dest, Dirs
<1>13. ASSUME UNCHANGED vars PROVE Stutters
  BY <1>13 DEF vars, Temp, Dest
<1>14. ASSUME Stutters PROVE [Home!Next]_<<IF disk["temp"].there THEN "temp" ELSE "dest",
                    IF disk["temp"].there THEN disk["temp"].files ELSE disk["dest"].files>>
  BY <1>14, HomeStutters
<1> HIDE DEF Stutters
<1>15. \A x \in Items : Home!Save(x) => Home!Next
  BY DEF Home!Next
<1> QED BY <1>1, <1>2, <1>3, <1>4, <1>5, <1>6, <1>7, <1>8, <1>9, <1>10, <1>11, <1>12, <1>13, <1>14,
           <1>15 DEF Next

\* Promotion implements one atomic move: whatever fails and whenever the program dies, what a
\* restart finds is what was saved last.
THEOREM HomeAlwaysKept == Spec => HomeIsKept
<1>1. Init => Home!Init
  <2>1. ASSUME Init PROVE Home!Init
    <3>1. IInv /\ Temp.there
      BY <2>1, InitInv DEF Init, IInv, PathOK
    <3> QED BY <3>1, FolderType DEF Home!Init, IInv, TempOK, Folder, Temp
  <2> QED BY <2>1
<1> QED BY <1>1, HomeStep, Invariance, PTL DEF Spec, HomeIsKept, Home!Spec

=============================================================================
