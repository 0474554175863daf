------------------------------ MODULE UndoStack ------------------------------
(***************************************************************************)
(* A provider's data, its undo stack, and who edits through them: the hex  *)
(* editor, its popups and the patches view on the main thread, and a task  *)
(* that imports a patch.  An edit is a series of calls of the provider and *)
(* of the stack; a call is one step (the event mutex, the stack's mutex),  *)
(* between the calls of one thread the other may make its own.  Saving is  *)
(* two steps: the data are written without a mutex, and what was unsaved   *)
(* is forgotten afterwards.                                                *)
(*                                                                         *)
(* Addresses are offsets; the base address is 0.  The provider holds its   *)
(* data in memory and is written to its file by save() only.               *)
(***************************************************************************)
EXTENDS Naturals, Sequences, SequencesExt

CONSTANTS
    Bytes,      \* values of a byte
    Original,   \* the data of the provider when it is opened
    Texts,      \* what is typed, pasted or imported
    MaxSize,    \* bound on addresses
    MaxLength,  \* bound on the bytes filled, inserted or removed at once
    MaxEdits    \* bound on edits

ASSUME UndoAssumption ==
    /\ Bytes \subseteq Nat /\ 0 \in Bytes
    /\ Original \in Seq(Bytes) /\ Texts \subseteq Seq(Bytes) \ {<<>>}
    /\ {MaxSize, MaxLength, MaxEdits} \subseteq Nat

VARIABLES
    buffer,     \* the data, m_undoStack, m_redoStack and m_originalByteValues
    line,       \* what undoing and doing again leads through: a function of the buffer, kept
                \* for the properties
    main,       \* the calls the main thread still has to make
    import,     \* the calls the import task still has to make
    editing,    \* the cell that is being typed in insert mode
    saving,     \* the contents the data have had since the present save began; none between
                \* saves
    file,       \* what the last save wrote
    dirty,      \* isDataDirty()
    mark,       \* m_savedOperations
    history,    \* what happened that undo or the highlights do not cope with:
                \*   beyond   an insertion or a removal reached past the end of the data
                \*   mixed    operations were grouped whose order matters
                \*   shifted  bytes moved since the last save, what was saved was undone,
                \*            there was something to be redone when it was saved, the data
                \*            were edited while they were written, or writing them failed
    edits       \* edits begun so far

vars == <<buffer, line, main, import, editing, saving, file, dirty, mark, history, edits>>

Address == 0 .. MaxSize
NoCell == MaxSize + 1
Size == 1 .. MaxLength

Operation ==
    [kind : {"write"}, at : Nat, old : Seq(Bytes), new : Seq(Bytes)]
        \union [kind : {"insert"}, at : Nat, size : Nat]
        \union [kind : {"remove"}, at : Nat, size : Nat, old : Seq(Bytes)]
\* An operation on the stack is the series of its parts: one, unless it is a group (of
\* none, if there was nothing to group).  A group of groups does what the series of all
\* parts does.
IsOperation(op) ==
    /\ op \in Operation
    /\ op.kind = "write" => Len(op.old) = Len(op.new)
    /\ op.kind = "remove" => Len(op.old) = op.size

TypeOK ==
    /\ buffer.data \in Seq(Bytes)
    /\ \A entry \in ToSet(buffer.applied) \union ToSet(buffer.undone) :
          \A i \in DOMAIN entry : IsOperation(entry[i])
    /\ \A a \in DOMAIN buffer.first : a \in Nat /\ buffer.first[a] \in Bytes
    /\ editing \in Address \union {NoCell}
    /\ saving \subseteq Seq(Bytes)
    /\ file \in Seq(Bytes)
    /\ dirty \in BOOLEAN
    /\ mark \in Nat
    /\ history \in [beyond : BOOLEAN, mixed : BOOLEAN, shifted : BOOLEAN]
    /\ edits \in 0 .. MaxEdits

-----------------------------------------------------------------------------
(* The data                                                                *)

Zeros(n) == [i \in 1 .. n |-> 0]
From(d, a) == SubSeq(d, a + 1, Len(d))
Upto(d, a) == SubSeq(d, 1, IF a < Len(d) THEN a ELSE Len(d))

\* Mutant: a read past the end returns what is there.
MutReadRaw(d, a, n, was) == From(Upto(d, a + n), a)
\* A read past the end leaves the caller's bytes as they were.
ReadRaw(d, a, n, was) == IF a + n > Len(d) THEN was ELSE From(Upto(d, a + n), a)
WriteRaw(d, a, b) ==
    IF a + Len(b) > Len(d) THEN d
    ELSE [i \in DOMAIN d |-> IF i \in a + 1 .. a + Len(b) THEN b[i - a] ELSE d[i]]
\* The data grows at its end even when the address lies behind it.
InsertRaw(d, a, n) == Upto(d, a) \o Zeros(n) \o From(d, a)
RemoveRaw(d, a, n) == Upto(d, a) \o From(d, a + n)

-----------------------------------------------------------------------------
(* Operations and groups                                                   *)

UndoOperation(d, op) ==
    CASE op.kind = "write"  -> WriteRaw(d, op.at, op.old)
      [] op.kind = "insert" -> RemoveRaw(d, op.at, op.size)
      [] op.kind = "remove" -> WriteRaw(InsertRaw(d, op.at, op.size), op.at, op.old)
RedoOperation(d, op) ==
    CASE op.kind = "write"  -> WriteRaw(d, op.at, op.new)
      [] op.kind = "insert" -> InsertRaw(d, op.at, op.size)
      [] op.kind = "remove" -> RemoveRaw(d, op.at, op.size)
\* A removal keeps what it removes this time.
Kept(d, op) ==
    IF op.kind = "remove" THEN [op EXCEPT !.old = ReadRaw(d, op.at, op.size, @)] ELSE op

\* Both go through the parts from the first to the last.
UndoEntry(d, entry) ==
    LET data[i \in 0 .. Len(entry)] == IF i = 0 THEN d ELSE UndoOperation(data[i - 1], entry[i])
    IN  data[Len(entry)]
RedoEntry(d, entry) ==
    LET data[i \in 0 .. Len(entry)] == IF i = 0 THEN d ELSE RedoOperation(data[i - 1], entry[i])
    IN  [data |-> data[Len(entry)], entry |-> [i \in DOMAIN entry |-> Kept(data[i - 1], entry[i])]]

-----------------------------------------------------------------------------
(* The stack                                                               *)

\* Mutant: what has been undone can be done again after an edit.
MutForgotten(b) == b
Forgotten(b) == [b EXCEPT !.undone = <<>>]
Added(b, entry) ==
    LET done == RedoEntry(b.data, entry)
    IN  [Forgotten(b) EXCEPT !.data = done.data, !.applied = Append(@, done.entry)]
Undone(b) ==
    IF b.applied = <<>> THEN b
    ELSE [b EXCEPT !.data = UndoEntry(@, Last(b.applied)), !.applied = Front(@),
                   !.undone = Append(@, Last(b.applied))]
Redone(b) ==
    IF b.undone = <<>> THEN b
    ELSE LET done == RedoEntry(b.data, Last(b.undone))
         IN  [b EXCEPT !.data = done.data, !.applied = Append(@, done.entry), !.undone = Front(@)]

\* groupOperations: the last operations, as many as there are, become one.
Rest(b, count) == SubSeq(b.applied, 1, IF count < Len(b.applied) THEN Len(b.applied) - count ELSE 0)
Taken(b, count) == FlattenSeq(SubSeq(b.applied, Len(Rest(b, count)) + 1, Len(b.applied)))
Grouped(b, count) ==
    IF count =< 1 THEN b
    ELSE Added([b EXCEPT !.data = UndoEntry(@, Taken(b, count)), !.applied = Rest(b, count)],
               Taken(b, count))
OrderMatters(b, count) ==
    /\ count > 1
    /\ UndoEntry(b.data, Taken(b, count)) # UndoEntry(b.data, Reverse(Taken(b, count)))

-----------------------------------------------------------------------------
(* What the patches view makes of the provider's events                    *)

\* Mutant: the value before the last edit is remembered.
MutFirstValues(first, a, old, new) ==
    LET changed == {a + i - 1 : i \in {j \in DOMAIN new : old[j] # new[j]}}
    IN  [x \in DOMAIN first \union changed |-> IF x \in changed THEN old[x - a + 1] ELSE first[x]]
FirstValues(first, a, old, new) ==
    LET changed == {a + i - 1 : i \in {j \in DOMAIN new : old[j] # new[j]}}
    IN  [x \in DOMAIN first \union changed |-> IF x \in DOMAIN first THEN first[x] ELSE old[x - a + 1]]

\* EventProviderDataModified, Inserted and Removed
Modified(b, a, new) ==
    LET old == ReadRaw(b.data, a, Len(new), Zeros(Len(new)))
    IN  IF old = new THEN b
        ELSE Added([b EXCEPT !.first = FirstValues(@, a, old, new)],
                   <<[kind |-> "write", at |-> a, old |-> old, new |-> new]>>)
Inserted(b, a, n) == Added(b, <<[kind |-> "insert", at |-> a, size |-> n]>>)
Removed(b, a, n) == Added(b, <<[kind |-> "remove", at |-> a, size |-> n, old |-> Zeros(n)]>>)

\* The contents that undoing, and that doing again, leads through
Before(b) ==
    LET n == Len(b.applied)
        back[i \in 0 .. n] ==
            IF i = 0 THEN b.data ELSE UndoEntry(back[i - 1], b.applied[n - i + 1])
    IN  [i \in 1 .. n |-> back[n - i + 1]]
Ahead(b) ==
    LET n == Len(b.undone)
        on[i \in 0 .. n] ==
            IF i = 0 THEN b.data ELSE RedoEntry(on[i - 1], b.undone[n - i + 1]).data
    IN  [i \in 1 .. n |-> on[i]]
Line(b) == [past |-> Before(b), future |-> Ahead(b)]

-----------------------------------------------------------------------------
(* Calls                                                                   *)

WriteCall(a, b) == [do |-> "write", at |-> a, bytes |-> b]
InsertCall(a, n) == [do |-> "insert", at |-> a, size |-> n]
RemoveCall(a, n) == [do |-> "remove", at |-> a, size |-> n]
GroupCall(n) == [do |-> "group", count |-> n]
UndoCall == [do |-> "undo"]
RedoCall == [do |-> "redo"]

After(b, call) ==
    CASE call.do = "write"  -> Modified(b, call.at, call.bytes)
      [] call.do = "insert" -> Inserted(b, call.at, call.size)
      [] call.do = "remove" -> Removed(b, call.at, call.size)
      [] call.do = "group"  -> Grouped(b, call.count)
      [] call.do = "undo"   -> Undone(b)
      [] call.do = "redo"   -> Redone(b)

Moves(entry) == \E i \in DOMAIN entry : entry[i].kind # "write"
Shifts(b, call) ==
    CASE call.do \in {"insert", "remove"} -> TRUE
      [] call.do = "undo" -> b.applied # <<>> /\ (Len(b.applied) =< mark \/ Moves(Last(b.applied)))
      [] call.do = "redo" -> b.undone # <<>> /\ Moves(Last(b.undone))
      [] OTHER -> FALSE
IsBeyond(b, call) ==
    \/ call.do = "insert" /\ call.at > Len(b.data)
    \/ call.do = "remove" /\ call.at + call.size > Len(b.data)

Make(call) ==
    /\ buffer' = After(buffer, call)
    /\ line' = Line(buffer')
    /\ dirty' = (dirty \/ call.do \in {"write", "insert", "remove"})
    /\ history' = [beyond  |-> history.beyond \/ IsBeyond(buffer, call),
                   mixed   |-> history.mixed \/ (call.do = "group" /\ OrderMatters(buffer, call.count)),
                   shifted |-> history.shifted \/ Shifts(buffer, call)]
MainCalls ==
    /\ main # <<>> /\ Make(Head(main)) /\ main' = Tail(main)
    /\ UNCHANGED <<import, editing, saving, file, mark, edits>>
\* What a save that runs may find
Seen == IF saving = {} THEN {} ELSE saving \union {buffer'.data}
ImportCalls ==
    /\ import # <<>> /\ Make(Head(import)) /\ import' = Tail(import)
    /\ saving' = Seen
    /\ UNCHANGED <<main, editing, file, mark, edits>>

-----------------------------------------------------------------------------
(* What the user does                                                      *)

Begin(calls) ==
    /\ main = <<>> /\ saving = {} /\ edits < MaxEdits
    /\ main' = calls /\ edits' = edits + 1
    /\ UNCHANGED <<buffer, line, import, saving, file, dirty, mark, history>>
Simple(calls) == editing = NoCell /\ Begin(calls) /\ UNCHANGED editing

\* A call for each byte that differs, in the order of addresses
ByteCalls(a, b, old) ==
    LET calls == [i \in DOMAIN b |-> IF b[i] # old[i] THEN <<WriteCall(a + i - 1, <<b[i]>>)>> ELSE <<>>]
    IN  FlattenSeq(calls)
Live(a, n) == ReadRaw(buffer.data, a, n, Zeros(n))

\* A cell of one or more bytes is typed over.
TypeOver(a, b) ==
    /\ a + Len(b) =< Len(buffer.data)
    /\ LET writes == ByteCalls(a, b, Live(a, Len(b)))
       IN  Simple(Append(writes, GroupCall(Len(writes))))

\* Insert mode opens a cell, and the next one when it has been typed; grouped unless the
\* text box itself reported its end.
EnterInsertMode(a) ==
    /\ editing = NoCell /\ a =< Len(buffer.data)
    /\ Begin(<<InsertCall(a, 1)>>)
    /\ editing' = a
TypeCell(v, ended) ==
    /\ editing # NoCell /\ editing < MaxSize
    /\ Begin(ByteCalls(editing, <<v>>, Live(editing, 1)) \o <<InsertCall(editing + 1, 1)>>
                \o IF ended THEN <<>> ELSE <<GroupCall(2)>>)
    /\ editing' = editing + 1
\* Escape or another selection takes the open cell back; a click elsewhere leaves it.
LeaveInsertMode(v) ==
    /\ editing # NoCell
    /\ \/ Begin(Append(ByteCalls(editing, <<v>>, Live(editing, 1)), UndoCall))
       \/ main = <<>> /\ UNCHANGED <<buffer, line, main, import, saving, file, dirty, mark, history, edits>>
    /\ editing' = NoCell

\* One write for each batch, here of one byte
Fill(a, n, v) ==
    Simple(Append([i \in 1 .. n |-> WriteCall(a + i - 1, <<v>>)], GroupCall(n)))
InsertBytes(a, n) == Simple(<<InsertCall(a, n)>>)
RemoveBytes(a, n) == Simple(<<RemoveCall(a, n)>>)
ResizeCalls(n) ==
    LET size == Len(buffer.data)
    IN  IF n > size THEN <<InsertCall(size, n - size)>>
        ELSE IF n < size THEN <<RemoveCall(n, size - n)>> ELSE <<>>
Resize(n) == Simple(ResizeCalls(n))
Paste(a, b) ==
    Simple(Append(IF a + Len(b) >= Len(buffer.data) THEN ResizeCalls(a + Len(b)) ELSE <<>>,
                  WriteCall(a, b)))
Undo == buffer.applied # <<>> /\ Simple(<<UndoCall>>)
Redo == buffer.undone # <<>> /\ Simple(<<RedoCall>>)

\* The task writes byte after byte, and then groups as many operations.
ImportPatch(a, b) ==
    /\ import = <<>> /\ edits < MaxEdits
    /\ import' = Append([i \in DOMAIN b |-> WriteCall(a + i - 1, <<b[i]>>)], GroupCall(Len(b)))
    /\ edits' = edits + 1
    /\ UNCHANGED <<buffer, line, main, editing, saving, file, dirty, mark, history>>

\* The main thread writes the data; an import task may edit them meanwhile.
SaveBegins ==
    /\ main = <<>> /\ saving = {} /\ editing = NoCell /\ dirty
    /\ saving' = {buffer.data}
    /\ UNCHANGED <<buffer, line, main, import, editing, file, dirty, mark, history, edits>>
\* A byte of the file is one that the data had there.
Written == {f \in [DOMAIN buffer.data -> Bytes] :
              \A i \in DOMAIN f : \E d \in saving : i \in DOMAIN d /\ f[i] = d[i]}
\* What the import edited is forgotten with the rest; a write of its that has yet to mark the
\* provider marks it again.
SaveEnds ==
    /\ saving # {} /\ saving' = {}
    /\ file' \in Written
    /\ dirty' \in {FALSE, import # <<>>}
    /\ mark' = Len(buffer.applied)
    /\ buffer' = [buffer EXCEPT !.first = <<>>]
    /\ history' = [history EXCEPT !.shifted = buffer.undone # <<>> \/ file' # buffer.data]
    /\ UNCHANGED <<line, main, import, editing, edits>>
\* A save that fails changes nothing but the file, if anything.
SaveFails ==
    /\ saving # {} /\ saving' = {}
    /\ \E d \in saving : \E n \in 0 .. Len(d) :
          file' \in {file, d, Upto(d, n) \o From(file, n)}
    /\ history' = [history EXCEPT !.shifted = @ \/ file' # file]
    /\ UNCHANGED <<buffer, line, main, import, editing, dirty, mark, edits>>

-----------------------------------------------------------------------------
Init ==
    /\ buffer = [data |-> Original, applied |-> <<>>, undone |-> <<>>, first |-> <<>>]
    /\ line = Line(buffer)
    /\ main = <<>> /\ import = <<>> /\ editing = NoCell /\ saving = {}
    /\ file = Original /\ dirty = FALSE /\ mark = 0
    /\ history = [beyond |-> FALSE, mixed |-> FALSE, shifted |-> FALSE]
    /\ edits = 0

UserStep ==
    \/ \E a \in Address :
          \/ \E b \in Texts : TypeOver(a, b) \/ Paste(a, b) \/ ImportPatch(a, b)
          \/ \E n \in Size : InsertBytes(a, n) \/ RemoveBytes(a, n) \/ \E v \in Bytes : Fill(a, n, v)
          \/ EnterInsertMode(a) \/ Resize(a)
    \/ \E v \in Bytes :
          LeaveInsertMode(v) \/ \E ended \in BOOLEAN : TypeCell(v, ended)
    \/ Undo \/ Redo \/ SaveBegins \/ SaveEnds \/ SaveFails

Next == UserStep \/ MainCalls \/ ImportCalls
Spec == Init /\ [][Next]_vars

-----------------------------------------------------------------------------
(* Properties                                                              *)

History == INSTANCE EditHistory WITH
    Contents <- Seq(Bytes),
    past <- line.past, present <- buffer.data, future <- line.future

\* Undo and redo lead through exactly the contents there have been, whoever edits in
\* between, as long as no group has mixed operations whose order matters and no edit has
\* reached past the end of the data.
HistoryKept ==
    /\ History!Init
    /\ [][history'.mixed \/ history'.beyond \/ History!Next]_<<line, buffer.data>>

\* The patches view highlights the bytes that differ from the saved ones, also after
\* edits that restore a byte, and after undo and redo.
Highlighted(a) == a \in DOMAIN buffer.first /\ buffer.first[a] # buffer.data[a + 1]
HighlightsAreChanges ==
    ~(history.shifted \/ history.mixed \/ history.beyond) =>
        \A i \in DOMAIN buffer.data : Highlighted(i - 1) <=> buffer.data[i] # file[i]

\* The providers "that have unsaved changes" are those that are marked dirty (events.cpp):
\* the others are closed without asking, and cannot be saved.
UnsavedIsDirty == main = <<>> /\ saving = {} /\ buffer.data # file => dirty
=============================================================================
