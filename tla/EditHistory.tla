----------------------------- MODULE EditHistory -----------------------------
(***************************************************************************)
(* What undo and redo promise: a line of contents with the present one in  *)
(* it.  An edit forgets what had been undone; grouping forgets contents    *)
(* between two undo steps, and changes nothing else.                       *)
(***************************************************************************)
EXTENDS Naturals, Sequences, SequencesExt

CONSTANT Contents

VARIABLES past, present, future

Init == past = <<>> /\ present \in Contents /\ future = <<>>

Edit ==
    /\ past' = Append(past, present)
    /\ present' \in Contents
    /\ future' = <<>>
Undo ==
    /\ past # <<>>
    /\ past' = Front(past)
    /\ present' = Last(past)
    /\ future' = <<present>> \o future
Redo ==
    /\ future # <<>>
    /\ past' = Append(past, present)
    /\ present' = Head(future)
    /\ future' = Tail(future)
Group ==
    /\ \E n \in 0 .. Len(past) : past' = SubSeq(past, 1, n)
    /\ future' = <<>>
    /\ UNCHANGED present

Next == Edit \/ Undo \/ Redo \/ Group
Spec == Init /\ [][Next]_<<past, present, future>>
=============================================================================
