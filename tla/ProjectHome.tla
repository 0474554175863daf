----------------------------- MODULE ProjectHome -----------------------------
(***************************************************************************)
(* What keeping the temporary project promises: the project has one home,  *)
(* where its files are found again after a crash; a file changes there     *)
(* only because it is saved, and giving the project another home is one    *)
(* step that changes no file.                                              *)
(***************************************************************************)
CONSTANTS Items, Homes, Contents, NoFile

VARIABLES home, content

Init ==
    /\ home \in Homes
    /\ content \in [Items -> Contents \union {NoFile}]

Save(x) ==
    /\ \E c \in Contents : content' = [content EXCEPT ![x] = c]
    /\ UNCHANGED home

\* A file that did not exist yet may come with the move.
Move ==
    /\ home' \in Homes \ {home}
    /\ \A x \in Items : content[x] # NoFile => content'[x] = content[x]

Next == (\E x \in Items : Save(x)) \/ Move
Spec == Init /\ [][Next]_<<home, content>>
=============================================================================
