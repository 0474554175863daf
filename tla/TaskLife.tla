------------------------------ MODULE TaskLife ------------------------------
(***************************************************************************)
(* What the TaskManager promises about tasks and about the callbacks of    *)
(* runWhenTasksFinished, whoever runs the tasks and however they are       *)
(* queued: a task is run once, from its creation to its end, unless the    *)
(* pool shuts down first, and a callback is called once, when the tasks    *)
(* it waits for have ended and their failures were seen.                   *)
(***************************************************************************)

CONSTANTS Tasks, Callbacks

VARIABLES
    waiting,     \* tasks that were created and not started yet
    running,
    ended,
    unseen,      \* tasks that failed, which the user has not seen yet
    registered,  \* callbacks that were not called yet
    waits,       \* the tasks each callback waits for
    open         \* the pool has not shut down

vars == <<waiting, running, ended, unseen, registered, waits, open>>

Alive == waiting \union running \union unseen

\* A task is new once.
New(t) == open /\ t \notin waiting \union running \union ended

Create(t) ==
    /\ New(t)
    /\ waiting' = waiting \union {t}
    /\ UNCHANGED <<running, ended, unseen, registered, waits, open>>

Start(t) ==
    /\ t \in waiting
    /\ waiting' = waiting \ {t}
    /\ running' = running \union {t}
    /\ UNCHANGED <<ended, unseen, registered, waits, open>>

Fail(t) ==
    /\ t \in running
    /\ unseen' = unseen \union {t}
    /\ UNCHANGED <<waiting, running, ended, registered, waits, open>>

End(t) ==
    /\ t \in running
    /\ running' = running \ {t}
    /\ ended' = ended \union {t}
    /\ UNCHANGED <<waiting, unseen, registered, waits, open>>

See(t) ==
    /\ t \in unseen
    /\ unseen' = unseen \ {t}
    /\ UNCHANGED <<waiting, running, ended, registered, waits, open>>

\* A callback waits for the tasks that are alive, and perhaps for ended ones.
Register(f) ==
    /\ f \notin registered
    /\ registered' = registered \union {f}
    /\ \E these \in SUBSET (Alive \union ended) :
          /\ Alive \subseteq these
          /\ waits' = [waits EXCEPT ![f] = these]
    /\ UNCHANGED <<waiting, running, ended, unseen, open>>

\* The call creates a task that bears the callback's name.
Call(f) ==
    /\ f \in registered /\ New(f)
    /\ waits[f] \subseteq ended \ unseen
    /\ registered' = registered \ {f}
    /\ waiting' = waiting \union {f}
    /\ UNCHANGED <<running, ended, unseen, waits, open>>

\* Tasks that were not started, and callbacks that were not called, are dropped.
ShutDown ==
    /\ open /\ running = {}
    /\ open' = FALSE
    /\ waiting' = {} /\ registered' = {}
    /\ UNCHANGED <<running, ended, unseen, waits>>

Init ==
    /\ waiting = {} /\ running = {} /\ ended = {} /\ unseen = {}
    /\ registered = {}
    /\ waits = [f \in Callbacks |-> {}]
    /\ open = TRUE

Next ==
    \/ \E t \in Tasks : Create(t)
    \/ \E t \in Tasks \union Callbacks : Start(t) \/ Fail(t) \/ End(t) \/ See(t)
    \/ \E f \in Callbacks : Register(f) \/ Call(f)
    \/ ShutDown

Spec == Init /\ [][Next]_vars
=============================================================================
