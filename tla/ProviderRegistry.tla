-------------------------- MODULE ProviderRegistry --------------------------
(***************************************************************************)
(* ImHexApi::Provider: the list of open providers, the current one, and    *)
(* the way a provider takes from the list to its destruction.              *)
(*                                                                         *)
(* Each function runs to its end on the main thread (s_providerMutex), so  *)
(* it is one step; the answer of the popup is a loop of such calls.  Each  *)
(* looks several times whether a foreground task runs, and a worker may    *)
(* start one in between.  What the TaskManager does with the calls of this *)
(* component is reduced to: foreground tasks come and go, providers are    *)
(* opened by background tasks, the callbacks of runWhenTasksFinished run   *)
(* in a frame without tasks, and the tasks they create end.                *)
(***************************************************************************)
EXTENDS Integers, Sequences, FiniteSets, SequencesExt

CONSTANTS
    Providers,  \* the addresses of providers: one may be used again when free
    NoProvider, \* the null pointer
    MaxAdded,   \* bound: providers added
    MaxTasks    \* bound: foreground tasks started

ASSUME RegistryAssumption ==
    /\ NoProvider \notin Providers
    /\ IsFiniteSet(Providers)
    /\ MaxAdded \in Nat /\ MaxTasks \in Nat

VARIABLES
    registry,   \* s_providers, s_currentProvider, impl::s_closingProviders,
                \* s_providersToRemove, and the provider that the last
                \* EventProviderChanged gave as the current one
    leaving,    \* what the loop over getClosingProviders() has yet to remove
    asking,     \* the provider that the popup about unsaved changes is about
    opening,    \* the providers whose opening tasks run; they need not be in the list
    failed,     \* those whose opening failed: a deferred remove() is to come
    callbacks,  \* registered by remove() with runWhenTasksFinished
    closers,    \* the providers of the "Closing Provider" tasks
    ignored,    \* history: providers for which the answer of the popup had no effect
    strays,     \* history: pointers that remove() left in s_closingProviders since the
                \* provider was not in the list
    overtaken,  \* history: the last selection was refused as a task had started meanwhile
    busy,       \* there is a foreground task: getRunningTaskCount() > 0
    added,      \* history: providers added so far
    started     \* history: foreground tasks started so far

vars == <<registry, leaving, asking, opening, failed, callbacks, closers, ignored, strays, overtaken,
          busy, added, started>>

Registry == [providers : Seq(Providers),
             current : -1 .. Cardinality(Providers) - 1,
             closing : SUBSET Providers,
             toRemove : SUBSET Providers,
             announced : Providers \union {NoProvider}]

TypeOK ==
    /\ registry \in Registry
    /\ leaving \in SUBSET Providers
    /\ asking \in Providers \union {NoProvider}
    /\ opening \in SUBSET Providers /\ failed \in SUBSET Providers
    /\ callbacks \in Seq(Providers)
    /\ closers \in SUBSET Providers
    /\ ignored \in SUBSET Providers /\ strays \in SUBSET Providers
    /\ overtaken \in BOOLEAN
    /\ busy \in BOOLEAN
    /\ added \in 0 .. MaxAdded
    /\ started \in 0 .. MaxTasks

Open(r) == ToSet(r.providers)
IsValid(r) == r.current \in 0 .. Len(r.providers) - 1
\* get(); positions are counted from 0, as in the code.
Current(r) == IF IsValid(r) THEN r.providers[r.current + 1] ELSE NoProvider

\* The main thread is not in that loop.
OnMain == leaving = {} /\ UNCHANGED leaving

-----------------------------------------------------------------------------
(* Selecting                                                               *)

\* Mutant: the position one past the end is accepted.
MutInRange(r, i) == i =< Len(r.providers)
InRange(r, i) == i < Len(r.providers)

\* EventProviderChanged::post(_, p)
Announce(r, p) == [r EXCEPT !.announced = p]

\* setCurrentProvider(i64), which does nothing if a foreground task runs
Selected(r, i, granted) ==
    IF granted /\ InRange(r, i) /\ r.current # i
    THEN LET moved == [r EXCEPT !.current = i] IN Announce(moved, Current(moved))
    ELSE r

\* Whether a worker starts a foreground task while the main thread is in add() or remove()
Undisturbed(granted) ==
    IF granted THEN UNCHANGED <<busy, started>>
    ELSE started < MaxTasks /\ busy' = TRUE /\ started' = started + 1

\* A caller that holds a provider which is not in the list any more asks for the
\* position one past the end.
SetCurrentProvider(i) ==
    /\ OnMain /\ ~busy
    /\ registry' = Selected(registry, i, TRUE)
    /\ overtaken' = (overtaken /\ ~InRange(registry, i))
    /\ UNCHANGED <<asking, opening, failed, callbacks, closers, ignored, strays, busy, added, started>>

\* createProvider() and openProvider(): while a foreground task runs, add() does not list
\* the provider, but it is opened all the same.
Added(p, select, granted) ==
    LET longer == [registry EXCEPT !.providers = Append(@, p)]
        last == Len(longer.providers) - 1
    IN  IF select \/ last = 0 THEN Selected(longer, last, granted) ELSE longer
List(p, select) ==
    IF busy THEN UNCHANGED <<registry, overtaken, busy, started>>
    ELSE \E granted \in BOOLEAN :
            /\ registry' = Added(p, select, granted)
            /\ overtaken' = IF select \/ registry.providers = <<>>
                            THEN registry' # Added(p, select, TRUE) ELSE overtaken
            /\ Undisturbed(granted)
Add(p, select) ==
    /\ OnMain /\ added < MaxAdded
    /\ p \notin Open(registry) \union registry.toRemove \union opening \union failed
    /\ List(p, select)
    /\ opening' = opening \union {p}
    /\ added' = added + 1
    /\ UNCHANGED <<asking, failed, callbacks, closers, ignored, strays>>

-----------------------------------------------------------------------------
(* Removing                                                                *)

\* What remove() selects before it erases the provider at position i.
Deselected(r, i, granted) ==
    IF i = 0
    THEN LET first == Selected(r, 0, granted)
         IN IF Len(r.providers) > 1 THEN Announce(first, r.providers[2]) ELSE first
    ELSE IF i = r.current THEN Selected(r, r.current - 1, granted)
    ELSE IF ~IsValid(r) THEN Selected(r, 0, granted)
    ELSE Selected(r, IF r.current # 0 THEN r.current - 1 ELSE 0, granted)

\* Mutant: the provider stays among those that are being closed.
MutNotClosing(r, p) == r
NotClosing(r, p) == [r EXCEPT !.closing = @ \ {p}]

Erased(r, i) ==
    LET p == r.providers[i + 1]
        moved == [r EXCEPT !.providers = RemoveAt(@, i + 1), !.toRemove = @ \union {p}]
    IN NotClosing(moved, p)

\* The rest of remove(), which selects the last provider if the current one is beyond it
\* and announces that none is left.  Up to two selections, granted many of which come
\* before a foreground task starts.
Removed(r, p, granted) ==
    LET i == (CHOOSE n \in DOMAIN r.providers : r.providers[n] = p) - 1
        erased == Erased(Deselected(r, i, granted >= 1), i)
        left == Len(erased.providers)
    IN IF left = 0 THEN Announce(erased, NoProvider)
       ELSE IF erased.current >= left THEN Selected(erased, left - 1, granted >= 2)
       ELSE erased

\* A provider that is not in the list stays among those being closed.
RemoveFrom(r, p) ==
    IF p \in Open(r)
    THEN /\ \E granted \in 0 .. 2 :
               /\ registry' = Removed(r, p, granted)
               /\ overtaken' = (registry' # Removed(r, p, 2))
               /\ Undisturbed(granted = 2)
         /\ callbacks' = Append(callbacks, p)
         /\ ignored' = ignored \ {p} /\ strays' = strays \ {p}
    ELSE /\ registry' = r
         /\ strays' = strays \union (r.closing \intersect {p})
         /\ UNCHANGED <<overtaken, callbacks, ignored, busy, started>>

\* remove(p, true)
ForceRemove(p) ==
    /\ OnMain /\ ~busy /\ p \in Open(registry)
    /\ RemoveFrom(registry, p)
    /\ UNCHANGED <<asking, opening, failed, closers, added>>

Closing(p) == [registry EXCEPT !.closing = @ \union {p}]

\* remove(p, false): the handlers of EventProviderClosing let it pass ...
Close(p) ==
    /\ OnMain /\ ~busy /\ asking = NoProvider /\ p \in Open(registry)
    /\ RemoveFrom(Closing(p), p)
    /\ UNCHANGED <<asking, opening, failed, closers, added>>

\* ... or veto it and ask the user what to do with unsaved changes.
AskToClose(p) ==
    /\ OnMain /\ ~busy /\ asking = NoProvider /\ p \in Open(registry)
    /\ registry' = Closing(p)
    /\ asking' = p
    /\ UNCHANGED <<opening, failed, callbacks, closers, ignored, strays, overtaken, busy, added, started>>

\* The deferred remove(p, false) of a provider that could not be opened: it has no unsaved
\* changes, but add() may not have listed it, or the user may have closed it.
RemoveFailed(p) ==
    /\ OnMain /\ p \in failed
    /\ failed' = failed \ {p}
    /\ IF busy THEN UNCHANGED <<registry, callbacks, ignored, strays, overtaken, busy, started>>
       ELSE RemoveFrom(Closing(p), p)
    /\ UNCHANGED <<asking, opening, closers, added>>

\* "Save" and "Discard" remove all providers that are being closed ...
AnswerRemove ==
    /\ leaving = {} /\ asking # NoProvider
    /\ asking' = NoProvider
    /\ leaving' = registry.closing
    /\ ignored' = {}
    /\ UNCHANGED <<registry, opening, failed, callbacks, closers, strays, overtaken, busy, added, started>>

\* ... in the order of their addresses; remove(p, true) returns at once while a
\* foreground task runs.
RemoveNext ==
    /\ \E p \in leaving :
          /\ leaving' = leaving \ {p}
          /\ IF busy
             THEN /\ ignored' = ignored \union {p}
                  /\ UNCHANGED <<registry, callbacks, strays, overtaken, busy, started>>
             ELSE RemoveFrom(registry, p)
    /\ UNCHANGED <<asking, opening, failed, closers, added>>

\* Mutant: what was to be closed is not forgotten.
MutCancelled(r) == r
Cancelled(r) == [r EXCEPT !.closing = {}]

\* "Cancel", and "Save" when saving the project failed
AnswerCancel ==
    /\ OnMain /\ asking # NoProvider
    /\ asking' = NoProvider
    /\ registry' = Cancelled(registry) /\ ignored' = {} /\ strays' = {}
    /\ UNCHANGED <<opening, failed, callbacks, closers, overtaken, busy, added, started>>

-----------------------------------------------------------------------------
(* Tasks                                                                   *)

\* Any thread starts tasks.
StartTask ==
    /\ ~busy /\ started < MaxTasks
    /\ busy' = TRUE /\ started' = started + 1
    /\ UNCHANGED <<registry, leaving, asking, opening, failed, callbacks, closers, ignored, strays,
                   overtaken, added>>

\* A task that ended counts until a frame ends.
EndTask ==
    /\ OnMain /\ busy
    /\ busy' = FALSE
    /\ UNCHANGED <<registry, asking, opening, failed, callbacks, closers, ignored, strays, overtaken,
                   added, started>>

\* The task that opens a provider, in the background, ends.
OpeningEnds(p) ==
    /\ p \in opening
    /\ opening' = opening \ {p}
    /\ failed' \in {failed, failed \union {p}}
    /\ UNCHANGED <<registry, leaving, asking, callbacks, closers, ignored, strays, overtaken, busy,
                   added, started>>

\* Mutant: the callbacks are called again in a later frame.
MutCalled == UNCHANGED callbacks
Called == callbacks' = <<>>

\* collectGarbage finds no task: each callback posts EventProviderDeleted and
\* creates the task that closes its provider.
FrameEnd ==
    /\ OnMain /\ ~busy /\ opening = {} /\ closers = {} /\ callbacks # <<>>
    /\ closers' = ToSet(callbacks)
    /\ Called
    /\ UNCHANGED <<registry, asking, opening, failed, ignored, strays, overtaken, busy, added, started>>

\* Mutant: the task does not drop the provider.
MutDropped(p) == UNCHANGED registry
Dropped(p) == registry' = [registry EXCEPT !.toRemove = @ \ {p}]

CloseProvider(p) ==
    /\ p \in closers
    /\ closers' = closers \ {p}
    /\ Dropped(p)
    /\ UNCHANGED <<leaving, asking, opening, failed, callbacks, ignored, strays, overtaken, busy,
                   added, started>>

-----------------------------------------------------------------------------
Init ==
    /\ registry = [providers |-> <<>>, current |-> -1, closing |-> {},
                   toRemove |-> {}, announced |-> NoProvider]
    /\ leaving = {} /\ asking = NoProvider /\ opening = {} /\ failed = {}
    /\ callbacks = <<>> /\ closers = {} /\ ignored = {} /\ strays = {} /\ overtaken = FALSE
    /\ busy = FALSE /\ added = 0 /\ started = 0

UserStep ==
    \/ \E i \in 0 .. Len(registry.providers) : SetCurrentProvider(i)
    \/ \E p \in Providers :
          \/ \E select \in BOOLEAN : Add(p, select)
          \/ ForceRemove(p) \/ Close(p) \/ AskToClose(p) \/ RemoveFailed(p)
    \/ AnswerRemove \/ RemoveNext \/ AnswerCancel

TaskStep == StartTask \/ EndTask \/ FrameEnd \/ \E p \in Providers : OpeningEnds(p) \/ CloseProvider(p)

Next == UserStep \/ TaskStep

Spec == Init /\ [][Next]_vars

\* Frames end, and so do tasks and the loop of the answer.
Fairness ==
    /\ WF_vars(EndTask) /\ WF_vars(FrameEnd) /\ WF_vars(RemoveNext)
    /\ \A p \in Providers : WF_vars(OpeningEnds(p)) /\ WF_vars(CloseProvider(p))

FairSpec == Spec /\ Fairness

-----------------------------------------------------------------------------
(* Properties                                                              *)

\* While anything is open, get() returns an open provider (views dereference it after
\* isValid() of an earlier frame), unless the last selection was refused because a worker
\* had started a foreground task meanwhile; the next one that is not refused repairs it.
CurrentIsOpen == registry.providers # <<>> => IsValid(registry) \/ overtaken

\* No provider is listed twice, and only open providers are being closed, so that neither
\* the tabs nor the next answer of the user meet a provider that is gone, or another one
\* at the same address; but for pointers that remove() left when it did not find the
\* provider in the list.
PendingAreOpen ==
    /\ IsInjective(registry.providers)
    /\ registry.closing \subseteq Open(registry) \union strays

\* A removed provider is on its way to destruction exactly once: it waits for the
\* tasks to end, or for its own task to close it, and nobody has opened it again.
RemovedOnce ==
    /\ registry.toRemove = ToSet(callbacks) \union closers
    /\ ToSet(callbacks) \intersect closers = {}
    /\ IsInjective(callbacks)
    /\ registry.toRemove \intersect Open(registry) = {}

\* Removed providers are destroyed in the end, all of them, once no more foreground tasks
\* start and no more providers are opened.
RemovedIsDestroyed == registry.toRemove # {} ~> registry.toRemove = {}

\* EventProviderChanged tells its subscribers "the current provider", or that
\* there is none (events_provider.hpp).
ListenersKnowCurrent == registry.announced = Current(registry)

\* A provider is among those being closed only while the user is asked: the answer removes
\* it or calls the closing off, unless remove() ignored the answer because of a foreground
\* task (the provider then stays open without a tab), or left a pointer there.
PendingWhileAsked ==
    asking # NoProvider \/ registry.closing \subseteq leaving \union ignored \union strays
=============================================================================
