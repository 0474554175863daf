----------------------- MODULE ProviderRegistry_proofs -----------------------
(***************************************************************************)
(* The safety properties of ProviderRegistry, for any addresses and any    *)
(* number of providers and tasks.                                          *)
(***************************************************************************)
EXTENDS ProviderRegistry, FiniteSetTheorems, SequenceTheorems, TLAPS

(* The inductive invariant: the properties themselves, and that the loop of *)
(* the answer only removes what is still being closed.                      *)
LoopOK == leaving \subseteq registry.closing

IInv ==
    /\ TypeOK /\ CurrentIsOpen /\ PendingAreOpen /\ LoopOK /\ RemovedOnce /\ PendingWhileAsked

-----------------------------------------------------------------------------
(* Sequences without repetition                                            *)

\* A list of providers without repetition is no longer than there are addresses.
LEMMA InjectiveBound ==
    ASSUME NEW s \in Seq(Providers), IsInjective(s)
    PROVE  Len(s) =< Cardinality(Providers) /\ Cardinality(Providers) \in Nat
<1>1. s \in Injection(1..Len(s), Providers)
  BY DEF Injection, IsInjective
<1>2. IsFiniteSet(Providers)
  BY RegistryAssumption
<1>3. Cardinality(1..Len(s)) =< Cardinality(Providers)
  BY <1>1, <1>2, FS_Injection
<1>4. Cardinality(1..Len(s)) = Len(s)
  <2>1. Len(s) \in Nat /\ 1 \in Int
    OBVIOUS
  <2>2. Cardinality(1..Len(s)) = IF 1 > Len(s) THEN 0 ELSE Len(s) - 1 + 1
    BY <2>1, FS_Interval
  <2> QED BY <2>1, <2>2
<1> QED BY <1>2, <1>3, <1>4, FS_CardinalityType

\* Removing the i-th element of such a list removes one element and keeps the rest.
LEMMA RemoveAtProperties ==
    ASSUME NEW S, NEW s \in Seq(S), IsInjective(s), NEW i \in 1..Len(s)
    PROVE  /\ RemoveAt(s, i) \in Seq(S)
           /\ Len(RemoveAt(s, i)) = Len(s) - 1
           /\ IsInjective(RemoveAt(s, i))
           /\ ToSet(RemoveAt(s, i)) = ToSet(s) \ {s[i]}
<1> DEFINE t == RemoveAt(s, i)
<1>1. /\ t \in Seq(S) /\ Len(t) = Len(s) - 1
      /\ \A j \in 1..Len(t) : t[j] = IF j < i THEN s[j] ELSE s[j + 1]
  <2> DEFINE front == SubSeq(s, 1, i - 1)
             back == SubSeq(s, i + 1, Len(s))
  <2>1. /\ front \in Seq(S) /\ Len(front) = i - 1
        /\ \A j \in 1..(i - 1) : front[j] = s[j]
    BY SubSeqProperties
  <2>2. /\ back \in Seq(S) /\ Len(back) = Len(s) - i
        /\ \A j \in 1..(Len(s) - i) : back[j] = s[i + j]
    BY SubSeqProperties
  <2>3. t = front \o back
    BY DEF RemoveAt
  <2> HIDE DEF front, back, t
  <2>4. /\ t \in Seq(S) /\ Len(t) = Len(s) - 1
        /\ \A j \in 1..Len(t) : t[j] = IF j < i THEN front[j] ELSE back[j - (i - 1)]
    BY <2>1, <2>2, <2>3, ConcatProperties
  <2>5. ASSUME NEW j \in 1..Len(t) PROVE t[j] = IF j < i THEN s[j] ELSE s[j + 1]
    <3>1. CASE j < i
      BY <2>1, <2>4, <3>1
    <3>2. CASE j >= i
      <4>1. j - (i - 1) \in 1..(Len(s) - i) /\ i + (j - (i - 1)) = j + 1
        BY <2>4, <3>2
      <4>2. back[j - (i - 1)] = s[j + 1]
        BY <2>2, <4>1
      <4> QED BY <2>4, <3>2, <4>2
    <3> QED BY <2>4, <3>1, <3>2
  <2> QED BY <2>4, <2>5
<1> HIDE DEF t
<1>2. \A j, k \in 1..Len(s) : s[j] = s[k] => j = k
  BY DEF IsInjective
<1>3. IsInjective(t)
  BY <1>1, <1>2 DEF IsInjective
<1>4. \A j \in 1..Len(t) : t[j] \in ToSet(s) \ {s[i]}
  BY <1>1, <1>2 DEF ToSet
<1>5. \A j \in 1..Len(s) : j # i => s[j] \in ToSet(t)
  <2> SUFFICES ASSUME NEW j \in 1..Len(s), j # i PROVE \E k \in 1..Len(t) : t[k] = s[j]
    BY <1>1 DEF ToSet
  <2>1. CASE j < i
    BY <1>1, <2>1
  <2>2. CASE j > i
    <3>1. j - 1 \in 1..Len(t) /\ t[j - 1] = s[j]
      BY <1>1, <2>2
    <3> QED BY <3>1
  <2> QED BY <2>1, <2>2
<1>6. ToSet(t) = ToSet(s) \ {s[i]}
  <2>1. \A x \in ToSet(s) \ {s[i]} : x \in ToSet(t)
    BY <1>5 DEF ToSet
  <2>2. \A x \in ToSet(t) : x \in ToSet(s) \ {s[i]}
    BY <1>1, <1>4 DEF ToSet
  <2> QED BY <2>1, <2>2
<1> QED BY <1>1, <1>3, <1>6 DEF t

\* Appending a new element keeps a list free of repetition.
LEMMA AppendNew ==
    ASSUME NEW S, NEW s \in Seq(S), IsInjective(s), NEW p \in S, p \notin ToSet(s)
    PROVE  /\ Append(s, p) \in Seq(S) /\ IsInjective(Append(s, p))
           /\ Len(Append(s, p)) = Len(s) + 1
           /\ ToSet(Append(s, p)) = ToSet(s) \union {p}
<1> DEFINE t == Append(s, p)
<1>1. /\ t \in Seq(S) /\ Len(t) = Len(s) + 1
      /\ \A j \in 1..Len(s) : t[j] = s[j]
      /\ t[Len(s) + 1] = p
  OBVIOUS
<1> HIDE DEF t
<1>2. \A j \in 1..Len(t) : j = Len(s) + 1 \/ (j \in 1..Len(s) /\ t[j] \in ToSet(s))
  BY <1>1 DEF ToSet
<1>3. IsInjective(t)
  BY <1>1, <1>2 DEF IsInjective
<1>4. ToSet(t) \subseteq ToSet(s) \union {p}
  BY <1>1, <1>2 DEF ToSet
<1>5. p \in ToSet(t) /\ ToSet(s) \subseteq ToSet(t)
  BY <1>1 DEF ToSet
<1> QED BY <1>1, <1>3, <1>4, <1>5 DEF t

-----------------------------------------------------------------------------
(* Selecting and removing                                                  *)

N == Cardinality(Providers)
Listed(r) == r \in Registry /\ IsInjective(r.providers)

\* What the list of providers says about positions.
LEMMA ListedBounds ==
    ASSUME NEW r, Listed(r)
    PROVE  N \in Nat /\ Len(r.providers) \in 0..N /\ r.current \in -1..N - 1
<1>1. r.providers \in Seq(Providers) /\ r.current \in -1..N - 1
  BY DEF Listed, Registry, N
<1> QED BY <1>1, InjectiveBound DEF Listed, N

\* Announcing a provider changes what was announced only.
LEMMA AnnounceKeeps ==
    ASSUME NEW r \in Registry, NEW p \in Providers \union {NoProvider}
    PROVE  /\ Announce(r, p) \in Registry
           /\ Announce(r, p).providers = r.providers /\ Announce(r, p).current = r.current
           /\ Announce(r, p).closing = r.closing /\ Announce(r, p).toRemove = r.toRemove
  BY DEF Announce, Registry

\* Selecting a position moves the current one at most.
LEMMA SelectedKeeps ==
    ASSUME NEW r, Listed(r), NEW i \in Nat, NEW granted \in BOOLEAN
    PROVE  LET next == Selected(r, i, granted)
           IN  /\ next \in Registry
               /\ next.providers = r.providers
               /\ next.closing = r.closing /\ next.toRemove = r.toRemove
               /\ next.current = IF granted /\ i < Len(r.providers) THEN i ELSE r.current
<1>1. /\ r \in Registry /\ N \in Nat /\ Len(r.providers) \in 0..N
      /\ r.providers \in Seq(Providers)
  BY ListedBounds DEF Listed, Registry
<1>2. CASE granted /\ InRange(r, i) /\ r.current # i
  <2> DEFINE moved == [r EXCEPT !.current = i]
  <2>1. /\ moved \in Registry /\ moved.providers = r.providers /\ moved.current = i
        /\ moved.closing = r.closing /\ moved.toRemove = r.toRemove
    BY <1>1, <1>2 DEF Registry, InRange, N
  <2>2. Selected(r, i, granted) = Announce(moved, Current(moved))
    BY <1>2 DEF Selected
  <2> HIDE DEF moved
  <2>3. Current(moved) \in Providers \union {NoProvider}
    <3>1. IsValid(moved) => moved.current + 1 \in 1..Len(moved.providers)
      BY <2>1 DEF IsValid
    <3> QED BY <1>1, <2>1, <3>1 DEF Current
  <2> DEFINE next == Selected(r, i, granted)
  <2>4. /\ next \in Registry
        /\ next.providers = moved.providers /\ next.current = moved.current
        /\ next.closing = moved.closing /\ next.toRemove = moved.toRemove
    BY <2>1, <2>2, <2>3, AnnounceKeeps
  <2> HIDE DEF next
  <2>5. /\ next \in Registry /\ next.providers = r.providers
        /\ next.closing = r.closing /\ next.toRemove = r.toRemove
        /\ next.current = IF granted /\ i < Len(r.providers) THEN i ELSE r.current
    BY <1>2, <2>1, <2>4 DEF InRange
  <2> QED BY <2>5 DEF next
<1>3. CASE ~(granted /\ InRange(r, i) /\ r.current # i)
  BY <1>1, <1>3 DEF Selected, InRange, Registry
<1> QED BY <1>2, <1>3

\* remove() first selects an open provider, unless that is refused, and does nothing else.
LEMMA DeselectedKeeps ==
    ASSUME NEW r, Listed(r), NEW i \in 0..Len(r.providers) - 1, NEW granted \in BOOLEAN
    PROVE  LET next == Deselected(r, i, granted)
           IN  /\ next \in Registry
               /\ next.providers = r.providers
               /\ next.closing = r.closing /\ next.toRemove = r.toRemove
               /\ granted => next.current \in 0..Len(r.providers) - 1
<1>1. r \in Registry /\ Len(r.providers) \in Nat /\ r.providers \in Seq(Providers)
  BY DEF Listed, Registry
<1>2. IsValid(r) => r.current \in 0..Len(r.providers) - 1
  BY DEF IsValid
<1>3. CASE i = 0
  <2> DEFINE first == Selected(r, 0, granted)
  <2>1. /\ first \in Registry
        /\ first.providers = r.providers
        /\ first.closing = r.closing /\ first.toRemove = r.toRemove
        /\ granted => first.current = 0
    BY <1>1, <1>3, SelectedKeeps
  <2>2. CASE Len(r.providers) > 1
    <3> DEFINE second == r.providers[2]
    <3>1. Deselected(r, i, granted) = Announce(first, second)
      BY <1>3, <2>2 DEF Deselected
    <3>2. second \in Providers
      BY <1>1, <2>2
    <3> HIDE DEF first, second
    <3>3. /\ Announce(first, second) \in Registry
          /\ Announce(first, second).providers = first.providers
          /\ Announce(first, second).current = first.current
          /\ Announce(first, second).closing = first.closing
          /\ Announce(first, second).toRemove = first.toRemove
      BY <2>1, <3>2, AnnounceKeeps
    <3> QED BY <1>1, <1>3, <2>1, <3>1, <3>3
  <2>3. CASE ~(Len(r.providers) > 1)
    <3>1. Deselected(r, i, granted) = first
      BY <1>3, <2>3 DEF Deselected
    <3> HIDE DEF first
    <3> QED BY <1>1, <1>3, <2>1, <3>1
  <2> QED BY <2>2, <2>3
<1>4. CASE i # 0
  <2>1. PICK k \in 0..Len(r.providers) - 1 : Deselected(r, i, granted) = Selected(r, k, granted)
    <3>1. CASE i = r.current
      BY <1>1, <1>4, <3>1 DEF Deselected
    <3>2. CASE i # r.current /\ ~IsValid(r)
      BY <1>1, <1>4, <3>2 DEF Deselected
    <3>3. CASE i # r.current /\ IsValid(r)
      BY <1>1, <1>2, <1>4, <3>3 DEF Deselected
    <3> QED BY <3>1, <3>2, <3>3
  <2> QED BY <1>1, <2>1, SelectedKeeps
<1> QED BY <1>3, <1>4

\* remove() of an open provider takes it from the list and from those being closed, and
\* leaves an open provider selected if there is one and no task prevents it.
LEMMA RemovedProperties ==
    ASSUME NEW r, Listed(r), NEW p \in Open(r), NEW granted \in 0..2
    PROVE  LET next == Removed(r, p, granted)
           IN  /\ Listed(next)
               /\ Open(next) = Open(r) \ {p}
               /\ next.closing = r.closing \ {p}
               /\ next.toRemove = r.toRemove \union {p}
               /\ granted = 2 /\ next.providers # <<>> => IsValid(next)
<1> DEFINE i == (CHOOSE n \in DOMAIN r.providers : r.providers[n] = p) - 1
           d == Deselected(r, i, granted >= 1)
           erased == Erased(d, i)
<1>1. i \in 0..Len(r.providers) - 1 /\ r.providers[i + 1] = p
  <2>1. \E n \in DOMAIN r.providers : r.providers[n] = p
    BY DEF Open, ToSet
  <2>2. r.providers \in Seq(Providers)
    BY DEF Listed, Registry
  <2> DEFINE n == CHOOSE n \in DOMAIN r.providers : r.providers[n] = p
  <2>3. n \in 1..Len(r.providers) /\ r.providers[n] = p
    BY <2>1, <2>2
  <2>4. i = n - 1 /\ Len(r.providers) \in Nat
    BY <2>2
  <2> HIDE DEF i, n
  <2> QED BY <2>3, <2>4
<1>2. Removed(r, p, granted) =
          IF Len(erased.providers) = 0 THEN Announce(erased, NoProvider)
          ELSE IF erased.current >= Len(erased.providers)
          THEN Selected(erased, Len(erased.providers) - 1, granted >= 2)
          ELSE erased
  BY DEF Removed
<1> HIDE DEF i
<1>3. /\ d \in Registry /\ d.providers = r.providers
      /\ d.closing = r.closing /\ d.toRemove = r.toRemove
      /\ granted = 2 => d.current \in 0..Len(r.providers) - 1
  <2>1. (granted >= 1) \in BOOLEAN /\ (granted = 2 => granted >= 1)
    OBVIOUS
  <2> QED BY <1>1, <2>1, DeselectedKeeps
<1> HIDE DEF d
<1>4. /\ RemoveAt(r.providers, i + 1) \in Seq(Providers)
      /\ Len(RemoveAt(r.providers, i + 1)) = Len(r.providers) - 1
      /\ IsInjective(RemoveAt(r.providers, i + 1))
      /\ ToSet(RemoveAt(r.providers, i + 1)) = ToSet(r.providers) \ {p}
  <2>1. i + 1 \in 1..Len(r.providers) /\ r.providers \in Seq(Providers)
    BY <1>1 DEF Listed, Registry
  <2> QED BY <1>1, <2>1, RemoveAtProperties DEF Listed
<1>5. p \in Providers
  BY <1>1 DEF Listed, Registry
<1>6. /\ erased \in Registry /\ erased.providers = RemoveAt(r.providers, i + 1)
      /\ erased.current = d.current
      /\ erased.closing = r.closing \ {p} /\ erased.toRemove = r.toRemove \union {p}
  <2> DEFINE moved == [d EXCEPT !.providers = RemoveAt(@, i + 1), !.toRemove = @ \union {p}]
  <2>1. erased = NotClosing(moved, p)
    BY <1>1, <1>3 DEF Erased
  <2>2. /\ moved \in Registry /\ moved.providers = RemoveAt(r.providers, i + 1)
        /\ moved.current = d.current
        /\ moved.closing = r.closing /\ moved.toRemove = r.toRemove \union {p}
    BY <1>3, <1>4, <1>5 DEF Registry
  <2> HIDE DEF moved
  <2> QED BY <2>1, <2>2 DEF NotClosing, Registry
<1> HIDE DEF erased
<1>7. /\ Listed(erased) /\ Len(erased.providers) \in Nat
      /\ erased.current \in Int /\ (granted = 2 => erased.current \in Nat)
  BY <1>3, <1>4, <1>6, ListedBounds DEF Listed
<1>8. Open(erased) = Open(r) \ {p}
  BY <1>4, <1>6 DEF Open
<1>9. CASE Len(erased.providers) = 0
  BY <1>2, <1>4, <1>6, <1>7, <1>8, <1>9, AnnounceKeeps DEF Listed, Open
<1>10. CASE Len(erased.providers) # 0 /\ erased.current >= Len(erased.providers)
  <2> DEFINE last == Len(erased.providers) - 1
             second == granted >= 2
             next == Removed(r, p, granted)
  <2>1. /\ last \in Nat /\ last < Len(erased.providers)
        /\ second \in BOOLEAN /\ (granted = 2 => second)
    BY <1>7, <1>10
  <2>2. next = Selected(erased, last, second)
    BY <1>2, <1>10
  <2> HIDE DEF last, second, next
  <2>3. /\ next \in Registry
        /\ next.providers = erased.providers /\ (granted = 2 => next.current = last)
        /\ next.closing = erased.closing /\ next.toRemove = erased.toRemove
    BY <1>7, <2>1, <2>2, SelectedKeeps
  <2>4. /\ Listed(next) /\ Open(next) = Open(r) \ {p}
        /\ next.closing = r.closing \ {p} /\ next.toRemove = r.toRemove \union {p}
    BY <1>6, <1>7, <1>8, <2>3 DEF Listed, Open
  <2>5. granted = 2 => IsValid(next)
    BY <1>7, <2>1, <2>3 DEF IsValid, last
  <2> QED BY <2>4, <2>5 DEF next
<1>11. CASE Len(erased.providers) # 0 /\ ~(erased.current >= Len(erased.providers))
  BY <1>2, <1>6, <1>7, <1>8, <1>11 DEF IsValid
<1> QED BY <1>9, <1>10, <1>11

-----------------------------------------------------------------------------
(* The actions                                                             *)

\* Initially nothing is open.
LEMMA InitInv == ASSUME Init PROVE IInv
<1>1. Cardinality(Providers) \in Nat
  BY RegistryAssumption, FS_CardinalityType
<1>2. registry \in Registry
  BY <1>1 DEF Init, Registry
<1>3. 0 \in 0..MaxAdded /\ 0 \in 0..MaxTasks
  BY RegistryAssumption
<1>4. ToSet(<<>>) = {} /\ IsInjective(<<>>) /\ <<>> \in Seq(Providers)
  BY DEF ToSet, IsInjective
<1>5. TypeOK
  BY <1>2, <1>3, <1>4 DEF Init, TypeOK
<1> QED BY <1>4, <1>5 DEF Init, IInv, CurrentIsOpen, PendingAreOpen, LoopOK, RemovedOnce,
           PendingWhileAsked, Open

\* What the invariant says of the registry.
LEMMA RegistryListed ==
    ASSUME IInv
    PROVE  /\ Listed(registry) /\ registry \in Registry
           /\ registry.providers \in Seq(Providers)
           /\ \A p \in Open(registry) : p \in Providers
<1>1. Listed(registry) /\ registry.providers \in Seq(Providers)
  BY DEF IInv, TypeOK, PendingAreOpen, Listed, Registry
<1> QED BY <1>1 DEF Listed, Open, ToSet

\* A worker may start a task in the middle of add() and remove().
LEMMA UndisturbedTypes ==
    ASSUME IInv, NEW granted \in BOOLEAN, Undisturbed(granted)
    PROVE  busy' \in BOOLEAN /\ started' \in 0 .. MaxTasks
<1>1. MaxTasks \in Nat /\ started \in 0 .. MaxTasks /\ busy \in BOOLEAN
  BY RegistryAssumption DEF IInv, TypeOK
<1>2. CASE granted
  BY <1>1, <1>2 DEF Undisturbed
<1>3. CASE ~granted
  BY <1>1, <1>3 DEF Undisturbed
<1> QED BY <1>2, <1>3

LEMMA SetCurrentProviderStep ==
    ASSUME IInv, NEW i \in 0 .. Len(registry.providers), SetCurrentProvider(i) PROVE IInv'
<1>1. i \in Nat /\ Listed(registry)
  BY RegistryListed
<1>2. /\ registry' \in Registry /\ registry'.providers = registry.providers
      /\ registry'.closing = registry.closing /\ registry'.toRemove = registry.toRemove
      /\ registry'.current = IF i < Len(registry.providers) THEN i ELSE registry.current
  BY <1>1, SelectedKeeps DEF SetCurrentProvider
<1>3. CurrentIsOpen'
  <2>1. CASE InRange(registry, i)
    <3>1. IsValid(registry')
      BY <1>1, <1>2, <2>1 DEF IsValid, InRange
    <3> QED BY <3>1 DEF CurrentIsOpen
  <2>2. CASE ~InRange(registry, i)
    <3>1. IsValid(registry) => IsValid(registry')
      BY <1>2, <2>2 DEF IsValid, InRange
    <3>2. overtaken' = overtaken
      BY <2>2 DEF SetCurrentProvider, IInv, TypeOK
    <3> QED BY <1>2, <3>1, <3>2 DEF IInv, CurrentIsOpen
  <2> QED BY <2>1, <2>2
<1>4. TypeOK'
  BY <1>2 DEF IInv, TypeOK, SetCurrentProvider, OnMain, InRange
<1> QED BY <1>2, <1>3, <1>4 DEF IInv, SetCurrentProvider, OnMain, PendingAreOpen, LoopOK,
           RemovedOnce, PendingWhileAsked, Open

\* What add() does to the registry
LEMMA AddedProperties ==
    ASSUME IInv, NEW p \in Providers, p \notin Open(registry),
           NEW select \in BOOLEAN, NEW granted \in BOOLEAN
    PROVE  LET next == Added(p, select, granted)
           IN  /\ Listed(next) /\ Open(next) = Open(registry) \union {p}
               /\ next.closing = registry.closing /\ next.toRemove = registry.toRemove
               /\ granted /\ (select \/ registry.providers = <<>>) => IsValid(next)
               /\ ~(select \/ registry.providers = <<>>) /\ IsValid(registry) => IsValid(next)
<1> DEFINE longer == [registry EXCEPT !.providers = Append(@, p)]
           last == Len(longer.providers) - 1
           next == Added(p, select, granted)
<1>1. /\ Listed(registry) /\ registry \in Registry /\ registry.providers \in Seq(Providers)
  BY RegistryListed
<1>2. /\ Append(registry.providers, p) \in Seq(Providers)
      /\ IsInjective(Append(registry.providers, p))
      /\ Len(Append(registry.providers, p)) = Len(registry.providers) + 1
      /\ ToSet(Append(registry.providers, p)) = ToSet(registry.providers) \union {p}
  BY <1>1, AppendNew DEF Listed, Open
<1>3. /\ Listed(longer) /\ longer.providers = Append(registry.providers, p)
      /\ longer.closing = registry.closing /\ longer.toRemove = registry.toRemove
      /\ longer.current = registry.current
  BY <1>1, <1>2 DEF Listed, Registry
<1>4. /\ last = Len(registry.providers) /\ last \in Nat /\ Len(longer.providers) = last + 1
      /\ last = 0 <=> registry.providers = <<>>
  BY <1>1, <1>2, <1>3
<1>5. next = IF select \/ last = 0 THEN Selected(longer, last, granted) ELSE longer
  BY DEF Added
<1> HIDE DEF longer, last, next
<1>6. CASE select \/ last = 0
  <2>1. /\ next \in Registry /\ next.providers = longer.providers
        /\ next.closing = longer.closing /\ next.toRemove = longer.toRemove
        /\ next.current = IF granted /\ last < Len(longer.providers) THEN last
                          ELSE longer.current
    BY <1>3, <1>4, <1>5, <1>6, SelectedKeeps
  <2>2. /\ Listed(next) /\ Open(next) = Open(registry) \union {p}
        /\ next.closing = registry.closing /\ next.toRemove = registry.toRemove
    BY <1>2, <1>3, <2>1 DEF Listed, Open
  <2>3. granted => IsValid(next)
    BY <1>4, <2>1 DEF IsValid
  <2> QED BY <1>4, <1>6, <2>2, <2>3 DEF next
<1>7. CASE ~(select \/ last = 0)
  <2>1. next = longer
    BY <1>5, <1>7
  <2>2. /\ Listed(next) /\ Open(next) = Open(registry) \union {p}
        /\ next.closing = registry.closing /\ next.toRemove = registry.toRemove
    BY <1>2, <1>3, <2>1 DEF Open
  <2>3. IsValid(registry) => IsValid(next)
    BY <1>1, <1>2, <1>3, <2>1 DEF IsValid
  <2> QED BY <1>4, <1>7, <2>2, <2>3 DEF next
<1> QED BY <1>6, <1>7

LEMMA AddStep ==
    ASSUME IInv, NEW p \in Providers, NEW select \in BOOLEAN, Add(p, select) PROVE IInv'
<1> DEFINE selecting == select \/ registry.providers = <<>>
<1>1. p \notin Open(registry) \union registry.toRemove
  BY DEF Add
<1>2. /\ Listed(registry') /\ registry'.closing = registry.closing
      /\ registry'.toRemove = registry.toRemove
      /\ Open(registry) \subseteq Open(registry')
      /\ Open(registry') \subseteq Open(registry) \union {p}
      /\ CurrentIsOpen' /\ overtaken' \in BOOLEAN
      /\ busy' \in BOOLEAN /\ started' \in 0 .. MaxTasks
  <2>1. CASE busy
    BY <2>1, RegistryListed DEF IInv, TypeOK, CurrentIsOpen, Add, List
  <2>2. CASE ~busy
    <3>1. PICK granted \in BOOLEAN :
            /\ registry' = Added(p, select, granted)
            /\ overtaken' = IF selecting THEN registry' # Added(p, select, TRUE) ELSE overtaken
            /\ Undisturbed(granted)
      BY <2>2 DEF Add, List
    <3>2. /\ Listed(registry') /\ Open(registry') = Open(registry) \union {p}
          /\ registry'.closing = registry.closing /\ registry'.toRemove = registry.toRemove
          /\ ~selecting /\ IsValid(registry) => IsValid(registry')
      BY <1>1, <3>1, AddedProperties
    <3>3. selecting => IsValid(Added(p, select, TRUE))
      BY <1>1, AddedProperties
    <3>4. CurrentIsOpen'
      BY <3>1, <3>2, <3>3 DEF IInv, CurrentIsOpen
    <3>5. overtaken' \in BOOLEAN
      BY <3>1 DEF IInv, TypeOK
    <3> QED BY <3>1, <3>2, <3>4, <3>5, UndisturbedTypes
  <2> QED BY <2>1, <2>2
<1>3. added' \in 0 .. MaxAdded
  BY RegistryAssumption DEF IInv, TypeOK, Add
<1>4. TypeOK'
  BY <1>2, <1>3 DEF IInv, TypeOK, Add, OnMain, Listed
<1>5. PendingAreOpen' /\ LoopOK' /\ PendingWhileAsked'
  BY <1>2 DEF IInv, PendingAreOpen, LoopOK, PendingWhileAsked, Add, OnMain, Listed
<1>6. RemovedOnce'
  BY <1>1, <1>2 DEF IInv, RemovedOnce, Add
<1> QED BY <1>2, <1>4, <1>5, <1>6 DEF IInv

\* remove(), after the dialog or without it, keeps the parts of the invariant: of an open
\* provider it registers the callback, and the pointer of another one stays behind.
LEMMA RemoveFromKeeps ==
    ASSUME IInv, NEW p \in Providers, NEW r, r \in {registry, Closing(p)},
           RemoveFrom(r, p), closers' = closers
    PROVE  /\ registry' \in Registry /\ callbacks' \in Seq(Providers)
           /\ ignored' \in SUBSET Providers /\ strays' \in SUBSET Providers
           /\ overtaken' \in BOOLEAN /\ busy' \in BOOLEAN /\ started' \in 0 .. MaxTasks
           /\ CurrentIsOpen' /\ PendingAreOpen' /\ RemovedOnce'
           /\ registry.closing \ {p} \subseteq registry'.closing
           /\ registry'.closing \ {p} \subseteq registry.closing
           /\ p \in registry'.closing => p \in strays'
           /\ (ignored \union strays) \ {p} \subseteq ignored' \union strays'
<1>1. /\ Listed(registry) /\ registry \in Registry
      /\ r = registry \/ r = [registry EXCEPT !.closing = @ \union {p}]
  BY RegistryListed DEF Closing
<1>2. /\ Listed(r) /\ Open(r) = Open(registry) /\ r.toRemove = registry.toRemove
      /\ r.providers = registry.providers /\ r.current = registry.current
      /\ r.closing \ {p} = registry.closing \ {p} /\ registry.closing \subseteq r.closing
  BY <1>1 DEF Listed, Registry, Open
<1>3. CASE p \in Open(r)
  <2>1. PICK granted \in 0 .. 2 :
          /\ registry' = Removed(r, p, granted)
          /\ overtaken' = (registry' # Removed(r, p, 2))
          /\ Undisturbed(granted = 2)
    BY <1>3 DEF RemoveFrom
  <2>2. /\ callbacks' = Append(callbacks, p)
        /\ ignored' = ignored \ {p} /\ strays' = strays \ {p}
    BY <1>3 DEF RemoveFrom
  <2>3. /\ Listed(registry') /\ Open(registry') = Open(registry) \ {p}
        /\ registry'.closing = registry.closing \ {p}
        /\ registry'.toRemove = registry.toRemove \union {p}
    BY <1>2, <1>3, <2>1, RemovedProperties
  <2>4. /\ Removed(r, p, 2).providers # <<>> => IsValid(Removed(r, p, 2))
        /\ (granted = 2) \in BOOLEAN
    BY <1>2, <1>3, RemovedProperties
  <2>5. CurrentIsOpen'
    BY <2>1, <2>4 DEF CurrentIsOpen
  <2>6. callbacks \in Seq(Providers) /\ IsInjective(callbacks) /\ p \notin ToSet(callbacks) \union closers
    BY <1>2, <1>3 DEF IInv, TypeOK, RemovedOnce
  <2>7. /\ callbacks' \in Seq(Providers) /\ IsInjective(callbacks')
        /\ ToSet(callbacks') = ToSet(callbacks) \union {p}
    BY <2>2, <2>6, AppendNew
  <2>8. PendingAreOpen' /\ ignored' \in SUBSET Providers /\ strays' \in SUBSET Providers
    BY <2>2, <2>3 DEF IInv, TypeOK, PendingAreOpen, Listed
  <2>9. RemovedOnce'
    BY <2>3, <2>6, <2>7 DEF IInv, RemovedOnce
  <2>10. busy' \in BOOLEAN /\ started' \in 0 .. MaxTasks /\ overtaken' \in BOOLEAN
    BY <2>1, <2>4, UndisturbedTypes
  <2> QED BY <2>2, <2>3, <2>5, <2>7, <2>8, <2>9, <2>10 DEF Listed
<1>4. CASE p \notin Open(r)
  <2>1. /\ registry' = r /\ strays' = strays \union (r.closing \intersect {p})
        /\ UNCHANGED <<overtaken, callbacks, ignored, busy, started>>
    BY <1>4 DEF RemoveFrom
  <2>2. r.closing \subseteq Open(registry) \union strays'
    BY <1>2, <2>1 DEF IInv, PendingAreOpen
  <2> QED BY <1>2, <2>1, <2>2 DEF IInv, TypeOK, CurrentIsOpen, PendingAreOpen, RemovedOnce,
             Listed, IsValid, Open
<1> QED BY <1>3, <1>4

\* ... and with it the whole invariant, if nothing is left to remove in the loop, or p was.
LEMMA RemoveFromInv ==
    ASSUME IInv, NEW p \in Providers, NEW r, r \in {registry, Closing(p)},
           RemoveFrom(r, p), UNCHANGED <<asking, opening, closers, added>>,
           failed' \in SUBSET Providers,
           leaving' = leaving \ {p}
    PROVE  IInv'
<1>1. /\ registry' \in Registry /\ callbacks' \in Seq(Providers)
      /\ ignored' \in SUBSET Providers /\ strays' \in SUBSET Providers
      /\ overtaken' \in BOOLEAN /\ busy' \in BOOLEAN /\ started' \in 0 .. MaxTasks
      /\ CurrentIsOpen' /\ PendingAreOpen' /\ RemovedOnce'
      /\ registry.closing \ {p} \subseteq registry'.closing
      /\ registry'.closing \ {p} \subseteq registry.closing
      /\ p \in registry'.closing => p \in strays'
      /\ (ignored \union strays) \ {p} \subseteq ignored' \union strays'
  BY RemoveFromKeeps
<1>2. TypeOK'
  BY <1>1 DEF IInv, TypeOK
<1>3. LoopOK'
  BY <1>1 DEF IInv, LoopOK
<1>4. PendingWhileAsked'
  BY <1>1 DEF IInv, PendingWhileAsked
<1> QED BY <1>1, <1>2, <1>3, <1>4 DEF IInv

LEMMA ForceRemoveStep == ASSUME IInv, NEW p \in Providers, ForceRemove(p) PROVE IInv'
<1>1. failed' \in SUBSET Providers /\ leaving' = leaving \ {p}
  BY DEF IInv, TypeOK, ForceRemove, OnMain
<1> QED BY <1>1, RemoveFromInv DEF ForceRemove

LEMMA CloseStep == ASSUME IInv, NEW p \in Providers, Close(p) PROVE IInv'
<1>1. failed' \in SUBSET Providers /\ leaving' = leaving \ {p}
  BY DEF IInv, TypeOK, Close, OnMain
<1> QED BY <1>1, RemoveFromInv DEF Close

LEMMA RemoveFailedStep == ASSUME IInv, NEW p \in Providers, RemoveFailed(p) PROVE IInv'
<1>1. failed' \in SUBSET Providers /\ leaving' = leaving \ {p}
  BY DEF IInv, TypeOK, RemoveFailed, OnMain
<1>2. CASE busy
  BY <1>1, <1>2 DEF IInv, TypeOK, CurrentIsOpen, PendingAreOpen, LoopOK, RemovedOnce,
     PendingWhileAsked, RemoveFailed, OnMain, Open
<1>3. CASE ~busy
  BY <1>1, <1>3, RemoveFromInv DEF RemoveFailed
<1> QED BY <1>2, <1>3

\* What the invariant says is kept when the list, and what was removed, stay the same.
LEMMA SameList ==
    ASSUME IInv, registry' \in Registry, NEW closing, closing \subseteq Open(registry) \union strays',
           registry' = [registry EXCEPT !.closing = closing],
           UNCHANGED <<callbacks, closers, overtaken>>
    PROVE  CurrentIsOpen' /\ PendingAreOpen' /\ RemovedOnce' /\ registry'.closing = closing
<1>1. /\ registry'.providers = registry.providers /\ registry'.current = registry.current
      /\ registry'.toRemove = registry.toRemove /\ registry'.closing = closing
  BY RegistryListed DEF Registry
<1> QED BY <1>1 DEF IInv, CurrentIsOpen, PendingAreOpen, RemovedOnce, IsValid, Open

LEMMA AskToCloseStep == ASSUME IInv, NEW p \in Providers, AskToClose(p) PROVE IInv'
<1>1. /\ registry' \in Registry
      /\ registry' = [registry EXCEPT !.closing = registry.closing \union {p}]
      /\ registry.closing \union {p} \subseteq Open(registry) \union strays'
  BY RegistryListed DEF IInv, PendingAreOpen, AskToClose, Closing, Registry
<1>2. CurrentIsOpen' /\ PendingAreOpen' /\ RemovedOnce'
  BY <1>1, SameList DEF AskToClose
<1>3. asking' # NoProvider /\ asking' \in Providers
  BY RegistryAssumption DEF AskToClose
<1> QED BY <1>1, <1>2, <1>3 DEF IInv, TypeOK, LoopOK, PendingWhileAsked, AskToClose, OnMain

LEMMA AnswerRemoveStep == ASSUME IInv, AnswerRemove PROVE IInv'
<1>1. registry.closing \subseteq Providers
  BY RegistryListed DEF Registry
<1> QED BY <1>1 DEF IInv, TypeOK, CurrentIsOpen, PendingAreOpen, LoopOK, RemovedOnce,
           PendingWhileAsked, AnswerRemove, Open

LEMMA RemoveNextStep == ASSUME IInv, RemoveNext PROVE IInv'
<1>1. PICK p \in leaving : RemoveNext!1!(p)
  BY DEF RemoveNext
<1>2. p \in Providers /\ UNCHANGED <<asking, opening, failed, closers, added>>
  BY DEF IInv, TypeOK, RemoveNext
<1>3. CASE busy
  BY <1>1, <1>2, <1>3 DEF IInv, TypeOK, CurrentIsOpen, PendingAreOpen, LoopOK, RemovedOnce,
     PendingWhileAsked, Open
<1>4. CASE ~busy
  <2>1. RemoveFrom(registry, p) /\ leaving' = leaving \ {p}
    BY <1>1, <1>4
  <2>2. failed' \in SUBSET Providers
    BY <1>2 DEF IInv, TypeOK
  <2> QED BY <1>2, <2>1, <2>2, RemoveFromInv
<1> QED BY <1>3, <1>4

LEMMA AnswerCancelStep == ASSUME IInv, AnswerCancel PROVE IInv'
<1>1. registry' \in Registry /\ registry' = [registry EXCEPT !.closing = {}]
  BY RegistryListed DEF AnswerCancel, Cancelled, Registry
<1>2. CurrentIsOpen' /\ PendingAreOpen' /\ RemovedOnce' /\ registry'.closing = {}
  BY <1>1, SameList DEF AnswerCancel
<1> QED BY <1>1, <1>2 DEF IInv, TypeOK, LoopOK, PendingWhileAsked, AnswerCancel, OnMain

LEMMA FrameEndStep == ASSUME IInv, FrameEnd PROVE IInv'
<1>1. callbacks' = <<>> /\ closers' = ToSet(callbacks) /\ closers = {} /\ registry' = registry
  BY DEF FrameEnd, Called
<1>2. ToSet(callbacks) \subseteq Providers /\ ToSet(<<>>) = {} /\ IsInjective(<<>>)
  BY DEF IInv, TypeOK, ToSet, IsInjective
<1>3. RemovedOnce'
  BY <1>1, <1>2 DEF IInv, RemovedOnce
<1> QED BY <1>1, <1>2, <1>3 DEF IInv, TypeOK, CurrentIsOpen, PendingAreOpen, LoopOK,
           PendingWhileAsked, FrameEnd, OnMain, Open

LEMMA CloseProviderStep == ASSUME IInv, NEW p \in Providers, CloseProvider(p) PROVE IInv'
<1>1. /\ registry' \in Registry /\ registry'.providers = registry.providers
      /\ registry'.current = registry.current /\ registry'.closing = registry.closing
      /\ registry'.toRemove = registry.toRemove \ {p}
  BY RegistryListed DEF CloseProvider, Dropped, Registry
<1>2. RemovedOnce'
  BY <1>1 DEF IInv, RemovedOnce, CloseProvider, Open
<1> QED BY <1>1, <1>2 DEF IInv, TypeOK, CurrentIsOpen, PendingAreOpen, LoopOK,
           PendingWhileAsked, CloseProvider, Open, IsValid

\* Tasks that come and go, and steps that change nothing
LEMMA TaskCountStep ==
    ASSUME IInv,
           StartTask \/ EndTask \/ (\E p \in Providers : OpeningEnds(p)) \/ UNCHANGED vars
    PROVE  IInv'
<1>1. UNCHANGED <<registry, leaving, asking, callbacks, closers, ignored, strays, overtaken, added>>
  BY DEF StartTask, EndTask, OpeningEnds, OnMain, vars
<1>2. started' \in 0..MaxTasks /\ busy' \in BOOLEAN
  <2>1. MaxTasks \in Nat /\ started \in 0..MaxTasks /\ busy \in BOOLEAN
    BY RegistryAssumption DEF IInv, TypeOK
  <2>2. CASE StartTask
    BY <2>1, <2>2 DEF StartTask
  <2>3. CASE EndTask \/ (\E p \in Providers : OpeningEnds(p)) \/ UNCHANGED vars
    BY <2>1, <2>3 DEF EndTask, OpeningEnds, vars
  <2> QED BY <2>2, <2>3
<1>3. opening' \in SUBSET Providers /\ failed' \in SUBSET Providers
  BY DEF IInv, TypeOK, StartTask, EndTask, OpeningEnds, vars
<1>4. TypeOK'
  BY <1>1, <1>2, <1>3 DEF IInv, TypeOK
<1> QED BY <1>1, <1>4 DEF IInv, CurrentIsOpen, PendingAreOpen, LoopOK, RemovedOnce,
           PendingWhileAsked, Open

\* Every step keeps the invariant.
LEMMA StepInv == ASSUME IInv, [Next]_vars PROVE IInv'
<1>1. CASE UserStep
  BY <1>1, SetCurrentProviderStep, AddStep, ForceRemoveStep, CloseStep, AskToCloseStep,
     RemoveFailedStep, AnswerRemoveStep, RemoveNextStep, AnswerCancelStep DEF UserStep
<1>2. CASE TaskStep
  BY <1>2, TaskCountStep, FrameEndStep, CloseProviderStep DEF TaskStep
<1> QED BY <1>1, <1>2, TaskCountStep DEF Next

\* The inductive invariant holds in every reachable state.
THEOREM Invariance == Spec => []IInv
BY InitInv, StepInv, PTL DEF Spec

-----------------------------------------------------------------------------
(* The properties                                                          *)

\* The list, the callbacks and the sets of providers keep their types; the current
\* position stays within the number of addresses.
THEOREM TypeCorrect == Spec => []TypeOK
<1>1. IInv => TypeOK
  BY DEF IInv
<1> QED BY <1>1, Invariance, PTL

\* While anything is open, get() returns an open provider, whatever is removed in
\* whatever order, unless the last selection was refused since a worker had started a
\* foreground task in the middle of the call.
THEOREM CurrentAlwaysOpen == Spec => []CurrentIsOpen
<1>1. IInv => CurrentIsOpen
  BY DEF IInv
<1> QED BY <1>1, Invariance, PTL

\* No provider is ever listed twice, and what is being closed is open, but for pointers
\* that remove() of a provider that is not in the list left behind.
THEOREM PendingAlwaysOpen == Spec => []PendingAreOpen
<1>1. IInv => PendingAreOpen
  BY DEF IInv
<1> QED BY <1>1, Invariance, PTL

\* Every removed provider waits for its destruction exactly once.
THEOREM AlwaysRemovedOnce == Spec => []RemovedOnce
<1>1. IInv => RemovedOnce
  BY DEF IInv
<1> QED BY <1>1, Invariance, PTL

\* Nothing is marked as being closed without a question, a loop of removals, an answer
\* that a foreground task made remove() ignore, or such a pointer left behind.
THEOREM PendingAlwaysAsked == Spec => []PendingWhileAsked
<1>1. IInv => PendingWhileAsked
  BY DEF IInv
<1> QED BY <1>1, Invariance, PTL
=============================================================================
