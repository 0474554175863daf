------------------------- MODULE TaskManager_proofs -------------------------
(***************************************************************************)
(* The safety properties of TaskManager that hold for any tasks, callbacks *)
(* and any finite number of workers.                                       *)
(***************************************************************************)
EXTENDS TaskManager, FiniteSetTheorems, TLAPS

(* The inductive invariant ***************************************************)

Elements(s) == {s[i] : i \in DOMAIN s}
Injective(s) == \A i, j \in DOMAIN s : s[i] = s[j] => i = j

Working(w) == worker[w] \in {"running", "ending"}

\* Where a task can be: in the queue, with one worker, or finished; only tasks
\* that were created are anywhere.
Owned ==
    /\ \A w \in Workers : Working(w) => job[w] \in created \ (finished \union Elements(queue))
    /\ \A v, w \in Workers : Working(v) /\ Working(w) /\ job[v] = job[w] => v = w
    /\ Elements(queue) \subseteq created \ finished
    /\ finished \subseteq created
    /\ created \subseteq AllTasks

QueueOK ==
    /\ Injective(queue)
    /\ IsFiniteSet(Elements(queue))
    /\ Cardinality(Elements(queue)) = Len(queue)

\* A worker that is about to sleep has the mutex and has seen an empty queue.
BlockingOK ==
    \A w \in Workers : worker[w] = "blocking" => mutex = w /\ queue = <<>>

\* Callbacks that are not being called yet wait for listed tasks only.
CallbacksOK ==
    /\ main.at = "calling" => main.next \in DOMAIN callbacks
    /\ \A i \in DOMAIN callbacks :
          waitsFor[callbacks[i]] \subseteq
              (finished \ exception) \union (IF main.at = "calling" THEN {} ELSE tasks)

\* NoTaskUnlisted, place by place.
Listed ==
    main.at # "exited" =>
        /\ Elements(queue) \subseteq tasks
        /\ exception \subseteq tasks
        /\ \A w \in Workers : Working(w) => job[w] \in tasks

IInv ==
    /\ TypeOK /\ Owned /\ QueueOK
    /\ BlockingOK /\ NoLostWakeup
    /\ Listed /\ CallbacksOK

-----------------------------------------------------------------------------
(* Queues and sets of workers                                              *)

\* A sequence and the same with one more element at the end.
LEMMA LongerElements ==
    ASSUME NEW s, NEW a, NEW t, NEW n \in Nat, DOMAIN s = 1..n, DOMAIN a = 1..(n + 1),
           \A i \in 1..n : a[i] = s[i], a[n + 1] = t
    PROVE  /\ Elements(a) = Elements(s) \union {t}
           /\ Injective(s) /\ t \notin Elements(s) => Injective(a)
<1>1. 1..(n + 1) = (1..n) \union {n + 1}
  OBVIOUS
<1>2. Elements(a) = {a[i] : i \in 1..n} \union {a[n + 1]}
  BY <1>1 DEF Elements
<1>3. Elements(a) = Elements(s) \union {t}
  BY <1>2 DEF Elements
<1>4. ASSUME Injective(s), t \notin Elements(s), NEW i \in 1..(n + 1), NEW j \in 1..(n + 1),
             a[i] = a[j]
      PROVE  i = j
  <2>1. \A k \in 1..n : s[k] # t
    BY <1>4 DEF Elements
  <2>2. \A k, l \in 1..n : s[k] = s[l] => k = l
    BY <1>4 DEF Injective
  <2> QED BY <1>1, <1>4, <2>1, <2>2
<1> QED BY <1>3, <1>4 DEF Injective

\* A sequence and the same without its first element.
LEMMA ShorterElements ==
    ASSUME NEW s, NEW b, NEW n \in Nat \ {0}, DOMAIN s = 1..n, DOMAIN b = 1..(n - 1),
           \A i \in 1..(n - 1) : b[i] = s[i + 1], Injective(s)
    PROVE  /\ s[1] \in Elements(s)
           /\ Elements(b) = Elements(s) \ {s[1]}
           /\ Injective(b)
<1>1. 1 \in 1..n /\ \A i \in 1..(n - 1) : i + 1 \in 1..n /\ i + 1 # 1
  OBVIOUS
<1>2. \A i, j \in 1..n : s[i] = s[j] => i = j
  BY DEF Injective
<1>3. s[1] \in Elements(s)
  BY <1>1 DEF Elements
<1>4. ASSUME NEW x \in Elements(b) PROVE x \in Elements(s) \ {s[1]}
  <2>1. PICK i \in 1..(n - 1) : x = s[i + 1]
    BY DEF Elements
  <2>2. x # s[1]
    BY <1>1, <1>2, <2>1
  <2> QED BY <1>1, <2>1, <2>2 DEF Elements
<1>5. ASSUME NEW x \in Elements(s) \ {s[1]} PROVE x \in Elements(b)
  <2>1. PICK i \in 1..n : x = s[i]
    BY DEF Elements
  <2>2. i - 1 \in 1..(n - 1) /\ (i - 1) + 1 = i
    BY <2>1
  <2>3. b[i - 1] = x
    BY <2>1, <2>2
  <2> QED BY <2>2, <2>3 DEF Elements
<1>6. ASSUME NEW i \in 1..(n - 1), NEW j \in 1..(n - 1), b[i] = b[j] PROVE i = j
  <2>1. s[i + 1] = s[j + 1]
    BY <1>6
  <2>2. i + 1 = j + 1
    BY <1>1, <1>2, <2>1
  <2> QED BY <2>2
<1> QED BY <1>3, <1>4, <1>5, <1>6 DEF Injective

\* A new element at the end of a sequence without repetitions.
LEMMA AppendNew ==
    ASSUME NEW S, NEW s \in Seq(S), NEW t \in S, t \notin Elements(s),
           Injective(s), IsFiniteSet(Elements(s)), Cardinality(Elements(s)) = Len(s)
    PROVE  /\ Append(s, t) \in Seq(S)
           /\ Elements(Append(s, t)) = Elements(s) \union {t}
           /\ Injective(Append(s, t))
           /\ IsFiniteSet(Elements(Append(s, t)))
           /\ Cardinality(Elements(Append(s, t))) = Len(Append(s, t))
           /\ Len(s) \in Nat /\ Len(Append(s, t)) = Len(s) + 1
<1> DEFINE a == Append(s, t)
           n == Len(s)
<1>1. a \in Seq(S) /\ Len(a) = n + 1
  OBVIOUS
<1>2. n \in Nat /\ DOMAIN s = 1..n /\ DOMAIN a = 1..(n + 1) /\ a[n + 1] = t
  OBVIOUS
<1>3. \A i \in 1..n : a[i] = s[i]
  OBVIOUS
<1>4. Elements(a) = Elements(s) \union {t} /\ Injective(a)
  <2> HIDE DEF a, n
  <2> QED BY <1>2, <1>3, LongerElements
<1>5. IsFiniteSet(Elements(s) \union {t})
      /\ Cardinality(Elements(s) \union {t}) = Cardinality(Elements(s)) + 1
  BY FS_AddElement
<1> QED BY <1>1, <1>2, <1>4, <1>5

\* Taking the first element of a sequence without repetitions.
LEMMA TailOld ==
    ASSUME NEW S, NEW s \in Seq(S), s # <<>>,
           Injective(s), IsFiniteSet(Elements(s)), Cardinality(Elements(s)) = Len(s)
    PROVE  /\ Tail(s) \in Seq(S) /\ Head(s) \in Elements(s)
           /\ Elements(Tail(s)) = Elements(s) \ {Head(s)}
           /\ Injective(Tail(s))
           /\ IsFiniteSet(Elements(Tail(s)))
           /\ Cardinality(Elements(Tail(s))) = Len(Tail(s))
           /\ Len(s) \in Nat /\ Len(Tail(s)) = Len(s) - 1
<1>1. /\ Tail(s) \in Seq(S) /\ Head(s) = s[1] /\ Len(s) \in Nat \ {0}
      /\ Len(Tail(s)) = Len(s) - 1
      /\ DOMAIN s = 1..Len(s) /\ DOMAIN Tail(s) = 1..(Len(s) - 1)
      /\ \A i \in 1..(Len(s) - 1) : Tail(s)[i] = s[i + 1]
  OBVIOUS
<1>2. /\ Head(s) \in Elements(s) /\ Injective(Tail(s))
      /\ Elements(Tail(s)) = Elements(s) \ {Head(s)}
  BY <1>1, ShorterElements
<1>3. /\ IsFiniteSet(Elements(s) \ {Head(s)})
      /\ Cardinality(Elements(s) \ {Head(s)}) = Cardinality(Elements(s)) - 1
  BY <1>2, FS_RemoveElement
<1> QED BY <1>1, <1>2, <1>3

\* The number of workers that are awake is a number.
LEMMA AwakeFinite ==
    IsFiniteSet(At("awake")) /\ Cardinality(At("awake")) \in Nat
<1>1. At("awake") \in SUBSET Workers
  BY DEF At
<1> QED BY <1>1, TaskAssumption, FS_Subset, FS_CardinalityType

\* It grows by one when a worker wakes up or comes back from its task ...
LEMMA AwakeMore ==
    ASSUME worker \in [Workers -> Places], NEW w \in Workers, worker[w] # "awake",
           Move(w, "awake")
    PROVE  Cardinality(At("awake")') = Cardinality(At("awake")) + 1
<1>1. At("awake")' = At("awake") \union {w} /\ w \notin At("awake")
  BY DEF At, Move
<1> QED BY <1>1, AwakeFinite, FS_AddElement

\* ... and shrinks by one when a worker leaves the head of its loop.
LEMMA AwakeLess ==
    ASSUME worker \in [Workers -> Places], NEW w \in Workers, worker[w] = "awake",
           NEW place \in Places, place # "awake", Move(w, place)
    PROVE  Cardinality(At("awake")') = Cardinality(At("awake")) - 1
<1>1. At("awake")' = At("awake") \ {w} /\ w \in At("awake")
  BY DEF At, Move
<1> QED BY <1>1, AwakeFinite, FS_RemoveElement

-----------------------------------------------------------------------------
(* Every step preserves the invariant                                      *)

LEMMA InitInv == Init => IInv
<1> SUFFICES ASSUME Init PROVE IInv
  OBVIOUS
<1> USE DEF Init
<1>1. TypeOK
  BY DEF TypeOK, Places, MainPlaces
<1>2. Elements(<<>>) = {} /\ Injective(<<>>) /\ Len(<<>>) = 0
  BY DEF Elements, Injective
<1>3. Owned /\ BlockingOK /\ Listed /\ CallbacksOK
  BY <1>2 DEF Owned, Working, BlockingOK, Listed, CallbacksOK
<1>4. QueueOK
  BY <1>2, FS_EmptySet DEF QueueOK
<1>5. NoLostWakeup
  BY DEF NoLostWakeup, At
<1> QED BY <1>1, <1>3, <1>4, <1>5 DEF IInv

\* Nothing happens to workers, queue and finished tasks.
LEMMA KeptPool ==
    ASSUME IInv, UNCHANGED <<queue, pool, finished, created>>,
           stopping \subseteq stopping'
    PROVE  Owned' /\ QueueOK' /\ BlockingOK' /\ NoLostWakeup'
<1>1. Owned' /\ QueueOK' /\ BlockingOK'
  BY DEF IInv, pool, Owned, QueueOK, BlockingOK, Working
<1>2. NoLostWakeup'
  BY DEF IInv, pool, NoLostWakeup, At
<1> QED BY <1>1, <1>2

\* The new task is queued once, is listed, and wakes a worker up if one sleeps.
LEMMA CreateStep ==
    ASSUME IInv, NEW t \in AllTasks, CreateTask(t),
           UNCHANGED <<mutex, job, flags, stopping, waitsFor>>
    PROVE  /\ tasks' \in SUBSET AllTasks /\ queue' \in Seq(AllTasks)
           /\ worker' \in [Workers -> Places] /\ created' \in SUBSET AllTasks
           /\ Owned' /\ QueueOK' /\ BlockingOK' /\ NoLostWakeup'
           /\ main.at # "exited" =>
                /\ Elements(queue') \subseteq tasks'
                /\ exception' \subseteq tasks'
                /\ \A w \in Workers : Working(w)' => job'[w] \in tasks'
<1> USE DEF CreateTask
<1>1. TypeOK /\ Owned /\ QueueOK /\ BlockingOK /\ NoLostWakeup /\ Listed
  BY DEF IInv
<1>2. /\ queue' \in Seq(AllTasks) /\ Elements(queue') = Elements(queue) \union {t}
      /\ Injective(queue') /\ IsFiniteSet(Elements(queue'))
      /\ Cardinality(Elements(queue')) = Len(queue')
      /\ Len(queue) \in Nat /\ Len(queue') = Len(queue) + 1
  <2>1. t \notin Elements(queue) /\ queue \in Seq(AllTasks)
    BY <1>1 DEF Owned, TypeOK
  <2> QED BY <1>1, <2>1, AppendNew DEF QueueOK
<1>3. \/ worker' = worker /\ At("asleep") = {}
      \/ \E w \in Workers : worker[w] = "asleep" /\ Move(w, "awake")
  BY DEF NotifyOne, At
<1>4. worker' \in [Workers -> Places]
      /\ \A w \in Workers : \/ worker'[w] = worker[w]
                            \/ worker[w] = "asleep" /\ worker'[w] = "awake"
  BY <1>1, <1>3 DEF Move, Places, TypeOK
<1>5. \A w \in Workers : Working(w)' <=> Working(w)
  BY <1>4 DEF Working
<1>6. Owned'
  BY <1>1, <1>2, <1>5 DEF Owned, flags
<1>7. BlockingOK'
  BY <1>1, <1>4, TaskAssumption DEF BlockingOK
<1>8. NoLostWakeup'
  <2>1. CASE worker' = worker /\ At("asleep") = {}
    BY <2>1 DEF NoLostWakeup, At
  <2>2. CASE \E w \in Workers : worker[w] = "asleep" /\ Move(w, "awake")
    <3>1. PICK w \in Workers : worker[w] = "asleep" /\ Move(w, "awake")
      BY <2>2
    <3>2. At("asleep") # {} /\ worker[w] # "awake"
      BY <3>1 DEF At
    <3>3. Cardinality(At("awake")') = Cardinality(At("awake")) + 1
      BY <1>1, <3>1, <3>2, AwakeMore DEF TypeOK
    <3> QED BY <1>1, <1>2, <3>2, <3>3, AwakeFinite DEF NoLostWakeup
  <2> QED BY <1>3, <2>1, <2>2
<1>9. main.at # "exited" =>
          /\ Elements(queue') \subseteq tasks'
          /\ exception' \subseteq tasks'
          /\ \A w \in Workers : Working(w)' => job'[w] \in tasks'
  BY <1>1, <1>2, <1>5 DEF Listed, flags
<1> QED
  BY <1>1, <1>2, <1>4, <1>6, <1>7, <1>8, <1>9 DEF TypeOK, QueueOK

LEMMA JustCreateStep ==
    ASSUME IInv, NEW t \in AllTasks, CreateTask(t),
           UNCHANGED <<mutex, job, flags, callbacks, stopping, main, waitsFor>>
    PROVE  IInv'
<1>1. TypeOK'
  BY CreateStep DEF IInv, TypeOK, flags
<1>2. Listed'
  BY CreateStep DEF Listed
<1>3. CallbacksOK'
  <2>1. tasks \subseteq tasks'
    BY DEF CreateTask
  <2> QED BY <2>1 DEF IInv, CallbacksOK, flags
<1> QED BY <1>1, <1>2, <1>3, CreateStep DEF IInv

LEMMA CallCallbackStep ==
    ASSUME IInv, CallCallback
    PROVE  IInv'
<1> DEFINE t == callbacks[main.next]
<1> USE DEF CallCallback
<1>1. TypeOK /\ CallbacksOK /\ main.next \in DOMAIN callbacks
  BY DEF IInv, CallbacksOK
<1>2. t \in AllTasks /\ CreateTask(t) /\ UNCHANGED <<mutex, job, flags, stopping, waitsFor>>
  BY <1>1 DEF TypeOK, AllTasks
<1>3. \/ /\ main'.at = "calling" /\ main'.next \in DOMAIN callbacks /\ callbacks' = callbacks
         /\ main' \in [at : MainPlaces, next : Nat]
      \/ main' = [at |-> "frame", next |-> 1] /\ callbacks' = <<>>
  <2>1. CASE main.next < Len(callbacks)
    <3>1. main' = [main EXCEPT !.next = @ + 1] /\ callbacks' = callbacks
      BY <2>1
    <3>2. main \in [at : MainPlaces, next : Nat] /\ callbacks \in Seq(Callbacks)
      BY <1>1 DEF TypeOK
    <3>3. main.next + 1 \in 1..Len(callbacks) /\ Len(callbacks) \in Nat
      BY <1>1, <2>1, <3>2
    <3> QED BY <3>1, <3>2, <3>3
  <2>2. CASE ~(main.next < Len(callbacks))
    BY <2>2 DEF MainGoes, Forget
  <2> QED BY <2>1, <2>2
<1>4. TypeOK'
  <2>1. main' \in [at : MainPlaces, next : Nat] /\ callbacks' \in Seq(Callbacks)
    <3>1. callbacks \in Seq(Callbacks) /\ <<>> \in Seq(Callbacks)
      BY <1>1 DEF TypeOK
    <3>2. CASE main' = [at |-> "frame", next |-> 1] /\ callbacks' = <<>>
      BY <3>1, <3>2 DEF MainPlaces
    <3> QED BY <1>3, <3>1, <3>2
  <2> QED BY <1>1, <1>2, <2>1, CreateStep DEF TypeOK, flags
<1>5. Listed'
  BY <1>2, <1>3, CreateStep DEF Listed
<1>6. CallbacksOK'
  <2>1. CASE main'.at = "calling" /\ main'.next \in DOMAIN callbacks /\ callbacks' = callbacks
    BY <1>1, <2>1 DEF CallbacksOK, flags
  <2>2. CASE main' = [at |-> "frame", next |-> 1] /\ callbacks' = <<>>
    BY <2>2 DEF CallbacksOK
  <2> QED BY <1>3, <2>1, <2>2
<1> QED BY <1>2, <1>4, <1>5, <1>6, CreateStep DEF IInv

LEMMA LookStep ==
    ASSUME IInv, NEW w \in Workers, Look(w)
    PROVE  IInv'
<1>1. /\ TypeOK /\ Owned /\ QueueOK /\ BlockingOK /\ NoLostWakeup /\ Listed /\ CallbacksOK
      /\ worker[w] = "awake" /\ mutex = NoWorker
      /\ UNCHANGED <<tasks, flags, callbacks, stopping, main, created, waitsFor>>
  BY DEF IInv, Look
<1>2. \A v \in Workers : worker[v] # "blocking"
  BY <1>1, TaskAssumption DEF BlockingOK
<1>3. CallbacksOK'
  BY <1>1 DEF CallbacksOK, flags
<1>4. CASE w \in stopping /\ Move(w, "stopped") /\ UNCHANGED <<queue, mutex, job>>
  <2>1. TypeOK'
    BY <1>1, <1>4 DEF TypeOK, Move, Places, flags
  <2>2. \A v \in Workers : Working(v)' <=> Working(v)
    BY <1>1, <1>4 DEF Working, Move, TypeOK
  <2>3. Owned' /\ QueueOK' /\ Listed'
    BY <1>1, <1>4, <2>2 DEF Owned, QueueOK, Listed, flags
  <2>4. BlockingOK'
    BY <1>1, <1>2, <1>4 DEF BlockingOK, Move, TypeOK
  <2>5. NoLostWakeup'
    <3>1. stopping' # {}
      BY <1>1, <1>4
    <3> QED BY <3>1 DEF NoLostWakeup
  <2> QED BY <1>3, <2>1, <2>3, <2>4, <2>5 DEF IInv
<1>5. CASE w \notin stopping /\ queue # <<>> /\ Grab(w)
  <2>1. /\ Tail(queue) \in Seq(AllTasks) /\ Head(queue) \in Elements(queue)
        /\ Elements(Tail(queue)) = Elements(queue) \ {Head(queue)}
        /\ Injective(Tail(queue)) /\ IsFiniteSet(Elements(Tail(queue)))
        /\ Cardinality(Elements(Tail(queue))) = Len(Tail(queue))
        /\ Len(queue) \in Nat /\ Len(Tail(queue)) = Len(queue) - 1
    BY <1>1, <1>5, TailOld DEF TypeOK, QueueOK
  <2>2. /\ queue' = Tail(queue) /\ mutex' = mutex
        /\ worker' = [worker EXCEPT ![w] = "running"]
        /\ job' = [job EXCEPT ![w] = Head(queue)]
    BY <1>5 DEF Grab, Move
  <2>3. Head(queue) \in AllTasks
    BY <1>1, <2>1 DEF Owned
  <2>4. TypeOK'
    BY <1>1, <2>1, <2>2, <2>3 DEF TypeOK, Places, flags
  <2>5. /\ \A v \in Workers : v # w => (Working(v)' <=> Working(v)) /\ job'[v] = job[v]
        /\ job'[w] = Head(queue)
    BY <1>1, <2>2 DEF Working, TypeOK
  <2>6. Owned' /\ Listed'
    <3>1. UNCHANGED <<tasks, exception, finished, main, created>>
      BY <1>1 DEF flags
    <3>2. Owned'
      BY <1>1, <2>1, <2>2, <2>5, <3>1 DEF Owned
    <3> QED BY <1>1, <2>1, <2>2, <2>5, <3>1, <3>2 DEF Listed
  <2>7. QueueOK'
    BY <2>1, <2>2 DEF QueueOK
  <2>8. BlockingOK'
    BY <1>1, <1>2, <2>2 DEF BlockingOK, TypeOK
  <2>9. NoLostWakeup'
    <3>1. Cardinality(At("awake")') = Cardinality(At("awake")) - 1
      BY <1>1, <2>2, AwakeLess DEF Move, TypeOK, Places
    <3>2. At("asleep")' = At("asleep")
      BY <1>1, <2>2 DEF At, TypeOK
    <3> QED BY <1>1, <2>1, <2>2, <3>1, <3>2, AwakeFinite DEF NoLostWakeup
  <2> QED BY <1>3, <2>4, <2>6, <2>7, <2>8, <2>9 DEF IInv
<1>6. CASE /\ w \notin stopping /\ queue = <<>> /\ mutex' = w
           /\ Move(w, "blocking") /\ UNCHANGED <<queue, job>>
  <2>1. TypeOK'
    BY <1>1, <1>6 DEF TypeOK, Move, Places, flags
  <2>2. \A v \in Workers : Working(v)' <=> Working(v)
    BY <1>1, <1>6 DEF Working, Move, TypeOK
  <2>3. Owned' /\ QueueOK' /\ Listed'
    BY <1>1, <1>6, <2>2 DEF Owned, QueueOK, Listed, flags
  <2>4. BlockingOK'
    BY <1>1, <1>2, <1>6 DEF BlockingOK, Move, TypeOK
  <2>5. NoLostWakeup'
    <3>1. Cardinality(At("awake")') = Cardinality(At("awake")) - 1
      BY <1>1, <1>6, AwakeLess DEF TypeOK, Places
    <3>2. w \in At("awake")
      BY <1>1 DEF At
    <3>3. Cardinality(At("awake")) # 0
      BY <3>2, AwakeFinite, FS_EmptySet
    <3>4. Len(queue') = 0
      BY <1>6
    <3> QED BY <3>1, <3>3, <3>4, AwakeFinite DEF NoLostWakeup
  <2> QED BY <1>3, <2>1, <2>3, <2>4, <2>5 DEF IInv
<1> QED BY <1>4, <1>5, <1>6 DEF Look

\* The queue is still empty when the worker falls asleep.
LEMMA SleepStep ==
    ASSUME IInv, NEW w \in Workers, Sleep(w)
    PROVE  IInv'
<1> USE DEF Sleep
<1>1. /\ TypeOK /\ Owned /\ QueueOK /\ BlockingOK /\ Listed /\ CallbacksOK
      /\ queue = <<>> /\ mutex = w
  BY DEF IInv, BlockingOK
<1>2. TypeOK'
  BY <1>1 DEF TypeOK, Move, Places, flags
<1>3. \A v \in Workers : Working(v)' <=> Working(v)
  BY <1>1 DEF Working, Move, TypeOK
<1>4. Owned' /\ QueueOK' /\ Listed' /\ CallbacksOK'
  BY <1>1, <1>3 DEF Owned, QueueOK, Listed, CallbacksOK, flags
<1>5. BlockingOK'
  BY <1>1 DEF BlockingOK, Move, TypeOK
<1>6. NoLostWakeup'
  <2>1. At("awake")' = At("awake") /\ Len(queue') = 0
    BY <1>1 DEF At, Move, TypeOK
  <2> QED BY <2>1, AwakeFinite DEF NoLostWakeup
<1> QED BY <1>2, <1>4, <1>5, <1>6 DEF IInv

\* A worker that wakes up, or is done with its task, looks at the queue again.
LEMMA BackStep ==
    ASSUME IInv, NEW w \in Workers, worker[w] \in {"asleep", "ending"}, Move(w, "awake"),
           UNCHANGED <<queue, mutex, stopping>>
    PROVE  /\ worker' \in [Workers -> Places]
           /\ \A v \in Workers : Working(v)' <=> Working(v) /\ v # w
           /\ QueueOK' /\ BlockingOK' /\ NoLostWakeup'
<1>1. TypeOK /\ QueueOK /\ BlockingOK /\ NoLostWakeup
  BY DEF IInv
<1>2. /\ worker' \in [Workers -> Places] /\ QueueOK' /\ BlockingOK'
      /\ \A v \in Workers : v # w => worker'[v] = worker[v]
      /\ worker'[w] = "awake"
  BY <1>1 DEF Move, TypeOK, Places, QueueOK, BlockingOK
<1>3. NoLostWakeup'
  <2>1. Cardinality(At("awake")') = Cardinality(At("awake")) + 1
    BY <1>1, AwakeMore DEF TypeOK
  <2>2. At("asleep")' \subseteq At("asleep")
    BY <1>2 DEF At
  <2>3. Len(queue) \in Nat
    BY <1>1 DEF TypeOK
  <2> QED BY <1>1, <2>1, <2>2, <2>3, AwakeFinite DEF NoLostWakeup
<1> QED BY <1>2, <1>3 DEF Working

LEMMA SpuriousStep ==
    ASSUME IInv, NEW w \in Workers, SpuriousWakeup(w)
    PROVE  IInv'
<1>1. /\ worker[w] = "asleep" /\ Move(w, "awake")
      /\ UNCHANGED <<tasks, queue, mutex, job, interrupt, exception, finished, callbacks,
                     stopping, main, created, waitsFor>>
  BY DEF SpuriousWakeup, flags
<1>2. /\ worker' \in [Workers -> Places]
      /\ \A v \in Workers : Working(v)' <=> Working(v)
      /\ QueueOK' /\ BlockingOK' /\ NoLostWakeup'
  BY <1>1, BackStep DEF Working
<1>3. TypeOK'
  BY <1>1, <1>2 DEF IInv, TypeOK
<1>4. Owned' /\ Listed' /\ CallbacksOK'
  BY <1>1, <1>2 DEF IInv, Owned, Listed, CallbacksOK
<1> QED BY <1>2, <1>3, <1>4 DEF IInv

\* The task that ends is not queued again, and nobody else has it.
LEMMA FinishStep ==
    ASSUME IInv, NEW w \in Workers, FinishTask(w)
    PROVE  IInv'
<1>1. /\ worker[w] = "ending" /\ Move(w, "awake")
      /\ job' = [job EXCEPT ![w] = NoTask] /\ finished' = finished \union {job[w]}
      /\ UNCHANGED <<tasks, queue, mutex, interrupt, exception, callbacks, stopping, main,
                     created, waitsFor>>
  BY DEF FinishTask, LetGo
<1>2. /\ worker' \in [Workers -> Places]
      /\ \A v \in Workers : Working(v)' <=> Working(v) /\ v # w
      /\ QueueOK' /\ BlockingOK' /\ NoLostWakeup'
  BY <1>1, BackStep
<1>3. TypeOK /\ Owned /\ Listed /\ CallbacksOK /\ Working(w)
  BY <1>1 DEF IInv, Working
<1>4. job[w] \in AllTasks /\ job[w] \in created \ (finished \union Elements(queue))
  BY <1>3 DEF Owned
<1>5. TypeOK'
  BY <1>1, <1>2, <1>3, <1>4 DEF TypeOK
<1>6. \A v \in Workers : Working(v)' => Working(v) /\ job'[v] = job[v] /\ job[v] # job[w]
  BY <1>1, <1>2, <1>3 DEF Owned, TypeOK
<1>7. Owned'
  BY <1>1, <1>3, <1>4, <1>6 DEF Owned
<1>8. Listed'
  BY <1>1, <1>3, <1>6 DEF Listed
<1>9. CallbacksOK'
  BY <1>1, <1>3 DEF CallbacksOK
<1> QED BY <1>2, <1>5, <1>7, <1>8, <1>9 DEF IInv

\* The task a worker leaves is neither finished nor, if it failed, unlisted.
LEMMA EndingStep ==
    ASSUME IInv, NEW w \in Workers, TaskReturns(w) \/ TaskThrows(w)
    PROVE  IInv'
<1>1. /\ worker[w] = "running" /\ Move(w, "ending")
      /\ exception' \in {exception, exception \union {job[w]}}
      /\ UNCHANGED <<tasks, queue, mutex, job, interrupt, finished, callbacks, stopping, main,
                     created, waitsFor>>
  BY DEF TaskReturns, TaskThrows, flags
<1>2. /\ TypeOK /\ Owned /\ QueueOK /\ BlockingOK /\ NoLostWakeup /\ Listed /\ CallbacksOK
      /\ Working(w)
  BY <1>1 DEF IInv, Working
<1>3. job[w] \in AllTasks \ finished /\ (main.at # "exited" => job[w] \in tasks)
  BY <1>2 DEF Owned, Listed
<1>4. TypeOK'
  BY <1>1, <1>2, <1>3 DEF TypeOK, Move, Places
<1>5. \A v \in Workers : Working(v)' <=> Working(v)
  BY <1>1, <1>2 DEF Working, Move, TypeOK
<1>6. Owned' /\ QueueOK'
  BY <1>1, <1>2, <1>5 DEF Owned, QueueOK
<1>7. BlockingOK'
  BY <1>1, <1>2 DEF BlockingOK, Move, TypeOK
<1>8. NoLostWakeup'
  <2>1. At("awake")' = At("awake") /\ At("asleep")' = At("asleep")
    BY <1>1, <1>2 DEF At, Move, TypeOK
  <2> QED BY <1>1, <1>2, <2>1 DEF NoLostWakeup
<1>9. Listed'
  BY <1>1, <1>2, <1>3, <1>5 DEF Listed
<1>10. CallbacksOK'
  BY <1>1, <1>2, <1>3 DEF CallbacksOK
<1> QED BY <1>4, <1>6, <1>7, <1>8, <1>9, <1>10 DEF IInv

LEMMA InterruptStep ==
    ASSUME IInv, NEW t \in AllTasks, UserInterrupts(t)
    PROVE  IInv'
<1>1. /\ interrupt' = interrupt \union {t}
      /\ UNCHANGED <<tasks, queue, pool, exception, finished, callbacks, stopping, main,
                     created, waitsFor>>
  BY DEF UserInterrupts
<1>2. TypeOK' /\ Listed' /\ CallbacksOK'
  BY <1>1 DEF IInv, TypeOK, Listed, CallbacksOK, Working, pool
<1> QED BY <1>1, <1>2, KeptPool DEF IInv

LEMMA ClearExceptionStep ==
    ASSUME IInv, NEW t \in AllTasks, ClearException(t)
    PROVE  IInv'
<1>1. /\ exception' = exception \ {t}
      /\ UNCHANGED <<tasks, queue, pool, interrupt, finished, callbacks, stopping, main,
                     created, waitsFor>>
  BY DEF ClearException
<1>2. TypeOK' /\ Listed' /\ CallbacksOK'
  BY <1>1 DEF IInv, TypeOK, Listed, CallbacksOK, Working, pool
<1> QED BY <1>1, <1>2, KeptPool DEF IInv

\* The new callback waits for the listed tasks, the others for what they did.
LEMMA RegisterStep ==
    ASSUME IInv, NEW f \in Callbacks, RunWhenTasksFinished(f)
    PROVE  IInv'
<1>1. /\ main.at = "frame" /\ f \notin {callbacks[i] : i \in DOMAIN callbacks}
      /\ interrupt' = interrupt \union tasks
      /\ callbacks' = Append(callbacks, f)
      /\ waitsFor' = [waitsFor EXCEPT ![f] = tasks]
      /\ UNCHANGED <<tasks, queue, pool, exception, finished, stopping, main, created>>
  BY DEF RunWhenTasksFinished
<1>2. TypeOK /\ Listed /\ CallbacksOK
  BY DEF IInv
<1>3. /\ callbacks' \in Seq(Callbacks) /\ Len(callbacks) \in Nat
      /\ DOMAIN callbacks = 1..Len(callbacks)
      /\ DOMAIN callbacks' = 1..(Len(callbacks) + 1)
      /\ callbacks'[Len(callbacks) + 1] = f
      /\ \A i \in 1..Len(callbacks) : callbacks'[i] = callbacks[i] /\ callbacks[i] \in Callbacks
  BY <1>1, <1>2 DEF TypeOK
<1>4. TypeOK'
  BY <1>1, <1>2, <1>3 DEF TypeOK, pool
<1>5. Listed'
  BY <1>1, <1>2 DEF Listed, Working, pool
<1>6. CallbacksOK'
  <2>1. ASSUME NEW i \in 1..(Len(callbacks) + 1)
        PROVE  waitsFor'[callbacks'[i]] \subseteq (finished \ exception) \union tasks
    <3>1. CASE i = Len(callbacks) + 1
      BY <1>1, <1>2, <1>3, <3>1 DEF TypeOK
    <3>2. CASE i \in 1..Len(callbacks)
      <4>1. waitsFor'[callbacks'[i]] = waitsFor[callbacks[i]]
        BY <1>1, <1>2, <1>3, <3>2 DEF TypeOK
      <4> QED BY <1>1, <1>2, <1>3, <3>2, <4>1 DEF CallbacksOK
    <3> QED BY <1>3, <3>1, <3>2
  <2> QED BY <1>1, <1>3, <2>1 DEF CallbacksOK
<1> QED BY <1>1, <1>4, <1>5, <1>6, KeptPool DEF IInv

\* What leaves the list has finished without an exception.
LEMMA CollectStep ==
    ASSUME IInv, CollectGarbage
    PROVE  IInv'
<1>1. /\ main.at = "frame" /\ tasks' = {t \in tasks : ~Collectable(t)}
      /\ main' = [at |-> "collected", next |-> 1]
      /\ UNCHANGED <<queue, pool, interrupt, exception, finished, callbacks, stopping, created,
                     waitsFor>>
  BY DEF CollectGarbage, MainGoes, flags
<1>2. TypeOK /\ Owned /\ Listed /\ CallbacksOK
  BY DEF IInv
<1>3. /\ tasks' \subseteq tasks
      /\ \A t \in tasks : t \in tasks' \/ t \in finished \ exception
      /\ \A t \in tasks : t \notin finished \/ t \in exception => t \in tasks'
  BY <1>1 DEF Collectable
<1>4. TypeOK'
  BY <1>1, <1>2, <1>3 DEF TypeOK, pool, MainPlaces
<1>5. Listed'
  BY <1>1, <1>2, <1>3 DEF Listed, Owned, Working, pool
<1>6. CallbacksOK'
  BY <1>1, <1>2, <1>3 DEF CallbacksOK
<1> QED BY <1>1, <1>4, <1>5, <1>6, KeptPool DEF IInv

\* If no task is listed, callbacks wait for none.
LEMMA CheckStep ==
    ASSUME IInv, CheckTasksFinished
    PROVE  IInv'
<1>1. /\ main.at = "collected"
      /\ main' = [at |-> IF tasks = {} /\ callbacks # <<>> THEN "calling" ELSE "frame",
                  next |-> 1]
      /\ UNCHANGED <<tasks, queue, pool, interrupt, exception, finished, callbacks, stopping,
                     created, waitsFor>>
  BY DEF CheckTasksFinished, MainGoes, AllDone, flags
<1>2. TypeOK /\ Listed /\ CallbacksOK
  BY DEF IInv
<1>3. TypeOK'
  BY <1>1, <1>2 DEF TypeOK, pool, MainPlaces
<1>4. Listed'
  BY <1>1, <1>2 DEF Listed, Working, pool
<1>5. CallbacksOK'
  <2>1. callbacks # <<>> => 1 \in DOMAIN callbacks
    BY <1>2 DEF TypeOK
  <2> QED BY <1>1, <1>2, <2>1 DEF CallbacksOK
<1> QED BY <1>1, <1>3, <1>4, <1>5, KeptPool DEF IInv

LEMMA ExitBeginStep ==
    ASSUME IInv, ExitInterrupt \/ \E w \in Workers : ExitRequestStop(w)
    PROVE  IInv'
<1>1. /\ main.at \in {"frame", "stop"} /\ main'.at \in {"stop", "notify"}
      /\ main' \in [at : MainPlaces, next : Nat]
      /\ interrupt' \in {interrupt, interrupt \union tasks}
      /\ stopping' \in SUBSET Workers /\ stopping \subseteq stopping'
      /\ UNCHANGED <<tasks, queue, pool, exception, finished, callbacks, created, waitsFor>>
  <2>1. TypeOK
    BY DEF IInv
  <2>2. CASE ExitInterrupt
    BY <2>1, <2>2 DEF ExitInterrupt, MainGoes, MainPlaces, TypeOK
  <2>3. CASE \E w \in Workers : ExitRequestStop(w)
    BY <2>1, <2>3 DEF ExitRequestStop, MainGoes, MainPlaces, TypeOK, flags
  <2> QED BY <2>2, <2>3
<1>2. TypeOK /\ Listed /\ CallbacksOK
  BY DEF IInv
<1>3. TypeOK'
  BY <1>1, <1>2 DEF TypeOK, pool
<1>4. Listed' /\ CallbacksOK'
  BY <1>1, <1>2 DEF Listed, CallbacksOK, Working, pool
<1> QED BY <1>1, <1>3, <1>4, KeptPool DEF IInv

\* Nobody sleeps after the notification.
LEMMA ExitNotifyStep ==
    ASSUME IInv, ExitNotify
    PROVE  IInv'
<1>1. /\ main.at = "notify" /\ main' = [at |-> "join", next |-> 1]
      /\ worker' = [w \in Workers |-> IF worker[w] = "asleep" THEN "awake" ELSE worker[w]]
      /\ UNCHANGED <<tasks, queue, mutex, job, interrupt, exception, finished, callbacks,
                     stopping, created, waitsFor>>
  BY DEF ExitNotify, WakeAll, MainGoes, flags
<1>2. /\ TypeOK /\ Owned /\ QueueOK /\ BlockingOK /\ Listed /\ CallbacksOK
  BY DEF IInv
<1>3. TypeOK'
  BY <1>1, <1>2 DEF TypeOK, Places, MainPlaces
<1>4. \A w \in Workers : Working(w)' <=> Working(w)
  BY <1>1 DEF Working
<1>5. Owned' /\ QueueOK' /\ Listed' /\ CallbacksOK'
  BY <1>1, <1>2, <1>4 DEF Owned, QueueOK, Listed, CallbacksOK
<1>6. BlockingOK'
  BY <1>1, <1>2 DEF BlockingOK
<1>7. NoLostWakeup'
  BY <1>1 DEF NoLostWakeup, At
<1> QED BY <1>3, <1>5, <1>6, <1>7 DEF IInv

\* All workers have stopped: the lists are emptied with nobody using them.
LEMMA ExitJoinStep ==
    ASSUME IInv, ExitJoin
    PROVE  IInv'
<1>1. /\ main' = [at |-> "exited", next |-> 1]
      /\ tasks' = {} /\ queue' = <<>> /\ callbacks' = <<>>
      /\ UNCHANGED <<pool, interrupt, exception, finished, stopping, created, waitsFor>>
  BY DEF ExitJoin, MainGoes, flags
<1>2. \A w \in Workers : worker'[w] = "stopped"
  BY <1>1 DEF ExitJoin, At, pool
<1>3. TypeOK /\ Owned
  BY DEF IInv
<1>4. TypeOK'
  BY <1>1, <1>3 DEF TypeOK, pool, MainPlaces
<1>5. Elements(<<>>) = {} /\ Injective(<<>>) /\ Len(<<>>) = 0
  BY DEF Elements, Injective
<1>6. Owned' /\ BlockingOK' /\ Listed' /\ CallbacksOK'
  BY <1>1, <1>2, <1>3, <1>5 DEF Owned, BlockingOK, Listed, CallbacksOK, Working
<1>7. QueueOK'
  BY <1>1, <1>5, FS_EmptySet DEF QueueOK
<1>8. NoLostWakeup'
  BY <1>2 DEF NoLostWakeup, At
<1> QED BY <1>4, <1>6, <1>7, <1>8 DEF IInv

LEMMA StepInv ==
    ASSUME IInv, [Next]_vars
    PROVE  IInv'
<1>1. CASE UNCHANGED vars
  <2>1. UNCHANGED <<tasks, queue, pool, flags, callbacks, stopping, main, created, waitsFor>>
    BY <1>1 DEF vars
  <2>2. TypeOK' /\ Listed' /\ CallbacksOK'
    BY <2>1 DEF IInv, TypeOK, Listed, CallbacksOK, Working, pool, flags
  <2> QED BY <2>1, <2>2, KeptPool DEF IInv, flags
<1>2. ASSUME NEW t \in Tasks, UserCreates(t) PROVE IInv'
  BY <1>2, JustCreateStep DEF UserCreates, AllTasks
<1>3. ASSUME NEW w \in Workers, NEW t \in Tasks, TaskCreates(w, t) PROVE IInv'
  BY <1>3, JustCreateStep DEF TaskCreates, AllTasks
<1>4. CASE UserStep
  BY <1>2, <1>4, InterruptStep, RegisterStep, ExitBeginStep DEF UserStep
<1>5. CASE FrameStep
  BY <1>5, CollectStep, CheckStep, CallCallbackStep DEF FrameStep
<1>6. CASE ExitStep
  BY <1>6, ExitBeginStep, ExitNotifyStep, ExitJoinStep DEF ExitStep
<1>7. ASSUME NEW w \in Workers, LoopStep(w) \/ JobStep(w) \/ SpuriousWakeup(w) PROVE IInv'
  BY <1>3, <1>7, LookStep, SleepStep, FinishStep, EndingStep, SpuriousStep DEF LoopStep, JobStep
<1> QED BY <1>1, <1>4, <1>5, <1>6, <1>7, ClearExceptionStep DEF Next

\* The inductive invariant holds in every reachable state.
THEOREM Invariance == Spec => []IInv
BY InitInv, StepInv, PTL DEF Spec

-----------------------------------------------------------------------------
(* The properties                                                          *)

\* Tasks, workers, callbacks and the main thread keep their types.
THEOREM TypeCorrect == Spec => []TypeOK
<1>1. IInv => TypeOK
  BY DEF IInv
<1> QED BY <1>1, Invariance, PTL

\* Creating a task never leaves it waiting beside workers that all sleep: there
\* are as many workers on the way to the queue as tasks in it.
THEOREM NeverLostWakeup == Spec => []NoLostWakeup
<1>1. IInv => NoLostWakeup
  BY DEF IInv
<1> QED BY <1>1, Invariance, PTL

\* No task is ever run by two workers, or run again.
THEOREM AlwaysOneOwner == Spec => []OneOwner
<1>1. IInv => OneOwner
  <2> SUFFICES ASSUME IInv PROVE OneOwner
    OBVIOUS
  <2>1. \A w \in At("running") \union At("ending") : w \in Workers /\ Working(w)
    BY DEF At, Working
  <2>2. Queued = Elements(queue)
    BY DEF Queued, Elements
  <2>3. \A t \in Held : t \notin finished \union Elements(queue)
    BY <2>1 DEF Held, IInv, Owned
  <2> QED BY <2>1, <2>2, <2>3 DEF OneOwner, IInv, Owned, QueueOK
<1> QED BY <1>1, Invariance, PTL

\* No task that is queued, runs, or failed unseen ever escapes the list.
THEOREM NeverUnlisted == Spec => []NoTaskUnlisted
<1>1. IInv => NoTaskUnlisted
  <2> SUFFICES ASSUME IInv, main.at # "exited"
               PROVE  Queued \union Held \union exception \subseteq tasks
    BY DEF NoTaskUnlisted
  <2>1. Queued = Elements(queue)
    BY DEF Queued, Elements
  <2>2. Held \subseteq tasks
    BY DEF Held, At, IInv, Listed, Working
  <2> QED BY <2>1, <2>2 DEF IInv, Listed
<1> QED BY <1>1, Invariance, PTL

\* A callback of runWhenTasksFinished always finds the tasks that were alive at
\* its registration finished, and their failures seen.
THEOREM CallbacksAlwaysAfterTasks == Spec => []CallbackAfterTasks
<1>1. IInv => CallbackAfterTasks
  BY DEF IInv, CallbacksOK, CallbackAfterTasks
<1> QED BY <1>1, Invariance, PTL

-----------------------------------------------------------------------------
(* The refinement of TaskLife                                              *)

\* The callbacks are called in order and registered once; where the main thread
\* calls none it is about to begin with the first; all workers have stopped
\* when exit() is over.
CallsOK ==
    /\ Injective(callbacks)
    /\ main.at # "calling" => main.next = 1
    /\ main.at = "exited" => \A w \in Workers : worker[w] = "stopped"

\* Every listed task is somewhere.
Placed == main.at # "exited" => tasks \subseteq Queued \union Held \union finished

LEMMA CallsInit == Init => CallsOK
BY DEF Init, CallsOK, Injective

LEMMA CallsStep ==
    ASSUME IInv, CallsOK, [Next]_vars
    PROVE  CallsOK'
<1>1. TypeOK
  BY DEF IInv
<1>2. CASE UNCHANGED vars
  BY <1>2 DEF vars, pool, CallsOK, Injective
<1>3. ASSUME NEW t \in AllTasks, CreateTask(t), main.at # "exited", UNCHANGED <<callbacks, main>>
      PROVE  CallsOK'
  BY <1>3 DEF CallsOK, Injective
<1>4. ASSUME NEW w \in Workers, LoopStep(w) \/ JobStep(w) \/ SpuriousWakeup(w)
      PROVE  CallsOK'
  <2>1. worker[w] # "stopped" /\ UNCHANGED <<callbacks, main>>
    BY <1>4 DEF LoopStep, JobStep, Look, Sleep, FinishTask, TaskReturns, TaskThrows,
                TaskCreates, SpuriousWakeup
  <2>2. main.at # "exited"
    BY <2>1 DEF CallsOK
  <2> QED BY <2>1, <2>2 DEF CallsOK, Injective
<1>5. ASSUME NEW t \in Tasks, UserCreates(t) PROVE CallsOK'
  BY <1>3, <1>5 DEF UserCreates, AllTasks
<1>6. ASSUME NEW t \in AllTasks, UserInterrupts(t) \/ ClearException(t) PROVE CallsOK'
  BY <1>6 DEF UserInterrupts, ClearException, CallsOK, Injective
<1>7. ASSUME NEW f \in Callbacks, RunWhenTasksFinished(f) PROVE CallsOK'
  <2>1. /\ main.at = "frame" /\ main' = main /\ f \notin Elements(callbacks)
        /\ callbacks' = Append(callbacks, f) /\ callbacks \in Seq(Callbacks)
    BY <1>1, <1>7 DEF RunWhenTasksFinished, Elements, TypeOK
  <2> DEFINE n == Len(callbacks)
  <2>2. n \in Nat /\ DOMAIN callbacks = 1..n /\ DOMAIN callbacks' = 1..(n + 1)
        /\ callbacks'[n + 1] = f
    BY <2>1
  <2>3. \A i \in 1..n : callbacks'[i] = callbacks[i]
    BY <2>1
  <2>4. Injective(callbacks')
    <3>1. Injective(callbacks)
      BY DEF CallsOK
    <3> HIDE DEF n
    <3> QED BY <2>1, <2>2, <2>3, <3>1, LongerElements
  <2> QED BY <2>1, <2>4 DEF CallsOK
<1>8. CASE CollectGarbage \/ CheckTasksFinished \/ ExitInterrupt \/ ExitNotify
           \/ \E w \in Workers : ExitRequestStop(w)
  BY <1>1, <1>8 DEF CollectGarbage, CheckTasksFinished, ExitInterrupt, ExitNotify,
                    ExitRequestStop, MainGoes, CallsOK, Injective
<1>9. CASE CallCallback
  <2>1. main.at = "calling"
    BY <1>9 DEF CallCallback
  <2>2. CASE main.next < Len(callbacks)
    BY <1>1, <1>9, <2>1, <2>2 DEF CallCallback, CallsOK, Injective, TypeOK
  <2>3. CASE ~(main.next < Len(callbacks))
    BY <1>9, <2>3 DEF CallCallback, MainGoes, Forget, CallsOK, Injective
  <2> QED BY <2>2, <2>3
<1>10. CASE ExitJoin
  BY <1>10 DEF ExitJoin, MainGoes, CallsOK, Injective, At, pool
<1> QED
  BY <1>2, <1>4, <1>5, <1>6, <1>7, <1>8, <1>9, <1>10
     DEF Next, UserStep, FrameStep, ExitStep

\* What the abstract variables are, place by place.
LEMMA MapIs ==
    /\ Queued = Elements(queue)
    /\ \A t : t \in Held <=> \E w \in Workers : Working(w) /\ job[w] = t
BY DEF Queued, Elements, Held, At, Working

\* The same after a step.
LEMMA MapIsNext ==
    /\ Queued' = Elements(queue')
    /\ \A t : t \in Held' <=> \E w \in Workers : Working(w)' /\ job'[w] = t
BY DEF Queued, Elements, Held, At, Working

\* Workers that move without taking or ending a task hold the same tasks.
LEMMA SameHeld ==
    ASSUME job' = job, \A w \in Workers : Working(w)' <=> Working(w)
    PROVE  Held' = Held
BY MapIs, MapIsNext

\* Nothing happens to the callbacks outside of their calls.
LEMMA SameRegistered ==
    ASSUME callbacks' = callbacks, main'.next = main.next
    PROVE  Registered' = Registered
BY DEF Registered

\* The initial state is one of TaskLife.
LEMMA LifeInit == Init => Life!Init
<1> SUFFICES ASSUME Init PROVE Life!Init
  OBVIOUS
<1>1. Queued = {} /\ Held = {} /\ Registered = {}
  BY DEF Init, Queued, Held, At, Registered
<1> QED BY <1>1 DEF Init, Life!Init

\* Creating a task is creating one; nobody has it and no callback is affected.
LEMMA LifeCreate ==
    ASSUME IInv, NEW t \in AllTasks, CreateTask(t), UNCHANGED <<job, finished>>,
           main.at # "exited"
    PROVE  Life!New(t) /\ Queued' = Queued \union {t} /\ Held' = Held
<1>1. TypeOK /\ Owned /\ QueueOK /\ t \notin created /\ queue' = Append(queue, t)
  BY DEF IInv, CreateTask
<1>2. t \notin Elements(queue) /\ t \notin finished /\ queue \in Seq(AllTasks)
  BY <1>1 DEF Owned, TypeOK
<1>3. t \notin Held
  BY <1>1, MapIs DEF Owned
<1>4. Life!New(t)
  BY <1>2, <1>3, MapIs DEF Life!New
<1>5. Queued' = Queued \union {t}
  BY <1>1, <1>2, AppendNew, MapIs, MapIsNext DEF QueueOK
<1>6. \A w \in Workers : Working(w)' <=> Working(w)
  BY <1>1 DEF CreateTask, NotifyOne, Move, At, Working, TypeOK
<1> QED BY <1>4, <1>5, <1>6, SameHeld

\* A worker that takes a task starts it; the other moves of a worker's loop
\* either end one or change nothing.
LEMMA LifeLook ==
    ASSUME IInv, NEW w \in Workers, Look(w)
    PROVE  Life!Next \/ UNCHANGED Life!vars
<1>1. /\ TypeOK /\ Owned /\ QueueOK /\ worker[w] = "awake"
      /\ UNCHANGED <<finished, exception, callbacks, waitsFor, main>>
  BY DEF IInv, Look, flags
<1>2. Registered' = Registered
  BY <1>1, SameRegistered
<1>3. CASE w \notin stopping /\ queue # <<>> /\ Grab(w)
  <2>1. /\ queue' = Tail(queue) /\ worker' = [worker EXCEPT ![w] = "running"]
        /\ job' = [job EXCEPT ![w] = Head(queue)]
    BY <1>3 DEF Grab, Move
  <2>2. /\ Head(queue) \in Elements(queue)
        /\ Elements(Tail(queue)) = Elements(queue) \ {Head(queue)}
    BY <1>1, <1>3, TailOld DEF TypeOK, QueueOK
  <2>3. \A v \in Workers : IF v = w THEN ~Working(v) /\ Working(v)' /\ job'[v] = Head(queue)
                           ELSE (Working(v)' <=> Working(v)) /\ job'[v] = job[v]
    BY <1>1, <2>1 DEF Working, TypeOK
  <2>4. Held' = Held \union {Head(queue)}
    BY <2>3, MapIs, MapIsNext
  <2>5. Queued' = Queued \ {Head(queue)} /\ Head(queue) \in Queued
    BY <2>1, <2>2, MapIs, MapIsNext
  <2>6. Head(queue) \in Tasks \union Callbacks
    BY <1>1, <2>2 DEF Owned, AllTasks
  <2>7. Life!Start(Head(queue))
    BY <1>1, <1>2, <2>4, <2>5 DEF Life!Start
  <2> QED BY <2>6, <2>7 DEF Life!Next
<1>4. CASE /\ UNCHANGED <<queue, job>>
           /\ \E place \in {"stopped", "blocking"} : Move(w, place)
  <2>1. Queued' = Queued
    BY <1>4 DEF Queued
  <2>2. \A v \in Workers : Working(v)' <=> Working(v)
    BY <1>1, <1>4 DEF Working, Move, TypeOK
  <2>3. Held' = Held
    BY <1>4, <2>2, SameHeld
  <2> QED BY <1>1, <1>2, <2>1, <2>3 DEF Life!vars
<1> QED BY <1>3, <1>4 DEF Look

LEMMA LifeFinish ==
    ASSUME IInv, NEW w \in Workers, FinishTask(w)
    PROVE  Life!Next
<1>1. /\ TypeOK /\ Owned /\ worker[w] = "ending" /\ Move(w, "awake")
      /\ job' = [job EXCEPT ![w] = NoTask] /\ finished' = finished \union {job[w]}
      /\ UNCHANGED <<queue, exception, callbacks, waitsFor, main>>
  BY DEF IInv, FinishTask, LetGo
<1>2. \A v \in Workers : IF v = w THEN Working(v) /\ ~Working(v)'
                         ELSE (Working(v)' <=> Working(v)) /\ job'[v] = job[v]
  BY <1>1 DEF Working, Move, TypeOK
<1>3. \A v \in Workers : v # w /\ Working(v) => job[v] # job[w]
  BY <1>1, <1>2 DEF Owned
<1>4. Held' = Held \ {job[w]} /\ job[w] \in Held
  BY <1>2, <1>3, MapIs, MapIsNext
<1>5. Queued' = Queued /\ Registered' = Registered
  BY <1>1, SameRegistered DEF Queued
<1>6. job[w] \in Tasks \union Callbacks
  BY <1>1, <1>2 DEF Owned, AllTasks
<1>7. Life!End(job[w])
  BY <1>1, <1>4, <1>5 DEF Life!End
<1> QED BY <1>6, <1>7 DEF Life!Next

LEMMA LifeEnding ==
    ASSUME IInv, NEW w \in Workers, TaskReturns(w) \/ TaskThrows(w)
    PROVE  Life!Next \/ UNCHANGED Life!vars
<1>1. /\ TypeOK /\ Owned /\ worker[w] = "running" /\ Move(w, "ending")
      /\ exception' \in {exception, exception \union {job[w]}}
      /\ UNCHANGED <<queue, job, finished, callbacks, waitsFor, main>>
  BY DEF IInv, TaskReturns, TaskThrows, flags
<1>2. \A v \in Workers : Working(v)' <=> Working(v)
  BY <1>1 DEF Working, Move, TypeOK
<1>3. Queued' = Queued /\ Held' = Held /\ Registered' = Registered
  BY <1>1, <1>2, SameHeld, SameRegistered DEF Queued
<1>4. job[w] \in Held /\ job[w] \in Tasks \union Callbacks
  BY <1>1, MapIs DEF Owned, AllTasks, Working
<1>5. CASE exception' = exception
  BY <1>1, <1>3, <1>5 DEF Life!vars
<1>6. CASE exception' = exception \union {job[w]}
  <2>1. Life!Fail(job[w])
    BY <1>1, <1>3, <1>4, <1>6 DEF Life!Fail
  <2> QED BY <1>4, <2>1 DEF Life!Next
<1> QED BY <1>1, <1>5, <1>6

\* The callback waits at least for everything that is alive: NoTaskUnlisted.
LEMMA LifeRegister ==
    ASSUME IInv, CallsOK, Placed, NEW f \in Callbacks, RunWhenTasksFinished(f)
    PROVE  Life!Next
<1>1. /\ main.at = "frame" /\ main' = main /\ f \notin Elements(callbacks)
      /\ callbacks' = Append(callbacks, f) /\ waitsFor' = [waitsFor EXCEPT ![f] = tasks]
      /\ UNCHANGED <<queue, worker, job, exception, finished>>
  BY DEF RunWhenTasksFinished, Elements, pool
<1>2. callbacks \in Seq(Callbacks) /\ main.next = 1
  BY <1>1 DEF IInv, TypeOK, CallsOK
<1>3. Queued' = Queued /\ Held' = Held
  BY <1>1 DEF Queued, Held, At
<1>4. Registered = Elements(callbacks) /\ Registered' = Elements(callbacks')
  BY <1>1, <1>2 DEF Registered, Elements
<1>5. Elements(callbacks') = Elements(callbacks) \union {f}
  <2> DEFINE n == Len(callbacks)
  <2>1. n \in Nat /\ DOMAIN callbacks = 1..n /\ DOMAIN callbacks' = 1..(n + 1)
        /\ callbacks'[n + 1] = f
    BY <1>1, <1>2
  <2>2. \A i \in 1..n : callbacks'[i] = callbacks[i]
    BY <1>1, <1>2
  <2> HIDE DEF n
  <2> QED BY <2>1, <2>2, LongerElements
<1>6. /\ tasks \in SUBSET (Queued \union Held \union exception \union finished)
      /\ Queued \union Held \union exception \subseteq tasks
  BY <1>1, MapIs DEF Placed, IInv, Listed
<1>7. Life!Register(f)
  BY <1>1, <1>3, <1>4, <1>5, <1>6 DEF Life!Register, Life!Alive
<1> QED BY <1>7 DEF Life!Next

\* Calling one callback after the other is calling each of them once.
LEMMA LifeCall ==
    ASSUME IInv, CallsOK, CallCallback
    PROVE  Life!Next
<1> DEFINE f == callbacks[main.next]
           n == Len(callbacks)
<1>1. /\ main.at = "calling" /\ CreateTask(f)
      /\ UNCHANGED <<job, exception, finished, waitsFor>>
      /\ IF main.next < n
         THEN main' = [main EXCEPT !.next = @ + 1] /\ UNCHANGED callbacks
         ELSE main' = [at |-> "frame", next |-> 1] /\ callbacks' = <<>>
  BY DEF CallCallback, MainGoes, Forget, flags
<1>2. /\ main \in [at : MainPlaces, next : Nat] /\ callbacks \in Seq(Callbacks)
      /\ main.next \in DOMAIN callbacks /\ Injective(callbacks)
      /\ waitsFor[f] \subseteq finished \ exception
  BY <1>1 DEF IInv, TypeOK, CallbacksOK, CallsOK
<1>3. n \in Nat /\ main.next \in 1..n /\ f \in Callbacks
  BY <1>2
<1>4. \A i, j \in 1..n : callbacks[i] = callbacks[j] => i = j
  BY <1>2 DEF Injective
<1>5. Life!New(f) /\ Queued' = Queued \union {f} /\ Held' = Held
  BY <1>1, <1>3, LifeCreate DEF AllTasks
<1>6. main'.at # "exited"
  BY <1>1, <1>2
<1>7. f \in Registered /\ Registered' = Registered \ {f}
  <2>1. Registered = {callbacks[i] : i \in main.next .. n}
    BY DEF Registered
  <2>2. CASE main.next < n
    <3>1. Registered' = {callbacks[i] : i \in (main.next + 1) .. n}
      BY <1>1, <1>2, <2>2 DEF Registered
    <3>2. main.next .. n = {main.next} \union ((main.next + 1) .. n)
      BY <1>3
    <3>3. \A i \in (main.next + 1) .. n : callbacks[i] # f
      BY <1>3, <1>4
    <3> HIDE DEF n
    <3> QED BY <2>1, <3>1, <3>2, <3>3
  <2>3. CASE ~(main.next < n)
    <3>1. main.next .. n = {main.next}
      BY <1>3, <2>3
    <3>2. Registered' = {}
      BY <1>1, <2>3 DEF Registered
    <3> QED BY <2>1, <3>1, <3>2
  <2> QED BY <2>2, <2>3
<1>8. Life!Call(f)
  BY <1>1, <1>2, <1>5, <1>6, <1>7 DEF Life!Call
<1> QED BY <1>3, <1>8 DEF Life!Next

LEMMA LifeJoin ==
    ASSUME IInv, CallsOK, ExitJoin
    PROVE  Life!Next
<1>1. /\ main.at = "join" /\ main' = [at |-> "exited", next |-> 1]
      /\ queue' = <<>> /\ callbacks' = <<>>
      /\ \A w \in Workers : worker[w] = "stopped"
      /\ UNCHANGED <<worker, job, exception, finished, waitsFor>>
  BY DEF ExitJoin, MainGoes, At, pool, flags
<1>2. Held = {} /\ Held' = {}
  BY <1>1, MapIs, MapIsNext DEF Working
<1>3. Queued' = {} /\ Registered' = {}
  BY <1>1 DEF Queued, Registered
<1>4. Life!ShutDown
  BY <1>1, <1>2, <1>3 DEF Life!ShutDown
<1> QED BY <1>4 DEF Life!Next

\* Every step is one of TaskLife or changes nothing there.
LEMMA LifeStep ==
    ASSUME IInv, CallsOK, Placed, [Next]_vars
    PROVE  Life!Next \/ UNCHANGED Life!vars
<1>1. ASSUME UNCHANGED <<queue, worker, job, exception, finished, callbacks, waitsFor>>,
             main'.next = main.next, main'.at = "exited" <=> main.at = "exited"
      PROVE  UNCHANGED Life!vars
  <2>1. Queued' = Queued /\ Held' = Held /\ Registered' = Registered
    BY <1>1, SameRegistered DEF Queued, Held, At
  <2> QED BY <1>1, <2>1 DEF Life!vars
<1>2. CASE UNCHANGED vars
  BY <1>1, <1>2 DEF vars, pool, flags
<1>3. ASSUME NEW t \in Tasks, CreateTask(t), main.at # "exited",
             UNCHANGED <<job, exception, finished, callbacks, waitsFor, main>>
      PROVE  Life!Next
  <2>1. Life!New(t) /\ Queued' = Queued \union {t} /\ Held' = Held
    BY <1>3, LifeCreate DEF AllTasks
  <2>2. Registered' = Registered
    BY <1>3, SameRegistered
  <2>3. Life!Create(t)
    BY <1>3, <2>1, <2>2 DEF Life!Create
  <2> QED BY <2>3 DEF Life!Next
<1>4. ASSUME NEW t \in Tasks, UserCreates(t) PROVE Life!Next
  BY <1>3, <1>4 DEF UserCreates, flags
<1>5. ASSUME NEW w \in Workers, NEW t \in Tasks, TaskCreates(w, t) PROVE Life!Next
  <2>1. main.at # "exited"
    BY <1>5 DEF TaskCreates, CallsOK
  <2> QED BY <1>3, <1>5, <2>1 DEF TaskCreates, flags
<1>6. ASSUME NEW t \in AllTasks, UserInterrupts(t) PROVE UNCHANGED Life!vars
  BY <1>1, <1>6 DEF UserInterrupts, pool
<1>7. ASSUME NEW t \in AllTasks, ClearException(t) PROVE Life!Next
  <2>1. /\ t \in exception /\ exception' = exception \ {t}
        /\ UNCHANGED <<queue, worker, job, finished, callbacks, waitsFor, main>>
    BY <1>7 DEF ClearException, pool
  <2>2. Queued' = Queued /\ Held' = Held /\ Registered' = Registered
    BY <2>1, SameRegistered DEF Queued, Held, At
  <2>3. Life!See(t)
    BY <2>1, <2>2 DEF Life!See
  <2> QED BY <2>3 DEF Life!Next, AllTasks
<1>8. CASE CollectGarbage \/ CheckTasksFinished \/ ExitInterrupt
           \/ \E w \in Workers : ExitRequestStop(w)
  <2>1. TypeOK
    BY DEF IInv
  <2> QED
    BY <1>1, <1>8, <2>1 DEF CollectGarbage, CheckTasksFinished, ExitInterrupt, ExitRequestStop,
                    MainGoes, CallsOK, pool, flags
<1>9. CASE ExitNotify
  <2>1. /\ \A w \in Workers : Working(w)' <=> Working(w)
        /\ UNCHANGED <<queue, job, exception, finished, callbacks, waitsFor>>
        /\ main.at = "notify" /\ main' = [at |-> "join", next |-> 1] /\ main.next = 1
    BY <1>9 DEF ExitNotify, WakeAll, MainGoes, Working, CallsOK, flags
  <2>2. Queued' = Queued /\ Held' = Held /\ Registered' = Registered
    BY <2>1, SameHeld, SameRegistered DEF Queued
  <2> QED BY <2>1, <2>2 DEF Life!vars
<1>10. ASSUME NEW w \in Workers, Sleep(w) \/ SpuriousWakeup(w) PROVE UNCHANGED Life!vars
  <2>1. /\ \A v \in Workers : Working(v)' <=> Working(v)
        /\ UNCHANGED <<queue, job, exception, finished, callbacks, waitsFor, main>>
    BY <1>10 DEF Sleep, SpuriousWakeup, Move, Working, IInv, TypeOK, flags
  <2>2. Queued' = Queued /\ Held' = Held /\ Registered' = Registered
    BY <2>1, SameHeld, SameRegistered DEF Queued
  <2> QED BY <2>1, <2>2 DEF Life!vars
<1>11. ASSUME NEW w \in Workers, LoopStep(w) \/ JobStep(w) \/ SpuriousWakeup(w)
       PROVE  Life!Next \/ UNCHANGED Life!vars
  BY <1>5, <1>10, <1>11, LifeLook, LifeFinish, LifeEnding DEF LoopStep, JobStep
<1> QED
  BY <1>2, <1>4, <1>6, <1>7, <1>8, <1>9, <1>11, LifeRegister, LifeCall, LifeJoin
     DEF Next, UserStep, FrameStep, ExitStep

\* No step of TaskLife but the last loses a task.
LEMMA LifeKeeps ==
    ASSUME Life!Next \/ UNCHANGED Life!vars, main'.at # "exited"
    PROVE  Queued \union Held \union finished \subseteq Queued' \union Held' \union finished'
BY DEF Life!Next, Life!vars, Life!Create, Life!Start, Life!Fail, Life!End, Life!See,
       Life!Register, Life!Call, Life!ShutDown

\* A listed task that was not listed before was created in this step.
LEMMA ListGrows ==
    ASSUME IInv, [Next]_vars
    PROVE  /\ tasks' \subseteq tasks \union Queued'
           /\ main.at = "exited" => main'.at = "exited"
<1>1. ASSUME NEW t \in AllTasks, CreateTask(t) PROVE tasks' \subseteq tasks \union Queued'
  <2>1. queue \in Seq(AllTasks) /\ queue' = Append(queue, t) /\ tasks' = tasks \union {t}
    BY <1>1 DEF CreateTask, IInv, TypeOK
  <2>2. Len(queue) + 1 \in DOMAIN queue' /\ queue'[Len(queue) + 1] = t
    BY <2>1
  <2> QED BY <2>1, <2>2 DEF Queued
<1>2. CASE CallCallback
  <2>1. callbacks[main.next] \in AllTasks
    BY <1>2 DEF CallCallback, IInv, TypeOK, CallbacksOK, AllTasks
  <2> QED BY <1>1, <1>2, <2>1 DEF CallCallback
<1>3. CASE UNCHANGED vars \/ CollectGarbage \/ CheckTasksFinished \/ ExitStep
  BY <1>3 DEF vars, CollectGarbage, CheckTasksFinished, ExitStep, ExitRequestStop, ExitNotify,
              ExitJoin, MainGoes
<1>4. CASE UserStep \/ \E t \in AllTasks : ClearException(t)
  BY <1>1, <1>4 DEF UserStep, UserCreates, UserInterrupts, RunWhenTasksFinished, ExitInterrupt,
                    ClearException, AllTasks
<1>5. ASSUME NEW w \in Workers, LoopStep(w) \/ JobStep(w) \/ SpuriousWakeup(w)
      PROVE  /\ tasks' \subseteq tasks \union Queued'
             /\ main.at = "exited" => main'.at = "exited"
  BY <1>1, <1>5 DEF LoopStep, JobStep, Look, Sleep, FinishTask, TaskReturns, TaskThrows,
                    TaskCreates, SpuriousWakeup, AllTasks
<1> QED BY <1>2, <1>3, <1>4, <1>5 DEF Next, FrameStep

\* Nothing listed gets lost.
LEMMA PlacedStep ==
    ASSUME IInv, CallsOK, Placed, [Next]_vars
    PROVE  Placed'
<1> SUFFICES ASSUME main'.at # "exited"
             PROVE  tasks' \subseteq Queued' \union Held' \union finished'
  BY DEF Placed
<1>1. tasks \subseteq Queued \union Held \union finished
  BY ListGrows DEF Placed
<1>2. Queued \union Held \union finished \subseteq Queued' \union Held' \union finished'
  BY LifeStep, LifeKeeps
<1> QED BY <1>1, <1>2, ListGrows

\* TaskManager implements TaskLife, for any tasks, callbacks and workers: tasks
\* are started and end once, callbacks are called once and after what they wait
\* for, and nothing is dropped before the workers have stopped.
THEOREM Refinement == Spec => ImplementsLife
<1>1. Init => CallsOK /\ Placed
  BY CallsInit DEF Init, Placed
<1>2. IInv /\ CallsOK /\ Placed /\ [Next]_vars => CallsOK' /\ Placed'
  BY CallsStep, PlacedStep
<1>3. Spec => [](IInv /\ CallsOK /\ Placed)
  BY <1>1, <1>2, Invariance, PTL DEF Spec
<1>4. IInv /\ CallsOK /\ Placed /\ [Next]_vars => [Life!Next]_Life!vars
  BY LifeStep
<1> QED BY <1>3, <1>4, LifeInit, PTL DEF Spec, ImplementsLife, Life!Spec
=============================================================================
