--------------------------- MODULE UndoStack_proofs ---------------------------
(***************************************************************************)
(* Proofs about UndoStack: that undo and redo lead through the contents    *)
(* there have been, and that the highlights are the changes.               *)
(*                                                                         *)
(* What the model defines by recursion is characterised first by the data  *)
(* it leads through.  An applied entry is then reversible: its parts lead  *)
(* from the content before it to the one after it, and undoing it leads    *)
(* back.  The buffer is on its line when that is so of all entries on both *)
(* stacks; every call keeps it there.                                      *)
(***************************************************************************)
EXTENDS UndoStack, Iteration

\* What the variables of the model hold
Content == Seq(Bytes)
Op == {op \in Operation : IsOperation(op)}
Entry == Seq(Op)
Values == UNION {[D -> Bytes] : D \in SUBSET Nat}
Buffer == [data : Content, applied : Seq(Entry), undone : Seq(Entry), first : Values]
Call ==
    [do : {"write"}, at : Nat, bytes : Content]
        \union [do : {"insert", "remove"}, at : Nat, size : Nat]
        \union [do : {"group"}, count : Nat]
        \union [do : {"undo", "redo"}]
\* All calls but those that write more than a byte
Small == {call \in Call : call.do = "write" => Len(call.bytes) = 1}

-----------------------------------------------------------------------------
(* The start of a sequence                                                 *)

\* t is the start of s.
StartOf(t, s, n) == Len(t) = n /\ \A i \in 1 .. n : t[i] = s[i]

\* SubSeq from 1 is the start of a sequence, of any length up to its own.
LEMMA StartIs ==
    ASSUME NEW S, NEW s \in Seq(S), NEW n \in 0 .. Len(s)
    PROVE  SubSeq(s, 1, n) \in Seq(S) /\ StartOf(SubSeq(s, 1, n), s, n)
<1>1. /\ \A i \in 1 .. n : i \in 1 .. Len(s)
      /\ n \in Int /\ n - 1 + 1 = n /\ \A i \in 1 .. n : 1 + i - 1 = i
      /\ (IF 1 <= n THEN n - 1 + 1 ELSE 0) = n
  OBVIOUS
<1>2. \A i \in 1 .. n : s[i] \in S
  BY <1>1, ElementOfSeq
<1>3. /\ SubSeq(s, 1, n) \in Seq(S)
      /\ Len(SubSeq(s, 1, n)) = IF 1 <= n THEN n - 1 + 1 ELSE 0
      /\ \A i \in 1 .. n - 1 + 1 : SubSeq(s, 1, n)[i] = s[1 + i - 1]
  BY <1>1, <1>2, SubSeqProperties
<1> QED BY <1>1, <1>3 DEF StartOf

-----------------------------------------------------------------------------
(* The data                                                                *)

\* What the contents are that are read, written to, inserted to and removed from.
IsRead(r, d, a, n, was) ==
    /\ Len(r) = n
    /\ a + n <= Len(d) => \A i \in 1 .. n : r[i] = d[a + i]
    /\ a + n > Len(d) => r = was
IsWritten(w, d, a, b) ==
    /\ Len(w) = Len(d)
    /\ a + Len(b) > Len(d) => w = d
    /\ a + Len(b) <= Len(d) => \A i \in 1 .. Len(d) :
          w[i] = IF i \in a + 1 .. a + Len(b) THEN b[i - a] ELSE d[i]
IsInserted(w, d, a, n) ==
    /\ Len(w) = Len(d) + n
    /\ a <= Len(d) => \A i \in 1 .. Len(d) + n :
          w[i] = IF i <= a THEN d[i] ELSE IF i <= a + n THEN 0 ELSE d[i - n]
IsRemoved(w, d, a, n) ==
    a + n <= Len(d) =>
        /\ Len(w) = Len(d) - n
        /\ \A i \in 1 .. Len(d) - n : w[i] = IF i <= a THEN d[i] ELSE d[i + n]

\* Zeros(n) are n bytes, all of them 0.
LEMMA ZerosType ==
    ASSUME NEW n \in Nat
    PROVE  Zeros(n) \in Content /\ Len(Zeros(n)) = n /\ \A i \in 1 .. n : Zeros(n)[i] = 0
<1>1. Zeros(n) \in [1 .. n -> Bytes]
  BY UndoAssumption DEF Zeros
<1>2. \A i \in 1 .. n : Zeros(n)[i] = 0
  BY DEF Zeros
<1> QED BY <1>1, <1>2, SeqOfFunction DEF Content

\* Upto is the start of the data, all of it if the address lies behind its end.
LEMMA UptoType ==
    ASSUME NEW d \in Content, NEW a \in Nat
    PROVE  /\ Upto(d, a) \in Content
           /\ Len(Upto(d, a)) = IF a < Len(d) THEN a ELSE Len(d)
           /\ \A i \in 1 .. Len(Upto(d, a)) : Upto(d, a)[i] = d[i]
<1> DEFINE n == IF a < Len(d) THEN a ELSE Len(d)
<1>1. n \in 0 .. Len(d) /\ Len(d) \in Nat
  BY DEF Content
<1> HIDE DEF n
<1>2. SubSeq(d, 1, n) \in Seq(Bytes) /\ StartOf(SubSeq(d, 1, n), d, n)
  BY <1>1, StartIs DEF Content
<1> QED BY <1>2 DEF Upto, Content, StartOf, n

\* From is the end of the data, nothing if the address lies behind it.
LEMMA FromType ==
    ASSUME NEW d \in Content, NEW a \in Nat
    PROVE  /\ From(d, a) \in Content
           /\ Len(From(d, a)) = IF a < Len(d) THEN Len(d) - a ELSE 0
           /\ \A i \in 1 .. Len(From(d, a)) : From(d, a)[i] = d[a + i]
<1>1. Len(d) \in Nat
  BY DEF Content
<1>2. \A i \in a + 1 .. Len(d) : d[i] \in Bytes
  <2> TAKE i \in a + 1 .. Len(d)
  <2>1. i \in 1 .. Len(d)
    BY <1>1
  <2> QED BY <2>1, ElementOfSeq DEF Content
<1>3. /\ SubSeq(d, a + 1, Len(d)) \in Seq(Bytes)
      /\ Len(SubSeq(d, a + 1, Len(d))) = IF a + 1 <= Len(d) THEN Len(d) - (a + 1) + 1 ELSE 0
      /\ \A i \in 1 .. Len(d) - (a + 1) + 1 : SubSeq(d, a + 1, Len(d))[i] = d[a + 1 + i - 1]
  BY <1>1, <1>2, SubSeqProperties
<1>4. Len(From(d, a)) = IF a < Len(d) THEN Len(d) - a ELSE 0
  BY <1>1, <1>3 DEF From
<1>5. ASSUME NEW i \in 1 .. Len(From(d, a)) PROVE From(d, a)[i] = d[a + i]
  <2>1. i \in 1 .. Len(d) - (a + 1) + 1 /\ a + 1 + i - 1 = a + i
    BY <1>1, <1>4
  <2> QED BY <1>3, <2>1 DEF From
<1> QED BY <1>3, <1>4, <1>5 DEF From, Content

\* Reading returns the bytes at the address or, past the end, what was given to it.
LEMMA ReadRawType ==
    ASSUME NEW d \in Content, NEW a \in Nat, NEW n \in Nat, NEW was \in Content, Len(was) = n
    PROVE  ReadRaw(d, a, n, was) \in Content /\ IsRead(ReadRaw(d, a, n, was), d, a, n, was)
<1>1. CASE a + n > Len(d)
  BY <1>1 DEF ReadRaw, IsRead, Content
<1>2. CASE ~(a + n > Len(d))
  <2>1. Len(d) \in Nat /\ a + n \in Nat /\ a + n <= Len(d)
    BY <1>2 DEF Content
  <2> PICK u \in Content : u = Upto(d, a + n)
    BY <2>1, UptoType
  <2>2. Len(u) = a + n /\ \A i \in 1 .. a + n : u[i] = d[i]
    BY <2>1, UptoType
  <2> PICK r \in Content : r = From(u, a)
    BY FromType
  <2>3. Len(r) = n /\ \A i \in 1 .. n : r[i] = u[a + i]
    <3>1. /\ Len(r) = IF a < Len(u) THEN Len(u) - a ELSE 0
          /\ \A i \in 1 .. Len(r) : r[i] = u[a + i]
      BY FromType
    <3>2. Len(r) = n
      BY <2>2, <3>1
    <3> QED BY <3>1, <3>2
  <2>4. \A i \in 1 .. n : r[i] = d[a + i]
    BY <2>1, <2>2, <2>3
  <2> QED BY <1>2, <2>1, <2>3, <2>4 DEF ReadRaw, IsRead
<1> QED BY <1>1, <1>2

\* Writing changes the bytes at the address only and, past the end, nothing.
LEMMA WriteRawType ==
    ASSUME NEW d \in Content, NEW a \in Nat, NEW b \in Content
    PROVE  WriteRaw(d, a, b) \in Content /\ IsWritten(WriteRaw(d, a, b), d, a, b)
<1>1. Len(d) \in Nat /\ Len(b) \in Nat /\ DOMAIN d = 1 .. Len(d)
  BY DEF Content
<1>2. CASE a + Len(b) > Len(d)
  BY <1>1, <1>2 DEF WriteRaw, IsWritten
<1>3. CASE ~(a + Len(b) > Len(d))
  <2> DEFINE w == [i \in 1 .. Len(d) |-> IF i \in a + 1 .. a + Len(b) THEN b[i - a] ELSE d[i]]
  <2>1. WriteRaw(d, a, b) = w
    BY <1>1, <1>3 DEF WriteRaw
  <2>2. ASSUME NEW i \in 1 .. Len(d) PROVE w[i] \in Bytes
    <3>1. CASE i \in a + 1 .. a + Len(b)
      <4>1. i - a \in 1 .. Len(b)
        BY <1>1, <3>1
      <4> QED BY <3>1, <4>1, ElementOfSeq DEF Content
    <3>2. CASE i \notin a + 1 .. a + Len(b)
      BY <3>2, ElementOfSeq DEF Content
    <3> QED BY <3>1, <3>2
  <2>3. w \in [1 .. Len(d) -> Bytes]
    BY <2>2
  <2>4. \A i \in 1 .. Len(d) : w[i] = IF i \in a + 1 .. a + Len(b) THEN b[i - a] ELSE d[i]
    OBVIOUS
  <2> HIDE DEF w
  <2>5. w \in Seq(Bytes) /\ Len(w) = Len(d)
    BY <1>1, <2>3, SeqOfFunction
  <2> QED BY <1>1, <1>3, <2>1, <2>4, <2>5 DEF Content, IsWritten
<1> QED BY <1>2, <1>3

\* Inserting moves what follows the address behind the zeros it adds.
LEMMA InsertRawType ==
    ASSUME NEW d \in Content, NEW a \in Nat, NEW n \in Nat
    PROVE  InsertRaw(d, a, n) \in Content /\ IsInserted(InsertRaw(d, a, n), d, a, n)
<1> PICK u \in Content : u = Upto(d, a)
  BY UptoType
<1> PICK z \in Content : z = Zeros(n)
  BY ZerosType
<1> PICK f \in Content : f = From(d, a)
  BY FromType
<1>1. Len(d) \in Nat
  BY DEF Content
<1>2. Len(u) = (IF a < Len(d) THEN a ELSE Len(d)) /\ \A i \in 1 .. Len(u) : u[i] = d[i]
  BY UptoType
<1>3. Len(z) = n /\ \A i \in 1 .. n : z[i] = 0
  BY ZerosType
<1>4. Len(f) = (IF a < Len(d) THEN Len(d) - a ELSE 0) /\ \A i \in 1 .. Len(f) : f[i] = d[a + i]
  BY FromType
<1> PICK uz \in Content : uz = u \o z
  BY ConcatProperties DEF Content
<1>5. /\ Len(uz) = Len(u) + n
      /\ \A i \in 1 .. Len(u) + n : uz[i] = IF i <= Len(u) THEN u[i] ELSE z[i - Len(u)]
  BY <1>3, ConcatProperties DEF Content
<1> PICK r \in Content : r = uz \o f
  BY ConcatProperties DEF Content
<1>6. /\ Len(r) = Len(uz) + Len(f)
      /\ \A i \in 1 .. Len(uz) + Len(f) : r[i] = IF i <= Len(uz) THEN uz[i] ELSE f[i - Len(uz)]
  BY ConcatProperties DEF Content
<1>7. InsertRaw(d, a, n) = r
  BY DEF InsertRaw
<1>8. Len(r) = Len(d) + n
  BY <1>1, <1>2, <1>4, <1>5, <1>6
<1>9. ASSUME a <= Len(d), NEW i \in 1 .. Len(d) + n
      PROVE  r[i] = IF i <= a THEN d[i] ELSE IF i <= a + n THEN 0 ELSE d[i - n]
  <2>1. Len(u) = a /\ Len(f) = Len(d) - a /\ Len(uz) = a + n
    BY <1>1, <1>2, <1>4, <1>5, <1>9
  <2>2. CASE i <= a
    BY <1>1, <1>2, <1>5, <1>6, <2>1, <2>2
  <2>3. CASE ~(i <= a) /\ i <= a + n
    <3>1. i \in 1 .. Len(uz) + Len(f) /\ i <= Len(uz) /\ i \in 1 .. Len(u) + n /\ ~(i <= Len(u))
      BY <1>1, <2>1, <2>3
    <3>2. i - a \in 1 .. n
      BY <1>1, <2>3
    <3>3. r[i] = uz[i]
      BY <1>6, <3>1, Zenon
    <3>4. uz[i] = z[i - Len(u)]
      BY <1>5, <3>1, Zenon
    <3> QED BY <1>3, <2>1, <2>3, <3>2, <3>3, <3>4
  <2>4. CASE ~(i <= a + n)
    <3>1. i - (a + n) \in 1 .. Len(f) /\ a + (i - (a + n)) = i - n
      BY <1>1, <1>9, <2>1, <2>4
    <3>2. ~(i <= Len(uz)) /\ i \in 1 .. Len(uz) + Len(f)
      BY <1>1, <1>9, <2>1, <2>4
    <3>3. r[i] = f[i - (a + n)]
      BY <1>6, <2>1, <3>2
    <3>4. f[i - (a + n)] = d[a + (i - (a + n))]
      BY <1>4, <3>1
    <3>5. ~(i <= a)
      BY <2>4
    <3> QED BY <2>4, <3>1, <3>3, <3>4, <3>5
  <2> QED BY <2>2, <2>3, <2>4
<1> QED BY <1>7, <1>8, <1>9 DEF IsInserted

\* Removing closes the gap it leaves.
LEMMA RemoveRawType ==
    ASSUME NEW d \in Content, NEW a \in Nat, NEW n \in Nat
    PROVE  RemoveRaw(d, a, n) \in Content /\ IsRemoved(RemoveRaw(d, a, n), d, a, n)
<1> PICK u \in Content : u = Upto(d, a)
  BY UptoType
<1> PICK f \in Content : f = From(d, a + n)
  BY FromType
<1>1. Len(d) \in Nat
  BY DEF Content
<1>2. Len(u) = (IF a < Len(d) THEN a ELSE Len(d)) /\ \A i \in 1 .. Len(u) : u[i] = d[i]
  BY UptoType
<1>3. /\ Len(f) = IF a + n < Len(d) THEN Len(d) - (a + n) ELSE 0
      /\ \A i \in 1 .. Len(f) : f[i] = d[a + n + i]
  BY FromType
<1> PICK r \in Content : r = u \o f
  BY ConcatProperties DEF Content
<1>4. /\ Len(r) = Len(u) + Len(f)
      /\ \A i \in 1 .. Len(u) + Len(f) : r[i] = IF i <= Len(u) THEN u[i] ELSE f[i - Len(u)]
  BY ConcatProperties DEF Content
<1>5. RemoveRaw(d, a, n) = r
  BY DEF RemoveRaw
<1>6. ASSUME a + n <= Len(d)
      PROVE  /\ Len(r) = Len(d) - n
             /\ \A i \in 1 .. Len(d) - n : r[i] = IF i <= a THEN d[i] ELSE d[i + n]
  <2>1. Len(u) = a /\ Len(f) = Len(d) - (a + n) /\ Len(r) = Len(d) - n
    BY <1>1, <1>2, <1>3, <1>4, <1>6
  <2>2. ASSUME NEW i \in 1 .. Len(d) - n PROVE r[i] = IF i <= a THEN d[i] ELSE d[i + n]
    <3>1. CASE i <= a
      BY <1>1, <1>2, <1>4, <2>1, <3>1
    <3>2. CASE ~(i <= a)
      <4>1. /\ i - a \in 1 .. Len(f) /\ a + n + (i - a) = i + n
            /\ i \in 1 .. Len(u) + Len(f) /\ ~(i <= Len(u))
        BY <1>1, <2>1, <3>2
      <4>2. r[i] = f[i - a]
        BY <1>4, <2>1, <4>1
      <4> QED BY <1>3, <3>2, <4>1, <4>2
    <3> QED BY <3>1, <3>2
  <2> QED BY <2>1, <2>2
<1> QED BY <1>5, <1>6 DEF IsRemoved

\* Writing back what was there, taking out what was inserted, and putting back what was
\* removed restore the data.
LEMMA WriteUndone ==
    ASSUME NEW d \in Content, NEW a \in Nat, NEW new \in Content, NEW old \in Content,
           Len(old) = Len(new),
           a + Len(new) <= Len(d) => old = ReadRaw(d, a, Len(new), Zeros(Len(new)))
    PROVE  WriteRaw(WriteRaw(d, a, new), a, old) = d
<1>1. Len(d) \in Nat /\ Len(new) \in Nat
  BY DEF Content
<1> PICK n \in Nat : n = Len(new)
  BY <1>1
<1>2. PICK w \in Content : w = WriteRaw(d, a, new) /\ IsWritten(w, d, a, new)
  BY WriteRawType
<1>3. PICK u \in Content : u = WriteRaw(w, a, old) /\ IsWritten(u, w, a, old)
  BY WriteRawType
<1>4. Len(w) = Len(d) /\ Len(u) = Len(d)
  BY <1>2, <1>3 DEF IsWritten
<1>5. CASE a + n > Len(d)
  <2>1. w = d
    BY <1>5, <1>2 DEF IsWritten
  <2>2. u = w
    BY <1>4, <1>5, <1>3 DEF IsWritten
  <2> QED BY <1>2, <1>3, <2>1, <2>2
<1>6. CASE ~(a + n > Len(d))
  <2>1. a + n <= Len(d)
    BY <1>1, <1>6
  <2>2. Zeros(n) \in Content /\ Len(Zeros(n)) = n
    BY ZerosType
  <2>3. \A i \in 1 .. n : old[i] = d[a + i]
    <3>1. IsRead(old, d, a, n, Zeros(n))
      BY <2>1, <2>2, ReadRawType
    <3> QED BY <2>1, <3>1 DEF IsRead
  <2>4. \A i \in 1 .. Len(d) : w[i] = IF i \in a + 1 .. a + n THEN new[i - a] ELSE d[i]
    BY <2>1, <1>2 DEF IsWritten
  <2>5. \A i \in 1 .. Len(d) : u[i] = IF i \in a + 1 .. a + n THEN old[i - a] ELSE w[i]
    BY <1>4, <2>1, <1>3 DEF IsWritten
  <2>6. ASSUME NEW i \in 1 .. Len(d) PROVE u[i] = d[i]
    <3>1. CASE i \in a + 1 .. a + n
      <4>1. i - a \in 1 .. n /\ a + (i - a) = i
        BY <1>1, <3>1
      <4>2. u[i] = old[i - a]
        BY <2>5, <3>1
      <4>3. old[i - a] = d[a + (i - a)]
        BY <2>3, <4>1
      <4> QED BY <4>1, <4>2, <4>3
    <3>2. CASE i \notin a + 1 .. a + n
      BY <2>4, <2>5, <3>2
    <3> QED BY <3>1, <3>2
  <2>7. u = d
    BY <1>4, <2>6, SeqEqual DEF Content
  <2> QED BY <1>2, <1>3, <2>7
<1> QED BY <1>5, <1>6

\* Removing what has been inserted leads back, if the address was within the data.
LEMMA InsertUndone ==
    ASSUME NEW d \in Content, NEW a \in Nat, NEW n \in Nat, a <= Len(d)
    PROVE  RemoveRaw(InsertRaw(d, a, n), a, n) = d
<1>1. Len(d) \in Nat
  BY DEF Content
<1>2. PICK w \in Content : w = InsertRaw(d, a, n) /\ IsInserted(w, d, a, n)
  BY InsertRawType
<1>3. PICK u \in Content : u = RemoveRaw(w, a, n) /\ IsRemoved(u, w, a, n)
  BY RemoveRawType
<1>4. /\ Len(w) = Len(d) + n
      /\ \A i \in 1 .. Len(d) + n : w[i] = IF i <= a THEN d[i]
           ELSE IF i <= a + n THEN 0 ELSE d[i - n]
  BY <1>2 DEF IsInserted
<1>5. a + n <= Len(w) /\ Len(w) - n = Len(d)
  BY <1>1, <1>4
<1>6. Len(u) = Len(d) /\ \A i \in 1 .. Len(d) : u[i] = IF i <= a THEN w[i] ELSE w[i + n]
  BY <1>5, <1>3 DEF IsRemoved
<1>7. ASSUME NEW i \in 1 .. Len(d) PROVE u[i] = d[i]
  <2>1. i \in 1 .. Len(d) + n /\ i + n \in 1 .. Len(d) + n /\ (i + n) - n = i
    BY <1>1
  <2>2. CASE i <= a
    BY <1>4, <1>6, <2>1, <2>2
  <2>3. CASE ~(i <= a)
    <3>1. u[i] = w[i + n]
      BY <1>6, <2>3
    <3>2. ~(i + n <= a) /\ ~(i + n <= a + n)
      BY <2>3
    <3>3. w[i + n] = d[(i + n) - n]
      BY <1>4, <2>1, <3>2
    <3> QED BY <2>1, <3>1, <3>3
  <2> QED BY <2>2, <2>3
<1>8. u = d
  BY <1>6, <1>7, SeqEqual DEF Content
<1> QED BY <1>2, <1>3, <1>8

\* Inserting and writing back what was removed leads back.
LEMMA RemoveUndone ==
    ASSUME NEW d \in Content, NEW a \in Nat, NEW n \in Nat, a + n <= Len(d),
           NEW old \in Content, Len(old) = n, \A i \in 1 .. n : old[i] = d[a + i]
    PROVE  WriteRaw(InsertRaw(RemoveRaw(d, a, n), a, n), a, old) = d
<1>1. Len(d) \in Nat
  BY DEF Content
<1>2. PICK r \in Content : r = RemoveRaw(d, a, n) /\ IsRemoved(r, d, a, n)
  BY RemoveRawType
<1>3. PICK w \in Content : w = InsertRaw(r, a, n) /\ IsInserted(w, r, a, n)
  BY InsertRawType
<1>4. PICK u \in Content : u = WriteRaw(w, a, old) /\ IsWritten(u, w, a, old)
  BY WriteRawType
<1>5. Len(r) = Len(d) - n /\ \A i \in 1 .. Len(d) - n : r[i] = IF i <= a THEN d[i] ELSE d[i + n]
  BY <1>2 DEF IsRemoved
<1>6. a <= Len(r) /\ Len(r) + n = Len(d)
  BY <1>1, <1>5
<1>7. /\ Len(w) = Len(d)
      /\ \A i \in 1 .. Len(d) : w[i] = IF i <= a THEN r[i] ELSE IF i <= a + n THEN 0 ELSE r[i - n]
  BY <1>6, <1>3 DEF IsInserted
<1>8. /\ Len(u) = Len(d)
      /\ \A i \in 1 .. Len(d) : u[i] = IF i \in a + 1 .. a + n THEN old[i - a] ELSE w[i]
  BY <1>7, <1>4 DEF IsWritten
<1>9. ASSUME NEW i \in 1 .. Len(d) PROVE u[i] = d[i]
  <2>1. CASE i <= a
    <3>1. i \notin a + 1 .. a + n /\ i \in 1 .. Len(d) - n
      BY <1>1, <2>1
    <3> QED BY <1>5, <1>7, <1>8, <2>1, <3>1
  <2>2. CASE i \in a + 1 .. a + n
    <3>1. i - a \in 1 .. n /\ a + (i - a) = i
      BY <2>2
    <3>2. u[i] = old[i - a]
      BY <1>8, <2>2
    <3>3. old[i - a] = d[a + (i - a)]
      BY <3>1
    <3> QED BY <3>1, <3>2, <3>3
  <2>3. CASE ~(i <= a) /\ i \notin a + 1 .. a + n
    <3>1. ~(i <= a + n) /\ i - n \in 1 .. Len(d) - n /\ ~(i - n <= a) /\ (i - n) + n = i
      BY <1>1, <2>3
    <3>2. u[i] = r[i - n]
      BY <1>7, <1>8, <2>3, <3>1
    <3>3. r[i - n] = d[(i - n) + n]
      BY <1>5, <3>1
    <3> QED BY <3>1, <3>2, <3>3
  <2> QED BY <2>1, <2>2, <2>3
<1>10. u = d
  BY <1>8, <1>9, SeqEqual DEF Content
<1> QED BY <1>2, <1>3, <1>4, <1>10

-----------------------------------------------------------------------------
(* Operations                                                              *)

\* The three kinds of operations and their fields
LEMMA OpCases ==
    ASSUME NEW op \in Op
    PROVE  \/ /\ op.kind = "write" /\ op.at \in Nat
              /\ op.old \in Content /\ op.new \in Content /\ Len(op.old) = Len(op.new)
           \/ op.kind = "insert" /\ op.at \in Nat /\ op.size \in Nat
           \/ /\ op.kind = "remove" /\ op.at \in Nat /\ op.size \in Nat
              /\ op.old \in Content /\ Len(op.old) = op.size
BY DEF Op, IsOperation, Operation, Content

\* The operations that the events make
LEMMA OpMade ==
    ASSUME NEW a \in Nat
    PROVE  /\ \A old, new \in Content : Len(old) = Len(new) =>
                 [kind |-> "write", at |-> a, old |-> old, new |-> new] \in Op
           /\ \A n \in Nat : [kind |-> "insert", at |-> a, size |-> n] \in Op
           /\ \A n \in Nat, old \in Content : Len(old) = n =>
                 [kind |-> "remove", at |-> a, size |-> n, old |-> old] \in Op
BY DEF Op, IsOperation, Operation, Content

\* Undoing and doing an operation lead to data again; what it keeps makes it an operation.
LEMMA OperationType ==
    ASSUME NEW d \in Content, NEW op \in Op
    PROVE  /\ UndoOperation(d, op) \in Content
           /\ RedoOperation(d, op) \in Content
           /\ Kept(d, op) \in Op
<1>1. CASE op.kind = "write"
  <2>1. op.at \in Nat /\ op.old \in Content /\ op.new \in Content
    BY <1>1, OpCases
  <2>2. WriteRaw(d, op.at, op.old) \in Content /\ WriteRaw(d, op.at, op.new) \in Content
    BY <2>1, WriteRawType
  <2> QED BY <1>1, <2>2 DEF UndoOperation, RedoOperation, Kept
<1>2. CASE op.kind = "insert"
  <2>1. op.at \in Nat /\ op.size \in Nat
    BY <1>2, OpCases
  <2>2. RemoveRaw(d, op.at, op.size) \in Content /\ InsertRaw(d, op.at, op.size) \in Content
    BY <2>1, RemoveRawType, InsertRawType
  <2> QED BY <1>2, <2>2 DEF UndoOperation, RedoOperation, Kept
<1>3. CASE op.kind = "remove"
  <2>1. op.at \in Nat /\ op.size \in Nat /\ op.old \in Content /\ Len(op.old) = op.size
    BY <1>3, OpCases
  <2>2. RemoveRaw(d, op.at, op.size) \in Content /\ InsertRaw(d, op.at, op.size) \in Content
    BY <2>1, RemoveRawType, InsertRawType
  <2>3. WriteRaw(InsertRaw(d, op.at, op.size), op.at, op.old) \in Content
    BY <2>1, <2>2, WriteRawType
  <2>4. PICK r \in Content : /\ r = ReadRaw(d, op.at, op.size, op.old)
                             /\ IsRead(r, d, op.at, op.size, op.old)
    BY <2>1, ReadRawType
  <2>5. Len(r) = op.size
    BY <2>4 DEF IsRead
  <2>6. Kept(d, op) = [kind |-> "remove", at |-> op.at, size |-> op.size, old |-> r]
    <3>1. op \in [kind : {"remove"}, at : Nat, size : Nat, old : Seq(Bytes)]
      BY <1>3 DEF Op, Operation
    <3> QED BY <1>3, <2>4, <3>1 DEF Kept
  <2>7. Kept(d, op) \in Op
    BY <2>1, <2>5, <2>6, OpMade
  <2> QED BY <1>3, <2>2, <2>3, <2>7 DEF UndoOperation, RedoOperation
<1> QED BY <1>1, <1>2, <1>3, OpCases

\* An operation takes the data from d to e and back, and keeps what it has kept.
Joined(d, op, e) ==
    RedoOperation(d, op) = e /\ UndoOperation(e, op) = d /\ Kept(d, op) = op

\* What the events of the provider put on the stack does that, once it has been done.
LEMMA WriteJoins ==
    ASSUME NEW d \in Content, NEW a \in Nat, NEW new \in Content, NEW op,
           op = [kind |-> "write", at |-> a, new |-> new,
                 old |-> ReadRaw(d, a, Len(new), Zeros(Len(new)))]
    PROVE  op \in Op /\ Kept(d, op) = op /\ Joined(d, op, RedoOperation(d, op))
<1>1. Len(new) \in Nat
  BY DEF Content
<1>2. Zeros(Len(new)) \in Content /\ Len(Zeros(Len(new))) = Len(new)
  BY <1>1, ZerosType
<1>3. PICK old \in Content : /\ old = ReadRaw(d, a, Len(new), Zeros(Len(new)))
                             /\ IsRead(old, d, a, Len(new), Zeros(Len(new)))
  BY <1>1, <1>2, ReadRawType
<1>4. Len(old) = Len(new)
  BY <1>3 DEF IsRead
<1>5. op = [kind |-> "write", at |-> a, old |-> old, new |-> new]
  BY <1>3
<1>6. op \in Op
  BY <1>4, <1>5, OpMade
<1>7. WriteRaw(WriteRaw(d, a, new), a, old) = d
  BY <1>3, <1>4, WriteUndone
<1> QED BY <1>5, <1>6, <1>7 DEF Joined, RedoOperation, UndoOperation, Kept

\* An insertion leads from the data before it to the data after it, unless its address lies
\* behind the end.
LEMMA InsertJoins ==
    ASSUME NEW d \in Content, NEW a \in Nat, NEW n \in Nat, NEW op,
           op = [kind |-> "insert", at |-> a, size |-> n]
    PROVE  /\ op \in Op /\ Kept(d, op) = op
           /\ a <= Len(d) => Joined(d, op, RedoOperation(d, op))
<1>1. op \in Op
  BY OpMade
<1>2. a <= Len(d) => RemoveRaw(InsertRaw(d, a, n), a, n) = d
  BY InsertUndone
<1> QED BY <1>1, <1>2 DEF Joined, RedoOperation, UndoOperation, Kept

\* So does a removal with what it kept, unless it reaches past the end.
LEMMA RemoveJoins ==
    ASSUME NEW d \in Content, NEW a \in Nat, NEW n \in Nat, NEW op,
           op = [kind |-> "remove", at |-> a, size |-> n, old |-> Zeros(n)]
    PROVE  /\ op \in Op
           /\ RedoOperation(d, op) = RedoOperation(d, Kept(d, op))
           /\ a + n <= Len(d) => Joined(d, Kept(d, op), RedoOperation(d, op))
<1>1. Zeros(n) \in Content /\ Len(Zeros(n)) = n
  BY ZerosType
<1>2. op \in Op
  BY <1>1, OpMade
<1>3. PICK r \in Content : r = ReadRaw(d, a, n, Zeros(n)) /\ IsRead(r, d, a, n, Zeros(n))
  BY <1>1, ReadRawType
<1>4. Kept(d, op) = [kind |-> "remove", at |-> a, size |-> n, old |-> r]
  BY <1>3 DEF Kept
<1>5. RedoOperation(d, op) = RemoveRaw(d, a, n)
       /\ RedoOperation(d, Kept(d, op)) = RemoveRaw(d, a, n)
  BY <1>4 DEF RedoOperation
<1>6. ASSUME a + n <= Len(d) PROVE Joined(d, Kept(d, op), RedoOperation(d, op))
  <2>1. Len(r) = n /\ \A i \in 1 .. n : r[i] = d[a + i]
    BY <1>3, <1>6 DEF IsRead
  <2>2. WriteRaw(InsertRaw(RemoveRaw(d, a, n), a, n), a, r) = d
    BY <1>6, <2>1, RemoveUndone
  <2>3. ReadRaw(d, a, n, r) = r
    <3>1. ~(a + n > Len(d))
      BY <1>6 DEF Content
    <3> QED BY <1>3, <3>1 DEF ReadRaw
  <2>4. Kept(d, Kept(d, op)) = Kept(d, op)
    BY <1>4, <2>3 DEF Kept
  <2> QED BY <1>4, <1>5, <2>2, <2>4 DEF Joined, UndoOperation
<1> QED BY <1>2, <1>5, <1>6

-----------------------------------------------------------------------------
(* Operations on the stack: series of parts                                *)

\* data[i] is what undoing, or doing, the first i parts makes of the data.
UndoesParts(data, d, entry) ==
    data[0] = d /\ \A i \in 1 .. Len(entry) : data[i] = UndoOperation(data[i - 1], entry[i])
RedoesParts(data, d, entry) ==
    data[0] = d /\ \A i \in 1 .. Len(entry) : data[i] = RedoOperation(data[i - 1], entry[i])

\* There are the data that undoing the parts of an entry, one after the other, leads through.
LEMMA UndoesPartsExists ==
    ASSUME NEW d \in Content, NEW entry \in Entry
    PROVE  \E data : data \in [0 .. Len(entry) -> Content] /\ UndoesParts(data, d, entry)
<1> PICK n \in Nat : n = Len(entry)
  BY DEF Entry
<1> DEFINE step == [i \in 1 .. n |-> [x \in Content |-> UndoOperation(x, entry[i])]]
<1>1. \A i \in 1 .. n, x \in Content : step[i][x] = UndoOperation(x, entry[i])
  OBVIOUS
<1>2. \A i \in 1 .. n : entry[i] \in Op
  BY ElementOfSeq DEF Entry
<1>3. \A i \in 1 .. n, x \in Content : step[i][x] \in Content
  BY <1>2, OperationType
<1> HIDE DEF step
<1>4. PICK run : Runs(run, Content, n, d, step)
  BY <1>3, Iterates, Zenon
<1>5. run \in [0 .. n -> Content] /\ run[0] = d
  BY <1>4 DEF Runs
<1>6. ASSUME NEW i \in 1 .. n PROVE run[i] = UndoOperation(run[i - 1], entry[i])
  <2>1. i - 1 \in 0 .. n
    OBVIOUS
  <2>2. run[i - 1] \in Content
    BY <1>5, <2>1, Zenon
  <2> QED BY <1>1, <1>4, <2>2, Zenon DEF Runs
<1> QED BY <1>5, <1>6 DEF UndoesParts

\* There are the data that doing the parts of an entry, one after the other, leads through.
LEMMA RedoesPartsExists ==
    ASSUME NEW d \in Content, NEW entry \in Entry
    PROVE  \E data : data \in [0 .. Len(entry) -> Content] /\ RedoesParts(data, d, entry)
<1> PICK n \in Nat : n = Len(entry)
  BY DEF Entry
<1> DEFINE step == [i \in 1 .. n |-> [x \in Content |-> RedoOperation(x, entry[i])]]
<1>1. \A i \in 1 .. n, x \in Content : step[i][x] = RedoOperation(x, entry[i])
  OBVIOUS
<1>2. \A i \in 1 .. n : entry[i] \in Op
  BY ElementOfSeq DEF Entry
<1>3. \A i \in 1 .. n, x \in Content : step[i][x] \in Content
  BY <1>2, OperationType
<1> HIDE DEF step
<1>4. PICK run : Runs(run, Content, n, d, step)
  BY <1>3, Iterates, Zenon
<1>5. run \in [0 .. n -> Content] /\ run[0] = d
  BY <1>4 DEF Runs
<1>6. ASSUME NEW i \in 1 .. n PROVE run[i] = RedoOperation(run[i - 1], entry[i])
  <2>1. i - 1 \in 0 .. n
    OBVIOUS
  <2>2. run[i - 1] \in Content
    BY <1>5, <2>1, Zenon
  <2> QED BY <1>1, <1>4, <2>2, Zenon DEF Runs
<1> QED BY <1>5, <1>6 DEF RedoesParts

\* UndoEntry, which is defined by recursion, is the last of those data.
LEMMA UndoEntryIs ==
    ASSUME NEW d, NEW entry \in Entry, NEW data, UndoesParts(data, d, entry)
    PROVE  UndoEntry(d, entry) = data[Len(entry)]
<1> PICK n \in Nat : n = Len(entry)
  BY DEF Entry
<1> DEFINE Defines(f) ==
             f = [i \in 0 .. n |-> IF i = 0 THEN d ELSE UndoOperation(f[i - 1], entry[i])]
           f == CHOOSE f : Defines(f)
           g == [i \in 0 .. n |-> data[i]]
<1>1. UndoEntry(d, entry) = f[n]
  BY DEF UndoEntry
<1>2. Defines(g)
  <2> SUFFICES ASSUME NEW i \in 0 .. n
               PROVE  g[i] = IF i = 0 THEN d ELSE UndoOperation(g[i - 1], entry[i])
    BY Zenon
  <2>1. CASE i = 0
    BY <2>1 DEF UndoesParts
  <2>2. CASE i # 0
    <3>1. i \in 1 .. n /\ i - 1 \in 0 .. n
      BY <2>2
    <3>2. g[i] = data[i] /\ g[i - 1] = data[i - 1]
      BY <3>1
    <3> QED BY <2>2, <3>1, <3>2, Zenon DEF UndoesParts
  <2> QED BY <2>1, <2>2
<1> HIDE DEF g, Defines
<1>3. Defines(f)
  BY <1>2, Zenon
<1> HIDE DEF f
<1>4. \A i \in 0 .. n : f[i] = IF i = 0 THEN d ELSE UndoOperation(f[i - 1], entry[i])
  BY <1>3, Zenon DEF Defines
<1>5. ASSUME NEW i \in 1 .. n, f[i - 1] = data[i - 1] PROVE f[i] = data[i]
  <2>1. i \in 0 .. n /\ i # 0
    OBVIOUS
  <2> QED BY <1>4, <1>5, <2>1, Zenon DEF UndoesParts
<1>6. f[0] = data[0]
  <2>1. 0 \in 0 .. n
    OBVIOUS
  <2> QED BY <1>4, <2>1, Zenon DEF UndoesParts
<1>7. \A i \in 0 .. n : f[i] = data[i]
  <2>1. GoAlike(f, data, n)
    BY <1>5, <1>6, Zenon DEF GoAlike
  <2>2. Alike(f, data, n)
    BY <2>1, SameRun, Zenon
  <2> QED BY <2>2 DEF Alike
<1>8. n \in 0 .. n
  OBVIOUS
<1> QED BY <1>1, <1>7, <1>8

\* RedoEntry is the last of them, with what every part kept of the data it met.
LEMMA RedoEntryIs ==
    ASSUME NEW d, NEW entry \in Entry, NEW data, RedoesParts(data, d, entry)
    PROVE  RedoEntry(d, entry) =
              [data |-> data[Len(entry)],
               entry |-> [i \in 1 .. Len(entry) |-> Kept(data[i - 1], entry[i])]]
<1> PICK n \in Nat : n = Len(entry)
  BY DEF Entry
<1> DEFINE Defines(f) ==
             f = [i \in 0 .. n |-> IF i = 0 THEN d ELSE RedoOperation(f[i - 1], entry[i])]
           f == CHOOSE f : Defines(f)
           g == [i \in 0 .. n |-> data[i]]
           kept == [i \in 1 .. n |-> Kept(f[i - 1], entry[i])]
<1>1. RedoEntry(d, entry) = [data |-> f[n], entry |-> kept]
  <2>1. DOMAIN entry = 1 .. n
    BY DEF Entry
  <2> QED BY <2>1 DEF RedoEntry
<1>2. Defines(g)
  <2> SUFFICES ASSUME NEW i \in 0 .. n
               PROVE  g[i] = IF i = 0 THEN d ELSE RedoOperation(g[i - 1], entry[i])
    BY Zenon
  <2>1. CASE i = 0
    BY <2>1 DEF RedoesParts
  <2>2. CASE i # 0
    <3>1. i \in 1 .. n /\ i - 1 \in 0 .. n
      BY <2>2
    <3>2. g[i] = data[i] /\ g[i - 1] = data[i - 1]
      BY <3>1
    <3> QED BY <2>2, <3>1, <3>2, Zenon DEF RedoesParts
  <2> QED BY <2>1, <2>2
<1> HIDE DEF g, Defines
<1>3. Defines(f)
  BY <1>2, Zenon
<1> HIDE DEF f
<1>4. \A i \in 0 .. n : f[i] = IF i = 0 THEN d ELSE RedoOperation(f[i - 1], entry[i])
  BY <1>3, Zenon DEF Defines
<1>5. ASSUME NEW i \in 1 .. n, f[i - 1] = data[i - 1] PROVE f[i] = data[i]
  <2>1. i \in 0 .. n /\ i # 0
    OBVIOUS
  <2> QED BY <1>4, <1>5, <2>1, Zenon DEF RedoesParts
<1>6. f[0] = data[0]
  <2>1. 0 \in 0 .. n
    OBVIOUS
  <2> QED BY <1>4, <2>1, Zenon DEF RedoesParts
<1>7. \A i \in 0 .. n : f[i] = data[i]
  <2>1. GoAlike(f, data, n)
    BY <1>5, <1>6, Zenon DEF GoAlike
  <2>2. Alike(f, data, n)
    BY <2>1, SameRun, Zenon
  <2> QED BY <2>2 DEF Alike
<1>8. kept = [i \in 1 .. n |-> Kept(data[i - 1], entry[i])]
  <2>1. \A i \in 1 .. n : f[i - 1] = data[i - 1]
    <3> TAKE i \in 1 .. n
    <3>1. i - 1 \in 0 .. n
      OBVIOUS
    <3> QED BY <1>7, <3>1, Zenon
  <2> QED BY <2>1
<1> HIDE DEF kept
<1>9. f[n] = data[n]
  <2>1. n \in 0 .. n
    OBVIOUS
  <2> QED BY <1>7, <2>1, Zenon
<1> QED BY <1>1, <1>8, <1>9

\* Undoing and doing an entry lead to data again, and it stays an entry.
LEMMA EntryType ==
    ASSUME NEW d \in Content, NEW entry \in Entry
    PROVE  /\ UndoEntry(d, entry) \in Content
           /\ RedoEntry(d, entry).data \in Content
           /\ RedoEntry(d, entry).entry \in Entry
<1> PICK n \in Nat : n = Len(entry)
  BY DEF Entry
<1>1. n \in 0 .. n
  OBVIOUS
<1>2. UndoEntry(d, entry) \in Content
  <2>1. PICK data : data \in [0 .. n -> Content] /\ UndoesParts(data, d, entry)
    BY UndoesPartsExists, Zenon
  <2>2. UndoEntry(d, entry) = data[n]
    BY <2>1, UndoEntryIs, Zenon
  <2> QED BY <1>1, <2>1, <2>2, Zenon
<1>3. PICK data : data \in [0 .. n -> Content] /\ RedoesParts(data, d, entry)
  BY RedoesPartsExists, Zenon
<1> DEFINE kept == [i \in 1 .. n |-> Kept(data[i - 1], entry[i])]
<1>4. RedoEntry(d, entry) = [data |-> data[n], entry |-> kept]
  BY <1>3, RedoEntryIs, Zenon
<1>5. ASSUME NEW i \in 1 .. n PROVE Kept(data[i - 1], entry[i]) \in Op
  <2>1. i - 1 \in 0 .. n
    OBVIOUS
  <2>2. data[i - 1] \in Content
    BY <1>3, <2>1, Zenon
  <2>3. entry[i] \in Op
    BY ElementOfSeq DEF Entry
  <2> QED BY <2>2, <2>3, OperationType, Zenon
<1>6. kept \in [1 .. n -> Op]
  BY <1>5
<1> HIDE DEF kept
<1>7. kept \in Entry
  BY <1>6, SeqOfFunction DEF Entry
<1>8. data[n] \in Content
  BY <1>1, <1>3, Zenon
<1> QED BY <1>2, <1>4, <1>7, <1>8

-----------------------------------------------------------------------------
(* The stacks                                                              *)

\* A sequence that is not empty, without its last element, and that element
LEMMA FrontLast ==
    ASSUME NEW S, NEW s \in Seq(S), s # <<>>
    PROVE  /\ Front(s) \in Seq(S) /\ Len(Front(s)) = Len(s) - 1 /\ Len(s) \in Nat \ {0}
           /\ \A i \in 1 .. Len(s) - 1 : Front(s)[i] = s[i]
           /\ Last(s) = s[Len(s)] /\ Last(s) \in S
<1> PICK n \in Nat : n = Len(s)
  OBVIOUS
<1>1. n # 0
  BY EmptySeq
<1>2. n - 1 \in 0 .. n
  BY <1>1
<1>3. SubSeq(s, 1, n - 1) \in Seq(S) /\ StartOf(SubSeq(s, 1, n - 1), s, n - 1)
  BY <1>2, StartIs
<1>6. s[n] \in S
  <2>1. n \in 1 .. n
    BY <1>1
  <2> QED BY <2>1, ElementOfSeq
<1> QED BY <1>1, <1>3, <1>6 DEF Front, Last, StartOf

\* The first values stay a function from addresses to bytes.
LEMMA FirstValuesType ==
    ASSUME NEW first \in Values, NEW a \in Nat, NEW old \in Content, NEW new \in Content,
           Len(old) = Len(new)
    PROVE  FirstValues(first, a, old, new) \in Values
<1> PICK D \in SUBSET Nat : first \in [D -> Bytes]
  BY DEF Values
<1> DEFINE changed == {a + i - 1 : i \in {j \in DOMAIN new : old[j] # new[j]}}
           result == [x \in D \union changed |-> IF x \in D THEN first[x] ELSE old[x - a + 1]]
<1>1. DOMAIN new = 1 .. Len(new) /\ Len(new) \in Nat
  BY DEF Content
<1>2. ASSUME NEW x \in changed PROVE x \in Nat /\ old[x - a + 1] \in Bytes
  <2>1. PICK i \in 1 .. Len(new) : x = a + i - 1
    BY <1>1
  <2>2. x \in Nat /\ x - a + 1 = i
    BY <1>1, <2>1
  <2> QED BY <2>2, ElementOfSeq DEF Content
<1>3. D \union changed \in SUBSET Nat
  BY <1>2
<1>4. \A x \in D \union changed : (IF x \in D THEN first[x] ELSE old[x - a + 1]) \in Bytes
  BY <1>2
<1> HIDE DEF changed
<1>5. result \in [D \union changed -> Bytes]
  BY <1>4
<1>6. FirstValues(first, a, old, new) = result
  <2>1. DOMAIN first = D
    OBVIOUS
  <2> QED BY <2>1 DEF FirstValues, changed
<1> HIDE DEF result
<1> QED BY <1>3, <1>5, <1>6 DEF Values

\* What the fields of a buffer hold
LEMMA BufferFields ==
    ASSUME NEW b \in Buffer
    PROVE  /\ b.data \in Content /\ b.applied \in Seq(Entry) /\ b.undone \in Seq(Entry)
           /\ b.first \in Values
BY DEF Buffer

\* A buffer and its parts, whatever the highlights are
Holds(b, data, applied, undone) ==
    b \in Buffer /\ b.data = data /\ b.applied = applied /\ b.undone = undone

\* The buffer after an entry has been put on the stack: nothing is left to be redone.
LEMMA AddedIs ==
    ASSUME NEW b \in Buffer, NEW entry \in Entry, NEW done, done = RedoEntry(b.data, entry)
    PROVE  Holds(Added(b, entry), done.data, Append(b.applied, done.entry), <<>>)
<1>1. done.data \in Content /\ done.entry \in Entry
  BY BufferFields, EntryType
<1>2. Append(b.applied, done.entry) \in Seq(Entry) /\ <<>> \in Seq(Entry)
  BY <1>1, BufferFields, AppendProperties, EmptySeq
<1> DEFINE f == Forgotten(b)
<1>3. f \in Buffer
  BY <1>2 DEF Forgotten, Buffer
<1>4. f.data = b.data /\ f.applied = b.applied /\ f.undone = <<>>
  BY DEF Forgotten, Buffer
<1> HIDE DEF f
<1> PICK more \in Seq(Entry) : more = Append(b.applied, done.entry)
  BY <1>2
<1>5. Added(b, entry) = [f EXCEPT !.data = done.data, !.applied = Append(@, done.entry)]
  BY DEF Added, f
<1>6. Added(b, entry) = [f EXCEPT !.data = done.data, !.applied = more]
  BY <1>5, <1>4
<1> QED BY <1>1, <1>6, <1>3, <1>4 DEF Holds, Buffer

\* A group leaves the start of the applied entries and takes the parts of the others.
LEMMA RestType ==
    ASSUME NEW b \in Buffer, NEW count \in Nat
    PROVE  /\ Rest(b, count) \in Seq(Entry)
           /\ StartOf(Rest(b, count), b.applied, Len(Rest(b, count)))
           /\ Len(Rest(b, count)) = IF count < Len(b.applied) THEN Len(b.applied) - count ELSE 0
           /\ Taken(b, count) \in Entry
<1> PICK s \in Seq(Entry) : s = b.applied
  BY BufferFields
<1> PICK n \in Nat : n = Len(s)
  OBVIOUS
<1> DEFINE k == IF count < n THEN n - count ELSE 0
<1>1. k \in 0 .. n
  OBVIOUS
<1>2. Rest(b, count) = SubSeq(s, 1, k)
  BY DEF Rest
<1> HIDE DEF k
<1>3. \A i \in 1 .. n : s[i] \in Entry
  BY ElementOfSeq
<1>4. SubSeq(s, 1, k) \in Seq(Entry) /\ StartOf(SubSeq(s, 1, k), s, k)
  BY <1>1, StartIs
<1>6. SubSeq(s, k + 1, n) \in Seq(Entry)
  BY <1>1, <1>3, SubSeqProperties
<1>7. FlattenSeq(SubSeq(s, k + 1, n)) \in Entry
  BY <1>6, FlattenType DEF Entry
<1> QED BY <1>2, <1>4, <1>7 DEF Taken, StartOf, k

\* The buffer after undo
LEMMA UndoneIs ==
    ASSUME NEW b \in Buffer, b.applied # <<>>
    PROVE  Holds(Undone(b), UndoEntry(b.data, Last(b.applied)), Front(b.applied),
                 Append(b.undone, Last(b.applied)))
<1> DEFINE last == Last(b.applied)
           less == Front(b.applied)
           more == Append(b.undone, last)
<1>1. last \in Entry /\ less \in Seq(Entry)
  BY BufferFields, FrontLast
<1>2. more \in Seq(Entry)
  BY <1>1, BufferFields, AppendProperties
<1>3. UndoEntry(b.data, last) \in Content
  BY <1>1, BufferFields, EntryType
<1>4. Undone(b) =
         [b EXCEPT !.data = UndoEntry(@, last), !.applied = Front(@), !.undone = Append(@, last)]
  BY DEF Undone
<1>5. Undone(b) = [b EXCEPT !.data = UndoEntry(b.data, last), !.applied = less, !.undone = more]
  BY <1>4
<1> HIDE DEF last, less, more
<1>6. Undone(b) \in Buffer
  BY <1>1, <1>2, <1>3, <1>5 DEF Buffer
<1>7. /\ Undone(b).data = UndoEntry(b.data, last)
      /\ Undone(b).applied = less
      /\ Undone(b).undone = more
  BY <1>5 DEF Buffer
<1> QED BY <1>6, <1>7 DEF Holds, last, less, more

\* The buffer after redo
LEMMA RedoneIs ==
    ASSUME NEW b \in Buffer, b.undone # <<>>, NEW done, done = RedoEntry(b.data, Last(b.undone))
    PROVE  Holds(Redone(b), done.data, Append(b.applied, done.entry), Front(b.undone))
<1> DEFINE less == Front(b.undone)
           more == Append(b.applied, done.entry)
<1>1. Last(b.undone) \in Entry /\ less \in Seq(Entry)
  BY BufferFields, FrontLast
<1>2. done.data \in Content /\ done.entry \in Entry
  BY <1>1, BufferFields, EntryType
<1>3. more \in Seq(Entry)
  BY <1>2, BufferFields, AppendProperties
<1>4. Redone(b) =
         [b EXCEPT !.data = done.data, !.applied = Append(@, done.entry), !.undone = Front(@)]
  BY DEF Redone
<1>5. Redone(b) = [b EXCEPT !.data = done.data, !.applied = more, !.undone = less]
  BY <1>4
<1> HIDE DEF less, more
<1>6. Redone(b) \in Buffer
  BY <1>1, <1>2, <1>3, <1>5 DEF Buffer
<1>7. Redone(b).data = done.data /\ Redone(b).applied = more /\ Redone(b).undone = less
  BY <1>5 DEF Buffer
<1> QED BY <1>6, <1>7 DEF Holds, less, more

\* The buffer after the last operations were undone, joined and done again
LEMMA GroupedIs ==
    ASSUME NEW b \in Buffer, NEW count \in Nat, count > 1, NEW entry, entry = Taken(b, count),
           NEW done, done = RedoEntry(UndoEntry(b.data, entry), entry)
    PROVE  Holds(Grouped(b, count), done.data, Append(Rest(b, count), done.entry), <<>>)
<1> DEFINE rest == Rest(b, count)
           back == UndoEntry(b.data, entry)
           a == [b EXCEPT !.data = back, !.applied = rest]
<1>1. entry \in Entry /\ rest \in Seq(Entry)
  BY RestType
<1>2. back \in Content
  BY <1>1, BufferFields, EntryType
<1>3. ~(count =< 1)
  OBVIOUS
<1>4. Grouped(b, count) = Added([b EXCEPT !.data = UndoEntry(@, entry), !.applied = rest], entry)
  BY <1>3 DEF Grouped
<1>5. Grouped(b, count) = Added(a, entry)
  BY <1>4
<1> HIDE DEF rest, back
<1>6. a \in Buffer /\ a.data = back /\ a.applied = rest
  BY <1>1, <1>2 DEF Buffer
<1> HIDE DEF a
<1>7. done = RedoEntry(a.data, entry)
  BY <1>6 DEF back
<1>8. Holds(Added(a, entry), done.data, Append(a.applied, done.entry), <<>>)
  BY <1>1, <1>6, <1>7, AddedIs, Zenon
<1> QED BY <1>5, <1>6, <1>8 DEF rest

\* A single operation is done like the series of one part.
LEMMA SingleIs ==
    ASSUME NEW d \in Content, NEW op \in Op
    PROVE  /\ <<op>> \in Entry
           /\ RedoEntry(d, <<op>>) = [data |-> RedoOperation(d, op), entry |-> <<Kept(d, op)>>]
           /\ UndoEntry(d, <<op>>) = UndoOperation(d, op)
<1>1. <<op>> \in Entry
  BY DEF Entry
<1> PICK entry \in Entry : entry = <<op>>
  BY <1>1, Zenon
<1>2. Len(entry) = 1 /\ entry[1] = op
  OBVIOUS
<1> DEFINE there == [i \in 0 .. 1 |-> IF i = 0 THEN d ELSE RedoOperation(d, op)]
           back == [i \in 0 .. 1 |-> IF i = 0 THEN d ELSE UndoOperation(d, op)]
<1>3. there[0] = d /\ there[1] = RedoOperation(d, op)
      /\ back[0] = d /\ back[1] = UndoOperation(d, op)
  OBVIOUS
<1>4. \A i \in 1 .. 1 : i = 1 /\ i - 1 = 0
  OBVIOUS
<1> HIDE DEF there, back
<1>5. RedoesParts(there, d, entry) /\ UndoesParts(back, d, entry)
  BY <1>2, <1>3, <1>4 DEF RedoesParts, UndoesParts
<1>6. RedoEntry(d, entry) =
         [data |-> there[1], entry |-> [i \in 1 .. 1 |-> Kept(there[i - 1], entry[i])]]
  BY <1>2, <1>5, RedoEntryIs
<1>7. [i \in 1 .. 1 |-> Kept(there[i - 1], entry[i])] = <<Kept(d, op)>>
  <2> DEFINE k == [i \in 1 .. 1 |-> Kept(there[i - 1], entry[i])]
  <2>1. k = [i \in 1 .. 1 |-> Kept(d, op)]
    BY <1>2, <1>3, <1>4
  <2> QED BY <2>1
<1>8. UndoEntry(d, entry) = back[1]
  BY <1>2, <1>5, UndoEntryIs
<1> QED BY <1>3, <1>6, <1>7, <1>8

\* The calls
LEMMA CallCases ==
    ASSUME NEW call \in Call
    PROVE  \/ call.do = "write" /\ call.at \in Nat /\ call.bytes \in Content
           \/ call.do = "insert" /\ call.at \in Nat /\ call.size \in Nat
           \/ call.do = "remove" /\ call.at \in Nat /\ call.size \in Nat
           \/ call.do = "group" /\ call.count \in Nat
           \/ call.do = "undo"
           \/ call.do = "redo"
BY DEF Call

\* The calls that the user and the import task make are calls, most of them small.
LEMMA CallMade ==
    /\ \A a \in Nat, b \in Content : WriteCall(a, b) \in Call
    /\ \A a \in Nat, v \in Bytes : WriteCall(a, <<v>>) \in Small
    /\ \A a \in Nat, n \in Nat : InsertCall(a, n) \in Small /\ RemoveCall(a, n) \in Small
    /\ \A n \in Nat : GroupCall(n) \in Small
    /\ UndoCall \in Small /\ RedoCall \in Small
<1>1. \A v \in Bytes : <<v>> \in Content /\ Len(<<v>>) = 1
  BY DEF Content
<1> QED BY <1>1 DEF Small, Call, WriteCall, InsertCall, RemoveCall, GroupCall, UndoCall, RedoCall

\* What the events put on the stack is a single operation, if anything.
EditOf(b, call) ==
    CASE call.do = "write"  -> [kind |-> "write", at |-> call.at, new |-> call.bytes,
                                old |-> ReadRaw(b.data, call.at, Len(call.bytes),
                                                Zeros(Len(call.bytes)))]
      [] call.do = "insert" -> [kind |-> "insert", at |-> call.at, size |-> call.size]
      [] call.do = "remove" -> [kind |-> "remove", at |-> call.at, size |-> call.size,
                                old |-> Zeros(call.size)]

\* The events of the provider put a single operation on the stack, or nothing.
LEMMA EditIs ==
    ASSUME NEW b \in Buffer, NEW call \in Call, call.do \in {"write", "insert", "remove"}
    PROVE  LET op == EditOf(b, call)
           IN  /\ op \in Op
               /\ \/ After(b, call) = b
                  \/ Holds(After(b, call), RedoOperation(b.data, op),
                           Append(b.applied, <<Kept(b.data, op)>>), <<>>)
<1> DEFINE op == EditOf(b, call)
<1>1. ASSUME NEW x \in Buffer, x.data = b.data, x.applied = b.applied, op \in Op
      PROVE  Holds(Added(x, <<op>>), RedoOperation(b.data, op),
                    Append(b.applied, <<Kept(b.data, op)>>), <<>>)
  <2> HIDE DEF op
  <2>1. <<op>> \in Entry
    BY <1>1, BufferFields, SingleIs, Zenon
  <2>2. RedoEntry(x.data, <<op>>) =
          [data |-> RedoOperation(b.data, op), entry |-> <<Kept(b.data, op)>>]
    BY <1>1, BufferFields, SingleIs, Zenon
  <2> PICK done : done = RedoEntry(x.data, <<op>>)
    OBVIOUS
  <2>3. Holds(Added(x, <<op>>), done.data, Append(x.applied, done.entry), <<>>)
    BY <2>1, AddedIs, Zenon
  <2>4. done.data = RedoOperation(b.data, op) /\ done.entry = <<Kept(b.data, op)>>
    BY <2>2
  <2> QED BY <1>1, <2>3, <2>4, Zenon
<1>2. CASE call.do = "write"
  <2> PICK a \in Nat, new \in Content : a = call.at /\ new = call.bytes
    BY <1>2, CallCases
  <2> DEFINE old == ReadRaw(b.data, a, Len(new), Zeros(Len(new)))
             first == FirstValues(b.first, a, old, new)
             x == [b EXCEPT !.first = first]
  <2>1. op = [kind |-> "write", at |-> a, new |-> new, old |-> old]
    BY <1>2 DEF EditOf
  <2>2. op \in Op
    BY <2>1, BufferFields, WriteJoins
  <2>3. old \in Content /\ Len(old) = Len(new)
    <3>1. Len(new) \in Nat
      BY DEF Content
    <3>2. Zeros(Len(new)) \in Content /\ Len(Zeros(Len(new))) = Len(new)
      BY <3>1, ZerosType
    <3>3. old \in Content /\ IsRead(old, b.data, a, Len(new), Zeros(Len(new)))
      BY <3>1, <3>2, BufferFields, ReadRawType
    <3> QED BY <3>3 DEF IsRead
  <2>4. first \in Values
    BY <2>3, BufferFields, FirstValuesType
  <2>5. After(b, call) = Modified(b, a, new)
    BY <1>2 DEF After
  <2>6. Modified(b, a, new) = IF old = new THEN b ELSE Added(x, <<op>>)
    <3>1. op = [kind |-> "write", at |-> a, old |-> old, new |-> new]
      BY <2>1
    <3>2. Modified(b, a, new) =
             IF old = new THEN b
             ELSE Added([b EXCEPT !.first = FirstValues(@, a, old, new)],
                        <<[kind |-> "write", at |-> a, old |-> old, new |-> new]>>)
      BY DEF Modified
    <3> HIDE DEF op, old
    <3> QED BY <3>1, <3>2
  <2> HIDE DEF first, old, op
  <2>7. x \in Buffer /\ x.data = b.data /\ x.applied = b.applied
    BY <2>4 DEF Buffer
  <2> HIDE DEF x
  <2> QED BY <1>1, <2>2, <2>5, <2>6, <2>7 DEF op
<1>3. CASE call.do = "insert"
  <2>1. op = [kind |-> "insert", at |-> call.at, size |-> call.size]
    BY <1>3 DEF EditOf
  <2>2. op \in Op
    BY <1>3, <2>1, CallCases, OpMade
  <2>3. After(b, call) = Added(b, <<op>>)
    BY <1>3, <2>1 DEF After, Inserted
  <2> HIDE DEF op
  <2> QED BY <1>1, <2>2, <2>3 DEF op
<1>4. CASE call.do = "remove"
  <2>1. op = [kind |-> "remove", at |-> call.at, size |-> call.size, old |-> Zeros(call.size)]
    BY <1>4 DEF EditOf
  <2>2. op \in Op
    BY <1>4, <2>1, CallCases, OpMade, ZerosType
  <2>3. After(b, call) = Added(b, <<op>>)
    BY <1>4, <2>1 DEF After, Removed
  <2> HIDE DEF op
  <2> QED BY <1>1, <2>2, <2>3 DEF op
<1> QED BY <1>2, <1>3, <1>4

\* A call leaves a buffer behind.
LEMMA AfterType ==
    ASSUME NEW b \in Buffer, NEW call \in Call
    PROVE  After(b, call) \in Buffer
<1>1. CASE call.do \in {"write", "insert", "remove"}
  BY <1>1, EditIs DEF Holds
<1>2. CASE call.do = "group"
  <2>1. call.count \in Nat /\ After(b, call) = Grouped(b, call.count)
    BY <1>2, CallCases DEF After
  <2>2. CASE call.count =< 1
    BY <2>1, <2>2 DEF Grouped
  <2>3. CASE ~(call.count =< 1)
    <3>1. call.count > 1
      BY <2>1, <2>3
    <3>2. Grouped(b, call.count) \in Buffer
      BY <2>1, <3>1, GroupedIs DEF Holds
    <3> QED BY <2>1, <3>2
  <2> QED BY <2>2, <2>3
<1>3. CASE call.do = "undo"
  <2>1. After(b, call) = Undone(b)
    BY <1>3 DEF After
  <2>2. CASE b.applied = <<>>
    BY <2>1, <2>2 DEF Undone
  <2>3. CASE b.applied # <<>>
    BY <2>1, <2>3, UndoneIs DEF Holds
  <2> QED BY <2>2, <2>3
<1>4. CASE call.do = "redo"
  <2>1. After(b, call) = Redone(b)
    BY <1>4 DEF After
  <2>2. CASE b.undone = <<>>
    BY <2>1, <2>2 DEF Redone
  <2>3. CASE b.undone # <<>>
    BY <2>1, <2>3, RedoneIs DEF Holds
  <2> QED BY <2>2, <2>3
<1> QED BY <1>1, <1>2, <1>3, <1>4, CallCases

\* The calls for the bytes of a cell write a byte each.
LEMMA ByteCallsType ==
    ASSUME NEW a \in Nat, NEW b \in Content, NEW old
    PROVE  ByteCalls(a, b, old) \in Seq(Small)
<1> DEFINE calls ==
           [i \in 1 .. Len(b) |->
               IF b[i] # old[i] THEN <<WriteCall(a + i - 1, <<b[i]>>)>> ELSE <<>>]
<1>1. Len(b) \in Nat /\ DOMAIN b = 1 .. Len(b)
  BY DEF Content
<1>2. ASSUME NEW i \in 1 .. Len(b)
      PROVE  (IF b[i] # old[i] THEN <<WriteCall(a + i - 1, <<b[i]>>)>> ELSE <<>>) \in Seq(Small)
  <2>1. a + i - 1 \in Nat
    BY <1>1
  <2>2. b[i] \in Bytes
    BY ElementOfSeq DEF Content
  <2>3. WriteCall(a + i - 1, <<b[i]>>) \in Small
    BY <2>1, <2>2, CallMade
  <2> HIDE DEF calls
  <2> QED BY <2>3
<1>3. calls \in [1 .. Len(b) -> Seq(Small)]
  BY <1>2
<1>4. ByteCalls(a, b, old) = FlattenSeq(calls)
  BY <1>1 DEF ByteCalls
<1> HIDE DEF calls
<1>5. calls \in Seq(Seq(Small))
  BY <1>1, <1>3, SeqOfFunction
<1> QED BY <1>4, <1>5, FlattenType

-----------------------------------------------------------------------------
(* The types                                                               *)

\* The types of the variables
Types ==
    /\ buffer \in Buffer
    /\ main \in Seq(Call) /\ import \in Seq(Small)
    /\ editing \in Address \union {NoCell}
    /\ saving \subseteq Content
    /\ file \in Content /\ dirty \in BOOLEAN /\ mark \in Nat
    /\ history \in [beyond : BOOLEAN, mixed : BOOLEAN, shifted : BOOLEAN]
    /\ edits \in 0 .. MaxEdits

\* A provider is opened with nothing on its stacks.
LEMMA EmptyBuffer ==
    ASSUME NEW d \in Content
    PROVE  [data |-> d, applied |-> <<>>, undone |-> <<>>, first |-> <<>>] \in Buffer
<1>1. <<>> \in Values
  <2>1. <<>> \in [{} -> Bytes]
    <3>1. <<>> \in [1 .. 0 -> Bytes]
      BY EmptySeq, LenProperties
    <3>2. 1 .. 0 = {}
      OBVIOUS
    <3> QED BY <3>1, <3>2
  <2> QED BY <2>1 DEF Values
<1> QED BY <1>1, EmptySeq DEF Buffer

\* The types hold initially.
LEMMA InitTypes == Init => Types
<1> SUFFICES ASSUME Init PROVE Types
  OBVIOUS
<1>1. buffer \in Buffer /\ file \in Content
  BY UndoAssumption, EmptyBuffer DEF Init, Content
<1>2. main \in Seq(Call) /\ import \in Seq(Small)
  BY EmptySeq DEF Init
<1>3. edits \in 0 .. MaxEdits
  BY UndoAssumption DEF Init
<1>4. history \in [beyond : BOOLEAN, mixed : BOOLEAN, shifted : BOOLEAN]
  BY DEF Init
<1>5. editing \in Address \union {NoCell} /\ dirty \in BOOLEAN /\ mark \in Nat
      /\ saving \subseteq Content
  BY DEF Init
<1> QED BY <1>1, <1>2, <1>3, <1>4, <1>5 DEF Types

\* What the editor reads of the provider are bytes.
LEMMA LiveType ==
    ASSUME NEW a \in Nat, NEW n \in Nat, buffer \in Buffer
    PROVE  Live(a, n) \in Content
<1>1. Zeros(n) \in Content /\ Len(Zeros(n)) = n /\ buffer.data \in Content
  BY ZerosType, BufferFields
<1> QED BY <1>1, ReadRawType DEF Live

\* Making a call keeps the types of what it changes.
LEMMA MakeTypes ==
    ASSUME Types, NEW call \in Call, Make(call)
    PROVE  buffer' \in Buffer /\ dirty' \in BOOLEAN
           /\ history' \in [beyond : BOOLEAN, mixed : BOOLEAN, shifted : BOOLEAN]
<1>1. buffer' \in Buffer
  BY AfterType DEF Types, Make
<1>2. dirty' \in BOOLEAN
  BY DEF Types, Make
<1>3. /\ (history.beyond \/ IsBeyond(buffer, call)) \in BOOLEAN
      /\ (history.mixed \/ (call.do = "group" /\ OrderMatters(buffer, call.count))) \in BOOLEAN
      /\ (history.shifted \/ Shifts(buffer, call)) \in BOOLEAN
  OBVIOUS
<1>4. history' \in [beyond : BOOLEAN, mixed : BOOLEAN, shifted : BOOLEAN]
  BY <1>3 DEF Make
<1> QED BY <1>1, <1>2, <1>4

\* The calls of a fill and of an import: a write for every byte, then a group
LEMMA FillCallsType ==
    ASSUME NEW a \in Nat, NEW n \in Nat, NEW c \in Nat, NEW b, \A i \in 1 .. n : b[i] \in Bytes
    PROVE  Append([i \in 1 .. n |-> WriteCall(a + i - 1, <<b[i]>>)], GroupCall(c)) \in Seq(Small)
<1> DEFINE calls == [i \in 1 .. n |-> WriteCall(a + i - 1, <<b[i]>>)]
<1>1. ASSUME NEW i \in 1 .. n PROVE WriteCall(a + i - 1, <<b[i]>>) \in Small
  <2>1. a + i - 1 \in Nat
    OBVIOUS
  <2> QED BY <2>1, CallMade
<1>2. calls \in [1 .. n -> Small]
  BY <1>1
<1> HIDE DEF calls
<1>3. calls \in Seq(Small)
  BY <1>2, SeqOfFunction
<1>4. GroupCall(c) \in Small
  BY CallMade
<1> QED BY <1>3, <1>4, AppendProperties DEF calls

\* The calls of a resize are insertions and removals.
LEMMA ResizeCallsType ==
    ASSUME buffer \in Buffer, NEW n \in Nat
    PROVE  ResizeCalls(n) \in Seq(Small)
<1> PICK size \in Nat : size = Len(buffer.data)
  BY BufferFields DEF Content
<1>1. CASE n > size
  <2>1. InsertCall(size, n - size) \in Small
    BY <1>1, CallMade
  <2>2. ResizeCalls(n) = <<InsertCall(size, n - size)>>
    BY <1>1 DEF ResizeCalls
  <2> QED BY <2>1, <2>2
<1>2. CASE n < size
  <2>1. RemoveCall(n, size - n) \in Small
    BY <1>2, CallMade
  <2>2. ResizeCalls(n) = <<RemoveCall(n, size - n)>>
    BY <1>2 DEF ResizeCalls
  <2> QED BY <2>1, <2>2
<1>3. CASE n = size
  BY <1>3, EmptySeq DEF ResizeCalls
<1> QED BY <1>1, <1>2, <1>3

\* What the user does: most of it begins a series of small calls.
Begins == \E calls \in Seq(Small) : Begin(calls) /\ editing' \in Address \union {NoCell}
Leaves == editing' = NoCell
    /\ UNCHANGED <<buffer, line, main, import, saving, file, dirty, mark, history, edits>>
Saves == SaveBegins \/ SaveEnds \/ SaveFails

\* A step of the user begins a series of small calls, leaves the insert mode, saves, pastes or
\* begins an import.
LEMMA UserBegins ==
    ASSUME Types, UserStep
    PROVE  \/ Begins \/ Leaves \/ Saves
           \/ \E a \in Address, b \in Texts : Paste(a, b) \/ ImportPatch(a, b)
<1>1. /\ buffer \in Buffer
      /\ \A a \in Address : a \in Nat
      /\ \A n \in Size : n \in Nat
      /\ \A v \in Bytes : <<v>> \in Content
      /\ \A b \in Texts : b \in Content /\ Len(b) \in Nat
  BY UndoAssumption DEF Types, Address, Size, Content
<1>2. ASSUME NEW calls \in Seq(Small), Simple(calls) PROVE Begins
  BY <1>2 DEF Types, Simple, Begins
<1>3. ASSUME NEW a \in Address, NEW b \in Texts, TypeOver(a, b) PROVE Begins
  <2> DEFINE writes == ByteCalls(a, b, Live(a, Len(b)))
  <2>1. writes \in Seq(Small)
    BY <1>1, ByteCallsType
  <2>2. Append(writes, GroupCall(Len(writes))) \in Seq(Small)
    BY <2>1, CallMade, AppendProperties
  <2>3. Simple(Append(writes, GroupCall(Len(writes))))
    BY <1>3 DEF TypeOver
  <2> QED BY <1>2, <2>2, <2>3
<1>4. ASSUME NEW a \in Address, NEW n \in Size, InsertBytes(a, n) \/ RemoveBytes(a, n) PROVE Begins
  <2>1. InsertCall(a, n) \in Small /\ RemoveCall(a, n) \in Small
    BY <1>1, CallMade
  <2>2. <<InsertCall(a, n)>> \in Seq(Small) /\ <<RemoveCall(a, n)>> \in Seq(Small)
    BY <2>1
  <2> QED BY <1>2, <1>4, <2>2 DEF InsertBytes, RemoveBytes
<1>5. ASSUME NEW a \in Address, NEW n \in Size, NEW v \in Bytes, Fill(a, n, v) PROVE Begins
  <2> DEFINE b == [i \in 1 .. n |-> v]
             calls == Append([i \in 1 .. n |-> WriteCall(a + i - 1, <<v>>)], GroupCall(n))
  <2>1. [i \in 1 .. n |-> WriteCall(a + i - 1, <<b[i]>>)] =
          [i \in 1 .. n |-> WriteCall(a + i - 1, <<v>>)]
    OBVIOUS
  <2>2. \A i \in 1 .. n : b[i] \in Bytes
    OBVIOUS
  <2>3. Append([i \in 1 .. n |-> WriteCall(a + i - 1, <<b[i]>>)], GroupCall(n)) \in Seq(Small)
    <3> HIDE DEF b
    <3> QED BY <1>1, <2>2, FillCallsType
  <2>4. calls \in Seq(Small) /\ Simple(calls)
    BY <1>5, <2>1, <2>3 DEF Fill
  <2> HIDE DEF calls
  <2> QED BY <1>2, <2>4
<1>6. ASSUME NEW a \in Address, EnterInsertMode(a) PROVE Begins
  <2>1. InsertCall(a, 1) \in Small
    BY <1>1, CallMade
  <2>2. <<InsertCall(a, 1)>> \in Seq(Small)
    BY <2>1
  <2> QED BY <1>6, <2>2 DEF EnterInsertMode, Begins
<1>7. ASSUME NEW a \in Address, Resize(a) PROVE Begins
  BY <1>1, <1>2, <1>7, ResizeCallsType DEF Resize
<1>8. ASSUME NEW v \in Bytes, LeaveInsertMode(v) PROVE Begins \/ Leaves
  <2> DEFINE calls == Append(ByteCalls(editing, <<v>>, Live(editing, 1)), UndoCall)
  <2>1. editing \in Nat
    BY <1>1, <1>8 DEF LeaveInsertMode, Types
  <2>2. calls \in Seq(Small)
    BY <1>1, <2>1, ByteCallsType, CallMade, AppendProperties
  <2> HIDE DEF calls
  <2>3. CASE Begin(calls) /\ editing' = NoCell
    BY <2>2, <2>3 DEF Begins
  <2> QED BY <1>8, <2>3 DEF LeaveInsertMode, Leaves, calls
<1>9. ASSUME NEW v \in Bytes, NEW ended \in BOOLEAN, TypeCell(v, ended) PROVE Begins
  <2> DEFINE bytes == ByteCalls(editing, <<v>>, Live(editing, 1))
             next == <<InsertCall(editing + 1, 1)>>
             group == IF ended THEN <<>> ELSE <<GroupCall(2)>>
  <2>1. editing \in Nat /\ editing + 1 \in Nat /\ editing' \in Address \union {NoCell}
    BY <1>9, UndoAssumption DEF TypeCell, Types, Address
  <2>2. bytes \in Seq(Small)
    BY <1>1, <2>1, ByteCallsType
  <2>3. next \in Seq(Small)
    <3>1. InsertCall(editing + 1, 1) \in Small
      BY <2>1, CallMade
    <3> QED BY <3>1
  <2>4. group \in Seq(Small)
    <3>1. GroupCall(2) \in Small
      BY CallMade
    <3> QED BY <3>1
  <2>5. Begin(bytes \o next \o group)
    BY <1>9 DEF TypeCell
  <2> HIDE DEF bytes, next, group
  <2>6. bytes \o next \in Seq(Small)
    BY <2>2, <2>3, ConcatProperties
  <2>7. bytes \o next \o group \in Seq(Small)
    BY <2>4, <2>6, ConcatProperties
  <2> QED BY <2>1, <2>5, <2>7 DEF Begins
<1>10. ASSUME Undo \/ Redo PROVE Begins
  <2>1. <<UndoCall>> \in Seq(Small) /\ <<RedoCall>> \in Seq(Small)
    BY CallMade
  <2> QED BY <1>2, <1>10, <2>1 DEF Undo, Redo
<1> QED BY <1>3, <1>4, <1>5, <1>6, <1>7, <1>8, <1>9, <1>10, Zenon DEF UserStep, Saves

\* The calls of a paste, which may be of more than a byte
PasteCalls(a, b) ==
    Append(IF a + Len(b) >= Len(buffer.data) THEN ResizeCalls(a + Len(b)) ELSE <<>>,
           WriteCall(a, b))

\* A save reads and writes bytes.
LEMMA SavesTypes ==
    ASSUME Types, Saves
    PROVE  Types'
<1>1. buffer \in Buffer /\ buffer.data \in Content /\ Len(buffer.applied) \in Nat
      /\ history \in [beyond : BOOLEAN, mixed : BOOLEAN, shifted : BOOLEAN]
  BY BufferFields DEF Types
<1>2. ASSUME SaveBegins PROVE Types'
  BY <1>1, <1>2 DEF SaveBegins, Types
<1>3. ASSUME SaveEnds PROVE Types'
  <2>1. file' \in Content
    <3>1. file' \in [1 .. Len(buffer.data) -> Bytes] /\ Len(buffer.data) \in Nat
      BY <1>1, <1>3 DEF SaveEnds, Written, Content
    <3> QED BY <3>1, SeqOfFunction DEF Content
  <2>2. buffer' \in Buffer
    <3>1. <<>> \in Values
      BY <1>1, EmptyBuffer DEF Buffer
    <3>2. buffer' = [buffer EXCEPT !.first = <<>>]
      BY <1>3 DEF SaveEnds
    <3> QED BY <1>1, <3>1, <3>2 DEF Buffer
  <2>3. history' \in [beyond : BOOLEAN, mixed : BOOLEAN, shifted : BOOLEAN]
    <3>1. history' = [history EXCEPT !.shifted = buffer.undone # <<>> \/ file' # buffer.data]
      BY <1>3 DEF SaveEnds
    <3>2. (buffer.undone # <<>> \/ file' # buffer.data) \in BOOLEAN
      OBVIOUS
    <3> QED BY <1>1, <3>1, <3>2
  <2>4. saving' \subseteq Content /\ dirty' \in BOOLEAN /\ mark' \in Nat
    BY <1>1, <1>3 DEF SaveEnds
  <2> QED BY <1>3, <2>1, <2>2, <2>3, <2>4 DEF SaveEnds, Types
<1>4. ASSUME SaveFails PROVE Types'
  <2>1. file' \in Content
    <3>1. PICK d \in saving : \E n \in 0 .. Len(d) :
             file' \in {file, d, Upto(d, n) \o From(file, n)}
      BY <1>4 DEF SaveFails
    <3> PICK n \in 0 .. Len(d) : file' \in {file, d, Upto(d, n) \o From(file, n)}
      BY <3>1
    <3>2. d \in Content /\ file \in Content
      BY DEF Types
    <3>3. Upto(d, n) \in Content /\ From(file, n) \in Content
      BY <3>2, UptoType, FromType
    <3>4. Upto(d, n) \o From(file, n) \in Content
      BY <3>3, ConcatProperties DEF Content
    <3> QED BY <3>1, <3>2, <3>4
  <2>2. history' \in [beyond : BOOLEAN, mixed : BOOLEAN, shifted : BOOLEAN]
    <3>1. history' = [history EXCEPT !.shifted = @ \/ file' # file]
      BY <1>4 DEF SaveFails
    <3>2. (history.shifted \/ file' # file) \in BOOLEAN
      OBVIOUS
    <3> QED BY <1>1, <3>1, <3>2
  <2>3. saving' \subseteq Content
    BY <1>4 DEF SaveFails
  <2> QED BY <1>4, <2>1, <2>2, <2>3 DEF SaveFails, Types
<1> QED BY <1>2, <1>3, <1>4 DEF Saves

\* Every step keeps the types.
LEMMA NextTypes == Types /\ [Next]_vars => Types'
<1> SUFFICES ASSUME Types, [Next]_vars PROVE Types'
  OBVIOUS
<1>1. /\ buffer \in Buffer /\ main \in Seq(Call) /\ import \in Seq(Small)
      /\ \A a \in Address : a \in Nat
      /\ \A b \in Texts : b \in Content /\ Len(b) \in Nat /\ DOMAIN b = 1 .. Len(b)
  BY UndoAssumption DEF Types, Address, Content
<1>2. Small \subseteq Call /\ Seq(Small) \subseteq Seq(Call)
  <2>1. Small \subseteq Call
    BY DEF Small
  <2> QED BY <2>1, SeqMonotonic
<1>3. ASSUME NEW calls \in Seq(Call), Begin(calls), editing' \in Address \union {NoCell}
      PROVE Types'
  BY <1>3, UndoAssumption DEF Types, Begin
<1>4. CASE Begins
  BY <1>2, <1>3, <1>4 DEF Begins
<1>5. CASE Leaves
  BY <1>5 DEF Leaves, Types
<1>6. ASSUME NEW a \in Address, NEW b \in Texts, Paste(a, b) PROVE Types'
  <2>1. a + Len(b) \in Nat
    BY <1>1
  <2> DEFINE first == IF a + Len(b) >= Len(buffer.data) THEN ResizeCalls(a + Len(b)) ELSE <<>>
  <2>2. first \in Seq(Call)
    BY <1>1, <1>2, <2>1, ResizeCallsType, EmptySeq
  <2>3. PasteCalls(a, b) \in Seq(Call)
    BY <1>1, <2>2, CallMade, AppendProperties DEF PasteCalls
  <2>4. Begin(PasteCalls(a, b)) /\ editing' \in Address \union {NoCell}
    BY <1>6 DEF Paste, PasteCalls, Simple, Types
  <2> QED BY <1>3, <2>3, <2>4
<1>7. ASSUME NEW a \in Address, NEW b \in Texts, ImportPatch(a, b) PROVE Types'
  <2>1. \A i \in 1 .. Len(b) : b[i] \in Bytes
    BY <1>1, ElementOfSeq DEF Content
  <2>2. import' \in Seq(Small)
    BY <1>1, <1>7, <2>1, FillCallsType DEF ImportPatch
  <2>3. edits' \in 0 .. MaxEdits
    BY <1>7, UndoAssumption DEF ImportPatch, Types
  <2> QED BY <1>7, <2>2, <2>3 DEF ImportPatch, Types
<1>8. CASE Saves
  BY <1>8, SavesTypes
<1>9. ASSUME MainCalls PROVE Types'
  <2>1. Head(main) \in Call /\ Tail(main) \in Seq(Call)
    BY <1>1, <1>9, HeadTailProperties DEF MainCalls
  <2>2. buffer' \in Buffer /\ dirty' \in BOOLEAN
        /\ history' \in [beyond : BOOLEAN, mixed : BOOLEAN, shifted : BOOLEAN]
    BY <1>9, <2>1, MakeTypes DEF MainCalls
  <2> QED BY <1>9, <2>1, <2>2 DEF MainCalls, Types
<1>10. ASSUME ImportCalls PROVE Types'
  <2>1. Head(import) \in Call /\ Tail(import) \in Seq(Small)
    BY <1>1, <1>2, <1>10, HeadTailProperties DEF ImportCalls
  <2>2. buffer' \in Buffer /\ dirty' \in BOOLEAN
        /\ history' \in [beyond : BOOLEAN, mixed : BOOLEAN, shifted : BOOLEAN]
    BY <1>10, <2>1, MakeTypes DEF ImportCalls
  <2>3. saving' \subseteq Content
    <3>1. buffer'.data \in Content
      BY <2>2, BufferFields
    <3>2. saving' = Seen /\ saving \subseteq Content
      BY <1>10 DEF ImportCalls, Types
    <3> QED BY <3>1, <3>2 DEF Seen
  <2> QED BY <1>10, <2>1, <2>2, <2>3 DEF ImportCalls, Types
<1>11. ASSUME UNCHANGED vars PROVE Types'
  BY <1>11 DEF Types, vars
<1>12. CASE UserStep
  BY <1>4, <1>5, <1>6, <1>7, <1>8, <1>12, UserBegins
<1> QED BY <1>9, <1>10, <1>11, <1>12 DEF Next

\* The types are what TypeOK asks for.
LEMMA TypesImply == Types => TypeOK
<1> SUFFICES ASSUME Types PROVE TypeOK
  OBVIOUS
<1>1. buffer.data \in Content /\ buffer.applied \in Seq(Entry) /\ buffer.undone \in Seq(Entry)
      /\ buffer.first \in Values
  BY BufferFields DEF Types
<1>2. ASSUME NEW s \in Seq(Entry), NEW entry \in ToSet(s), NEW i \in DOMAIN entry
      PROVE  IsOperation(entry[i])
  <2>1. entry \in Entry
    BY ElementOfSeq DEF ToSet
  <2>2. entry[i] \in Op
    BY <2>1, ElementOfSeq DEF Entry
  <2> QED BY <2>2 DEF Op
<1>3. \A a \in DOMAIN buffer.first : a \in Nat /\ buffer.first[a] \in Bytes
  BY <1>1 DEF Values
<1> QED BY <1>1, <1>2, <1>3 DEF Types, TypeOK, Content

\* The state is always of its type.
THEOREM TypeCorrect == Spec => []TypeOK
<1>1. Spec => []Types
  BY InitTypes, NextTypes, PTL DEF Spec
<1> QED BY <1>1, TypesImply, PTL

-----------------------------------------------------------------------------
(* Undo and redo                                                           *)

\* The parts of an entry lead from one content to another and back, each of them.
Leads(data, entry) == \A i \in 1 .. Len(entry) : Joined(data[i - 1], entry[i], data[i])
Linked(d, entry, e) ==
    \E data : /\ data \in [0 .. Len(entry) -> Content]
              /\ data[0] = d /\ data[Len(entry)] = e
              /\ Leads(data, entry)
\* The stack undoes them from the first to the last, which has to lead back as well.
Reversible(d, entry, e) == Linked(d, entry, e) /\ UndoEntry(e, entry) = d

\* Doing an entry again where it led from leads to where it led, and it keeps the same bytes.
LEMMA LinkedRedo ==
    ASSUME NEW d, NEW entry \in Entry, NEW e, Linked(d, entry, e)
    PROVE  RedoEntry(d, entry) = [data |-> e, entry |-> entry]
<1> PICK n \in Nat : n = Len(entry)
  BY DEF Entry
<1>1. PICK data : data[0] = d /\ data[n] = e /\ Leads(data, entry)
  BY Zenon DEF Linked
<1>2. RedoesParts(data, d, entry)
  BY <1>1, Zenon DEF RedoesParts, Leads, Joined
<1>3. RedoEntry(d, entry) =
         [data |-> data[n], entry |-> [i \in 1 .. n |-> Kept(data[i - 1], entry[i])]]
  BY <1>2, RedoEntryIs, Zenon
<1>4. \A i \in 1 .. n : Kept(data[i - 1], entry[i]) = entry[i]
  BY <1>1, Zenon DEF Leads, Joined
<1>5. [i \in 1 .. n |-> Kept(data[i - 1], entry[i])] = [i \in 1 .. n |-> entry[i]]
  BY <1>4
<1>6. [i \in 1 .. n |-> entry[i]] = entry
  BY DEF Entry
<1> QED BY <1>1, <1>3, <1>5, <1>6, Zenon

\* The parts of an entry, undone from the last to the first, lead back to where it led from.
LEMMA LinkedUndo ==
    ASSUME NEW d, NEW entry \in Entry, NEW e, Linked(d, entry, e)
    PROVE  UndoEntry(e, Reverse(entry)) = d
<1> PICK n \in Nat : n = Len(entry)
  BY DEF Entry
<1>1. PICK data : data[0] = d /\ data[n] = e /\ Leads(data, entry)
  BY Zenon DEF Linked
<1> DEFINE rev == [i \in 1 .. n |-> entry[n - i + 1]]
           back == [i \in 0 .. n |-> data[n - i]]
<1>2. Reverse(entry) = rev
  BY DEF Reverse
<1>3. rev \in [1 .. n -> Op]
  <2> SUFFICES ASSUME NEW i \in 1 .. n PROVE entry[n - i + 1] \in Op
    OBVIOUS
  <2>1. n - i + 1 \in 1 .. n
    OBVIOUS
  <2> QED BY <2>1, ElementOfSeq DEF Entry
<1>4. ASSUME NEW i \in 1 .. n PROVE back[i] = UndoOperation(back[i - 1], rev[i])
  <2>1. n - i + 1 \in 1 .. n /\ (n - i + 1) - 1 = n - i
        /\ n - (i - 1) = n - i + 1 /\ i - 1 \in 0 .. n
    OBVIOUS
  <2>2. data[(n - i + 1) - 1] = UndoOperation(data[n - i + 1], entry[n - i + 1])
    BY <1>1, <2>1, Zenon DEF Leads, Joined
  <2>3. back[i] = data[n - i] /\ back[i - 1] = data[n - i + 1] /\ rev[i] = entry[n - i + 1]
    BY <2>1
  <2> QED BY <2>1, <2>2, <2>3, Zenon
<1>5. back[0] = data[n] /\ back[n] = data[0]
  OBVIOUS
<1> HIDE DEF rev, back
<1>6. rev \in Entry /\ Len(rev) = n
  BY <1>3, SeqOfFunction DEF Entry
<1>7. UndoesParts(back, e, rev)
  BY <1>1, <1>4, <1>5, <1>6 DEF UndoesParts
<1>8. UndoEntry(e, rev) = back[n]
  BY <1>6, <1>7, UndoEntryIs
<1> QED BY <1>1, <1>2, <1>5, <1>8, Zenon

\* A group of nothing leads nowhere.
LEMMA LinkedEmpty == ASSUME NEW d \in Content PROVE Linked(d, <<>>, d)
<1> DEFINE data == [i \in 0 .. 0 |-> d]
<1>1. data \in [0 .. 0 -> Content] /\ data[0] = d
  OBVIOUS
<1>2. Leads(data, <<>>)
  BY DEF Leads
<1> HIDE DEF data
<1>3. Len(<<>>) = 0
  OBVIOUS
<1> QED BY <1>1, <1>2, <1>3, Zenon DEF Linked

\* An entry of one operation is undone by undoing that operation.
LEMMA LinkedSingle ==
    ASSUME NEW d \in Content, NEW op \in Op, NEW e \in Content, Joined(d, op, e)
    PROVE  Reversible(d, <<op>>, e)
<1> DEFINE data == [i \in 0 .. 1 |-> IF i = 0 THEN d ELSE e]
<1>1. data \in [0 .. 1 -> Content] /\ data[0] = d /\ data[1] = e
  OBVIOUS
<1> HIDE DEF data
<1>2. Len(<<op>>) = 1 /\ <<op>>[1] = op /\ \A i \in 1 .. 1 : i = 1 /\ i - 1 = 0
  OBVIOUS
<1>3. Leads(data, <<op>>)
  BY <1>1, <1>2 DEF Leads
<1>4. Linked(d, <<op>>, e)
  BY <1>1, <1>2, <1>3, Zenon DEF Linked
<1>5. UndoEntry(e, <<op>>) = d
  BY SingleIs DEF Joined
<1> QED BY <1>4, <1>5 DEF Reversible

\* Entries that follow each other can be joined.
LEMMA LinkedConcat ==
    ASSUME NEW d, NEW first \in Entry, NEW e, NEW second \in Entry, NEW f,
           Linked(d, first, e), Linked(e, second, f)
    PROVE  Linked(d, first \o second, f)
<1> PICK m \in Nat, n \in Nat : m = Len(first) /\ n = Len(second)
  BY DEF Entry
<1> PICK both \in Entry : both = first \o second
  BY ConcatProperties DEF Entry
<1>1. Len(both) = m + n
      /\ \A i \in 1 .. m + n : both[i] = IF i <= m THEN first[i] ELSE second[i - m]
  BY ConcatProperties DEF Entry
<1>2. PICK x : x \in [0 .. m -> Content] /\ x[0] = d /\ x[m] = e /\ Leads(x, first)
  BY Zenon DEF Linked
<1>3. PICK y : y \in [0 .. n -> Content] /\ y[0] = e /\ y[n] = f /\ Leads(y, second)
  BY Zenon DEF Linked
<1> DEFINE data == [i \in 0 .. m + n |-> IF i <= m THEN x[i] ELSE y[i - m]]
<1>4. data \in [0 .. m + n -> Content]
  <2> SUFFICES ASSUME NEW i \in 0 .. m + n PROVE (IF i <= m THEN x[i] ELSE y[i - m]) \in Content
    OBVIOUS
  <2>1. i <= m => i \in 0 .. m
    OBVIOUS
  <2>2. ~(i <= m) => i - m \in 0 .. n
    OBVIOUS
  <2>3. i <= m => x[i] \in Content
    BY <1>2, <2>1, Zenon
  <2>4. ~(i <= m) => y[i - m] \in Content
    BY <1>3, <2>2, Zenon
  <2> QED BY <2>3, <2>4
<1>5. data[0] = d
  <2>1. 0 \in 0 .. m + n /\ 0 <= m
    OBVIOUS
  <2> QED BY <1>2, <2>1
<1>6. \A i \in 0 .. n : data[m + i] = y[i]
  <2> TAKE i \in 0 .. n
  <2>1. m + i \in 0 .. m + n /\ (m + i) - m = i /\ (m + i <= m => i = 0)
    OBVIOUS
  <2>2. CASE i = 0
    BY <1>2, <1>3, <2>1, <2>2
  <2>3. CASE i # 0
    BY <2>1, <2>3
  <2> QED BY <2>2, <2>3
<1>7. \A i \in 0 .. m : data[i] = x[i]
  OBVIOUS
<1> HIDE DEF data
<1>8. ASSUME NEW i \in 1 .. m + n PROVE Joined(data[i - 1], both[i], data[i])
  <2>1. CASE i <= m
    <3>1. i \in 1 .. m /\ i \in 0 .. m /\ i - 1 \in 0 .. m
      BY <2>1
    <3>2. Joined(x[i - 1], first[i], x[i])
      BY <1>2, <3>1, Zenon DEF Leads
    <3> QED BY <1>1, <1>7, <2>1, <3>1, <3>2
  <2>2. CASE ~(i <= m)
    <3> PICK j \in 1 .. n : i = m + j
      <4>1. i - m \in 1 .. n /\ i = m + (i - m)
        BY <2>2
      <4> QED BY <4>1, Zenon
    <3>1. j \in 0 .. n /\ j - 1 \in 0 .. n /\ i - m = j /\ i - 1 = m + (j - 1)
      OBVIOUS
    <3>2. Joined(y[j - 1], second[j], y[j])
      BY <1>3, Zenon DEF Leads
    <3>3. data[i - 1] = y[j - 1] /\ data[i] = y[j]
      BY <1>6, <3>1
    <3>4. both[i] = second[j]
      BY <1>1, <2>2, <3>1
    <3> QED BY <3>2, <3>3, <3>4
  <2> QED BY <2>1, <2>2
<1>9. Leads(data, both)
  BY <1>1, <1>8 DEF Leads
<1>10. data[m + n] = f
  <2>1. n \in 0 .. n
    OBVIOUS
  <2> QED BY <1>3, <1>6, <2>1
<1>11. Linked(d, both, f)
  BY <1>1, <1>4, <1>5, <1>9, <1>10, Zenon DEF Linked
<1> QED BY <1>11

\* The entries that are grouped lead through all their contents.
LEMMA LinkedFlatten ==
    ASSUME NEW s \in Seq(Entry), NEW n \in Nat, n = Len(s),
           NEW k \in 0 .. n, NEW c, c[k] \in Content,
           \A i \in 1 .. n : Linked(c[i - 1], s[i], c[i])
    PROVE  Linked(c[k], FlattenSeq(SubSeq(s, k + 1, n)), c[n])
<1> DEFINE T == {j \in Nat : Linked(c[k], FlattenSeq(SubSeq(s, k + 1, k + j)), c[k + j])}
<1>1. 0 \in T
  <2>1. SubSeq(s, k + 1, k + 0) = <<>> /\ k + 0 = k
    BY SubSeqEmpty
  <2> QED BY <2>1, FlattenEmpty, LinkedEmpty
<1>2. ASSUME NEW j \in 1 .. n - k, j - 1 \in T PROVE j \in T
  <2> PICK i \in 1 .. n : i = k + j
    <3>1. k + j \in 1 .. n
      OBVIOUS
    <3> QED BY <3>1, Zenon
  <2>1. k + 1 \in 1 .. n /\ i \in k + 1 .. n /\ k + (j - 1) = i - 1
    OBVIOUS
  <2> DEFINE before == SubSeq(s, k + 1, i - 1)
  <2>2. before \in Seq(Entry)
    <3>1. \A x \in k + 1 .. i - 1 : x \in 1 .. n
      OBVIOUS
    <3>2. \A x \in k + 1 .. i - 1 : s[x] \in Entry
      BY <3>1, ElementOfSeq
    <3> QED BY <2>1, <3>2, SubSeqProperties
  <2>3. s[i] \in Entry
    BY ElementOfSeq
  <2>4. SubSeq(s, k + 1, i) = Append(before, s[i])
    <3>1. SubSeq(s, k + 1, i) = before \o <<s[i]>>
      BY <2>1, SubSeqRecursiveSecond
    <3> HIDE DEF before
    <3> QED BY <2>2, <2>3, <3>1, AppendIsConcat
  <2>5. Linked(c[k], FlattenSeq(before), c[i - 1])
    BY <1>2, <2>1
  <2> HIDE DEF before
  <2>6. FlattenSeq(before) \in Entry
    BY <2>2, FlattenType DEF Entry
  <2>7. FlattenSeq(Append(before, s[i])) = FlattenSeq(before) \o s[i]
    BY <2>2, <2>3, FlattenAppend DEF Entry
  <2>8. Linked(c[k], FlattenSeq(before) \o s[i], c[i])
    BY <2>3, <2>5, <2>6, LinkedConcat
  <2>9. Linked(c[k], FlattenSeq(SubSeq(s, k + 1, i)), c[i])
    BY <2>4, <2>7, <2>8, Zenon
  <2>10. j \in Nat
    OBVIOUS
  <2> QED BY <2>9, <2>10
<1> HIDE DEF T
<1>3. 0 .. n - k \subseteq T
  <2>1. n - k \in Nat
    OBVIOUS
  <2> QED BY <1>1, <1>2, <2>1, Induction
<1>4. n - k \in T /\ k + (n - k) = n
  BY <1>3
<1> QED BY <1>4 DEF T

\* The contents that the stacks lead through
IsPast(c, b) ==
    /\ c \in [0 .. Len(b.applied) -> Content] /\ c[Len(b.applied)] = b.data
    /\ \A i \in 1 .. Len(b.applied) : Reversible(c[i - 1], b.applied[i], c[i])
IsFuture(c, b) ==
    /\ c \in [0 .. Len(b.undone) -> Content] /\ c[0] = b.data
    /\ \A i \in 1 .. Len(b.undone) :
          Reversible(c[i - 1], b.undone[Len(b.undone) - i + 1], c[i])

\* Before, which is defined by recursion, are the data the applied entries led through.
LEMMA BeforeIs ==
    ASSUME NEW b \in Buffer, NEW c, IsPast(c, b)
    PROVE  Before(b) = [i \in 1 .. Len(b.applied) |-> c[i - 1]]
<1> PICK n \in Nat : n = Len(b.applied)
  BY BufferFields
<1> DEFINE Defines(f) ==
             f = [i \in 0 .. n |-> IF i = 0 THEN b.data
                   ELSE UndoEntry(f[i - 1], b.applied[n - i + 1])]
           f == CHOOSE f : Defines(f)
           g == [i \in 0 .. n |-> c[n - i]]
<1>1. Before(b) = [i \in 1 .. n |-> f[n - i + 1]]
  BY DEF Before
<1>2. ASSUME NEW i \in 1 .. n PROVE g[i] = UndoEntry(g[i - 1], b.applied[n - i + 1])
  <2>1. n - i + 1 \in 1 .. n /\ (n - i + 1) - 1 = n - i /\ n - (i - 1) = n - i + 1
        /\ i - 1 \in 0 .. n /\ i \in 0 .. n
    OBVIOUS
  <2>2. UndoEntry(c[n - i + 1], b.applied[n - i + 1]) = c[(n - i + 1) - 1]
    BY <2>1, Zenon DEF IsPast, Reversible
  <2>3. g[i] = c[n - i] /\ g[i - 1] = c[n - i + 1]
    BY <2>1
  <2> QED BY <2>1, <2>2, <2>3
<1>3. g[0] = b.data
  BY DEF IsPast
<1>4. Defines(g)
  <2> SUFFICES ASSUME NEW i \in 0 .. n
               PROVE  g[i] = IF i = 0 THEN b.data ELSE UndoEntry(g[i - 1], b.applied[n - i + 1])
    BY Zenon
  <2>1. CASE i = 0
    BY <1>3, <2>1
  <2>2. CASE i # 0
    <3>1. i \in 1 .. n
      BY <2>2
    <3> HIDE DEF g
    <3> QED BY <1>2, <2>2, <3>1
  <2> QED BY <2>1, <2>2
<1>5. \A i \in 0 .. n : g[i] = c[n - i]
  OBVIOUS
<1> HIDE DEF g, Defines
<1>6. Defines(f)
  BY <1>4, Zenon
<1> HIDE DEF f
<1>7. \A i \in 0 .. n : f[i] = IF i = 0 THEN b.data ELSE UndoEntry(f[i - 1], b.applied[n - i + 1])
  BY <1>6, Zenon DEF Defines
<1>8. GoAlike(f, g, n)
  <2>1. f[0] = g[0]
    <3>1. 0 \in 0 .. n
      OBVIOUS
    <3> QED BY <1>3, <1>7, <3>1, Zenon
  <2>2. ASSUME NEW i \in 1 .. n, f[i - 1] = g[i - 1] PROVE f[i] = g[i]
    <3>1. i \in 0 .. n /\ i # 0
      OBVIOUS
    <3> QED BY <1>2, <1>7, <2>2, <3>1, Zenon
  <2> QED BY <2>1, <2>2, Zenon DEF GoAlike
<1>9. \A i \in 0 .. n : f[i] = g[i]
  <2>1. Alike(f, g, n)
    BY <1>8, SameRun, Zenon
  <2> QED BY <2>1 DEF Alike
<1>10. ASSUME NEW i \in 1 .. n PROVE f[n - i + 1] = c[i - 1]
  <2>1. n - i + 1 \in 0 .. n /\ n - (n - i + 1) = i - 1
    OBVIOUS
  <2> QED BY <1>5, <1>9, <2>1
<1> QED BY <1>1, <1>10

\* Ahead are the data that redo leads through.
LEMMA AheadIs ==
    ASSUME NEW b \in Buffer, NEW c, IsFuture(c, b)
    PROVE  Ahead(b) = [i \in 1 .. Len(b.undone) |-> c[i]]
<1> PICK n \in Nat : n = Len(b.undone)
  BY BufferFields
<1> DEFINE Defines(f) ==
             f = [i \in 0 .. n |-> IF i = 0 THEN b.data
                   ELSE RedoEntry(f[i - 1], b.undone[n - i + 1]).data]
           f == CHOOSE f : Defines(f)
           g == [i \in 0 .. n |-> c[i]]
<1>1. Ahead(b) = [i \in 1 .. n |-> f[i]]
  BY DEF Ahead
<1>2. ASSUME NEW i \in 1 .. n PROVE c[i] = RedoEntry(c[i - 1], b.undone[n - i + 1]).data
  <2>1. Linked(c[i - 1], b.undone[n - i + 1], c[i])
    BY Zenon DEF IsFuture, Reversible
  <2>2. n - i + 1 \in 1 .. n
    OBVIOUS
  <2>3. b.undone[n - i + 1] \in Entry
    BY <2>2, BufferFields, ElementOfSeq
  <2> QED BY <2>1, <2>3, LinkedRedo
<1>3. Defines(g)
  <2> SUFFICES ASSUME NEW i \in 0 .. n
               PROVE  g[i] = IF i = 0 THEN b.data ELSE RedoEntry(g[i - 1], b.undone[n - i + 1]).data
    BY Zenon
  <2>1. CASE i = 0
    BY <2>1 DEF IsFuture
  <2>2. CASE i # 0
    <3>1. i \in 1 .. n /\ i - 1 \in 0 .. n
      BY <2>2
    <3>2. g[i] = c[i] /\ g[i - 1] = c[i - 1]
      BY <3>1
    <3> HIDE DEF g
    <3> QED BY <1>2, <2>2, <3>1, <3>2
  <2> QED BY <2>1, <2>2
<1> HIDE DEF g, Defines
<1>4. Defines(f)
  BY <1>3, Zenon
<1> HIDE DEF f
<1>5. \A i \in 0 .. n : f[i] =
          IF i = 0 THEN b.data ELSE RedoEntry(f[i - 1], b.undone[n - i + 1]).data
  BY <1>4, Zenon DEF Defines
<1>6. GoAlike(f, c, n)
  <2>1. f[0] = c[0]
    <3>1. 0 \in 0 .. n
      OBVIOUS
    <3> QED BY <1>5, <3>1, Zenon DEF IsFuture
  <2>2. ASSUME NEW i \in 1 .. n, f[i - 1] = c[i - 1] PROVE f[i] = c[i]
    <3>1. i \in 0 .. n /\ i # 0
      OBVIOUS
    <3> QED BY <1>2, <1>5, <2>2, <3>1, Zenon
  <2> QED BY <2>1, <2>2, Zenon DEF GoAlike
<1>7. \A i \in 0 .. n : f[i] = c[i]
  <2>1. Alike(f, c, n)
    BY <1>6, SameRun, Zenon
  <2> QED BY <2>1 DEF Alike
<1>8. \A i \in 1 .. n : f[i] = c[i]
  BY <1>7
<1> QED BY <1>1, <1>8

\* As long as no order mattered and nothing was beyond the end, the buffer is on a line of
\* contents, and `line' is that line.
PastSeq(c, n) == [i \in 1 .. n |-> c[i - 1]]
FutureSeq(c, n) == [i \in 1 .. n |-> c[i]]
OnLine(b, l) ==
    \E c, f : /\ IsPast(c, b) /\ IsFuture(f, b)
              /\ l = [past |-> PastSeq(c, Len(b.applied)), future |-> FutureSeq(f, Len(b.undone))]

\* The line of a buffer whose past and future are known
LEMMA LineIs ==
    ASSUME NEW b \in Buffer, NEW c, NEW f, IsPast(c, b), IsFuture(f, b)
    PROVE  /\ Line(b) =
              [past |-> PastSeq(c, Len(b.applied)), future |-> FutureSeq(f, Len(b.undone))]
           /\ OnLine(b, Line(b))
<1>1. Before(b) = PastSeq(c, Len(b.applied)) /\ Ahead(b) = FutureSeq(f, Len(b.undone))
  BY BeforeIs, AheadIs DEF PastSeq, FutureSeq
<1> QED BY <1>1, Zenon DEF OnLine, Line

\* The past as a sequence
LEMMA PastSeqType ==
    ASSUME NEW n \in Nat, NEW c \in [0 .. n -> Content]
    PROVE  /\ PastSeq(c, n) \in Seq(Content) /\ Len(PastSeq(c, n)) = n
           /\ \A i \in 1 .. n : PastSeq(c, n)[i] = c[i - 1]
<1>1. \A i \in 1 .. n : i - 1 \in 0 .. n
  OBVIOUS
<1>2. PastSeq(c, n) \in [1 .. n -> Content] /\ \A i \in 1 .. n : PastSeq(c, n)[i] = c[i - 1]
  BY <1>1 DEF PastSeq
<1> QED BY <1>2, SeqOfFunction

\* The future as a sequence
LEMMA FutureSeqType ==
    ASSUME NEW n \in Nat, NEW c \in [0 .. n -> Content]
    PROVE  /\ FutureSeq(c, n) \in Seq(Content) /\ Len(FutureSeq(c, n)) = n
           /\ \A i \in 1 .. n : FutureSeq(c, n)[i] = c[i]
<1>1. FutureSeq(c, n) \in [1 .. n -> Content] /\ \A i \in 1 .. n : FutureSeq(c, n)[i] = c[i]
  BY DEF FutureSeq
<1> QED BY <1>1, SeqOfFunction

\* The steps of the history, for any two states of it
Edits(l, d, l2, d2) ==
    l2.past = Append(l.past, d) /\ d2 \in Content /\ l2.future = <<>>
Undoes(l, d, l2, d2) ==
    /\ l.past # <<>> /\ l2.past = Front(l.past) /\ d2 = Last(l.past)
    /\ l2.future = <<d>> \o l.future
Redoes(l, d, l2, d2) ==
    /\ l.future # <<>> /\ l2.past = Append(l.past, d) /\ d2 = Head(l.future)
    /\ l2.future = Tail(l.future)
Groups(l, d, l2, d2) ==
    (\E n \in 0 .. Len(l.past) : l2.past = SubSeq(l.past, 1, n)) /\ l2.future = <<>> /\ d2 = d
Goes(l, d, l2, d2) ==
    \/ l2 = l /\ d2 = d
    \/ Edits(l, d, l2, d2) \/ Undoes(l, d, l2, d2) \/ Redoes(l, d, l2, d2) \/ Groups(l, d, l2, d2)

\* One entry more at the end of the start of a past
LongerPast(p, a, c, n) ==
    /\ IsPast(p, a) /\ p \in [0 .. n + 1 -> Content] /\ Len(a.applied) = n + 1
    /\ p[n + 1] = a.data /\ \A i \in 0 .. n : p[i] = c[i]

\* An entry behind the start of a past that leads on from there makes a past again.
LEMMA PastExtended ==
    ASSUME NEW b \in Buffer, NEW c, IsPast(c, b), NEW n \in 0 .. Len(b.applied),
           NEW a \in Buffer, NEW rest \in Seq(Entry), NEW entry \in Entry,
           a.applied = Append(rest, entry), StartOf(rest, b.applied, n),
           Reversible(c[n], entry, a.data)
    PROVE  \E p : LongerPast(p, a, c, n)
<1> PICK m \in Nat : m = Len(b.applied)
  BY BufferFields
<1>0. n \in Nat /\ a.data \in Content
  BY BufferFields
<1>1. Len(a.applied) = n + 1 /\ a.applied[n + 1] = entry
      /\ \A i \in 1 .. n : a.applied[i] = b.applied[i]
  <2>1. /\ Len(Append(rest, entry)) = n + 1 /\ Append(rest, entry)[n + 1] = entry
        /\ \A i \in 1 .. n : Append(rest, entry)[i] = rest[i]
    BY AppendProperties DEF StartOf
  <2> QED BY <2>1 DEF StartOf
<1> DEFINE p == [i \in 0 .. n + 1 |-> IF i = n + 1 THEN a.data ELSE c[i]]
<1>2. p \in [0 .. n + 1 -> Content]
  <2> SUFFICES ASSUME NEW i \in 0 .. n + 1 PROVE (IF i = n + 1 THEN a.data ELSE c[i]) \in Content
    OBVIOUS
  <2>1. CASE i = n + 1
    BY <1>0, <2>1
  <2>2. CASE i # n + 1
    <3>1. i \in 0 .. m
      BY <2>2
    <3>2. c[i] \in Content
      BY <3>1, Zenon DEF IsPast
    <3> QED BY <2>2, <3>2
  <2> QED BY <2>1, <2>2
<1>3. p[n + 1] = a.data
  BY <1>0
<1>4. \A i \in 0 .. n : p[i] = c[i]
  BY <1>0
<1> HIDE DEF p
<1>5. ASSUME NEW i \in 1 .. n + 1 PROVE Reversible(p[i - 1], a.applied[i], p[i])
  <2>1. CASE i = n + 1
    <3>1. n \in 0 .. n /\ i - 1 = n
      BY <1>0, <2>1
    <3>2. p[i - 1] = c[n] /\ p[i] = a.data /\ a.applied[i] = entry
      BY <1>1, <1>3, <1>4, <2>1, <3>1
    <3> QED BY <3>2
  <2>2. CASE i # n + 1
    <3>1. i \in 1 .. n /\ i \in 0 .. n /\ i - 1 \in 0 .. n /\ i \in 1 .. m
      BY <2>2
    <3>2. Reversible(c[i - 1], b.applied[i], c[i])
      BY <3>1, Zenon DEF IsPast
    <3> QED BY <1>1, <1>4, <3>1, <3>2
  <2> QED BY <2>1, <2>2
<1>6. IsPast(p, a)
  BY <1>1, <1>2, <1>3, <1>5 DEF IsPast
<1> QED BY <1>1, <1>2, <1>3, <1>4, <1>6, Zenon DEF LongerPast

\* Where there is nothing to be redone, the future is empty.
LEMMA NoFuture ==
    ASSUME NEW b \in Buffer, b.undone = <<>>
    PROVE  \E f : IsFuture(f, b) /\ FutureSeq(f, Len(b.undone)) = <<>>
<1> DEFINE f == [i \in 0 .. 0 |-> b.data]
<1>1. Len(b.undone) = 0 /\ b.data \in Content
  BY BufferFields
<1>2. f \in [0 .. 0 -> Content] /\ f[0] = b.data
  BY <1>1
<1> HIDE DEF f
<1>3. IsFuture(f, b)
  BY <1>1, <1>2 DEF IsFuture
<1>4. FutureSeq(f, 0) = <<>>
  <2>1. FutureSeq(f, 0) \in Seq(Content) /\ Len(FutureSeq(f, 0)) = 0
    BY <1>2, FutureSeqType
  <2> QED BY <2>1, EmptySeq
<1> QED BY <1>1, <1>3, <1>4, Zenon

\* What AppendProperties says of a sequence of a given length
LEMMA AppendedContents ==
    ASSUME NEW s \in Seq(Content), NEW w \in Content, NEW n, Len(s) = n
    PROVE  /\ Append(s, w) \in Seq(Content) /\ Len(Append(s, w)) = n + 1
           /\ \A i \in 1 .. n : Append(s, w)[i] = s[i]
           /\ Append(s, w)[n + 1] = w
BY AppendProperties

\* A past that is longer by one is the past with its present appended.
LEMMA PastSeqAppend ==
    ASSUME NEW n \in Nat, NEW c \in [0 .. n -> Content], NEW p \in [0 .. n + 1 -> Content],
           \A i \in 0 .. n : p[i] = c[i]
    PROVE  PastSeq(p, n + 1) = Append(PastSeq(c, n), c[n])
<1> PICK s \in Seq(Content) : /\ s = PastSeq(c, n) /\ Len(s) = n
                              /\ \A i \in 1 .. n : s[i] = c[i - 1]
  BY PastSeqType
<1> PICK t \in Seq(Content) : /\ t = PastSeq(p, n + 1) /\ Len(t) = n + 1
                              /\ \A i \in 1 .. n + 1 : t[i] = p[i - 1]
  <2>1. n + 1 \in Nat
    OBVIOUS
  <2> QED BY <2>1, PastSeqType
<1>1. c[n] \in Content
  <2>1. n \in 0 .. n
    OBVIOUS
  <2> QED BY <2>1
<1> PICK u \in Seq(Content) : /\ u = Append(s, c[n]) /\ Len(u) = n + 1
                              /\ \A i \in 1 .. n : u[i] = s[i]
                              /\ u[n + 1] = c[n]
  <2> PICK w \in Content : w = c[n]
    BY <1>1
  <2>1. /\ Append(s, w) \in Seq(Content) /\ Len(Append(s, w)) = n + 1
        /\ \A i \in 1 .. n : Append(s, w)[i] = s[i]
        /\ Append(s, w)[n + 1] = w
    <3>1. Len(s) = n
      OBVIOUS
    <3> QED BY <3>1, AppendedContents
  <2> QED BY <2>1
<1>2. ASSUME NEW i \in 1 .. n + 1 PROVE t[i] = u[i]
  <2>1. i - 1 \in 0 .. n
    OBVIOUS
  <2>2. t[i] = c[i - 1]
    BY <2>1
  <2>3. CASE i = n + 1
    <3>1. i - 1 = n
      BY <2>3
    <3> QED BY <2>2, <2>3, <3>1
  <2>4. CASE i # n + 1
    <3>1. i \in 1 .. n
      BY <2>4
    <3> QED BY <2>2, <3>1
  <2> QED BY <2>3, <2>4
<1>3. t = u
  BY <1>2, SeqEqual
<1> QED BY <1>3

\* An entry put on the stack is an edit of the history: the present becomes past, and there is
\* no future.
LEMMA EditGoes ==
    ASSUME NEW b \in Buffer, NEW l, OnLine(b, l), NEW entry \in Entry,
           NEW a, Holds(a, a.data, Append(b.applied, entry), <<>>),
           Reversible(b.data, entry, a.data)
    PROVE  OnLine(a, Line(a)) /\ Edits(l, b.data, Line(a), a.data)
<1> PICK c, f : /\ IsPast(c, b) /\ IsFuture(f, b)
                /\ l = [past |-> PastSeq(c, Len(b.applied)), future |-> FutureSeq(f, Len(b.undone))]
  BY DEF OnLine
<1> PICK n \in Nat : n = Len(b.applied)
  BY BufferFields
<1>1. a \in Buffer /\ a.applied = Append(b.applied, entry) /\ a.undone = <<>>
  BY DEF Holds
<1>2. n \in 0 .. Len(b.applied) /\ b.applied \in Seq(Entry) /\ StartOf(b.applied, b.applied, n)
  BY BufferFields DEF StartOf
<1>3. c \in [0 .. n -> Content] /\ c[n] = b.data
  BY DEF IsPast
<1>4. PICK p : LongerPast(p, a, c, n)
  <2>1. Reversible(c[n], entry, a.data)
    BY <1>3
  <2> QED BY <1>1, <1>2, <2>1, PastExtended, Zenon
<1>5. PICK g : IsFuture(g, a) /\ FutureSeq(g, Len(a.undone)) = <<>>
  BY <1>1, NoFuture
<1>6. /\ Line(a) = [past |-> PastSeq(p, n + 1), future |-> <<>>]
      /\ OnLine(a, Line(a))
  BY <1>1, <1>4, <1>5, LineIs DEF LongerPast
<1>7. PastSeq(p, n + 1) = Append(PastSeq(c, n), b.data)
  BY <1>3, <1>4, PastSeqAppend DEF LongerPast
<1>8. a.data \in Content
  BY <1>1, BufferFields
<1> QED BY <1>6, <1>7, <1>8 DEF Edits

\* Grouping operations whose order does not matter leaves the data alone, and at most shortens
\* the past.
LEMMA GroupGoes ==
    ASSUME NEW b \in Buffer, NEW l, OnLine(b, l), NEW count \in Nat, count > 1,
           ~OrderMatters(b, count), NEW a, a = Grouped(b, count)
    PROVE  /\ OnLine(a, Line(a)) /\ a.data = b.data
           /\ Edits(l, b.data, Line(a), a.data) \/ Groups(l, b.data, Line(a), a.data)
<1> PICK c, f : /\ IsPast(c, b) /\ IsFuture(f, b)
                /\ l = [past |-> PastSeq(c, Len(b.applied)), future |-> FutureSeq(f, Len(b.undone))]
  BY DEF OnLine
<1> PICK s \in Seq(Entry) : s = b.applied
  BY BufferFields
<1> PICK n \in Nat : n = Len(s)
  OBVIOUS
<1>1. c \in [0 .. n -> Content] /\ c[n] = b.data /\ \A i \in 1 .. n : Linked(c[i - 1], s[i], c[i])
  BY DEF IsPast, Reversible
<1> DEFINE k == Len(Rest(b, count))
<1>2. k \in 0 .. n /\ (k = n => n = 0)
  BY RestType
<1>3. /\ Rest(b, count) \in Seq(Entry) /\ Taken(b, count) \in Entry
      /\ StartOf(Rest(b, count), s, k)
  BY RestType
<1>4. Taken(b, count) = FlattenSeq(SubSeq(s, k + 1, n))
  BY DEF Taken
<1> HIDE DEF k
<1>5. c[k] \in Content
  BY <1>1, <1>2
<1> PICK entry \in Entry : entry = Taken(b, count)
  BY <1>3
<1>6. Linked(c[k], entry, b.data)
  BY <1>1, <1>2, <1>4, <1>5, LinkedFlatten
<1>7. UndoEntry(b.data, entry) = c[k]
  <2>1. UndoEntry(b.data, Reverse(entry)) = c[k]
    BY <1>6, LinkedUndo
  <2>2. UndoEntry(b.data, entry) = UndoEntry(b.data, Reverse(entry))
    BY DEF OrderMatters
  <2> QED BY <2>1, <2>2
<1>8. Reversible(c[k], entry, b.data)
  BY <1>6, <1>7 DEF Reversible
<1>9. RedoEntry(UndoEntry(b.data, entry), entry) = [data |-> b.data, entry |-> entry]
  BY <1>6, <1>7, LinkedRedo
<1> PICK done : done = RedoEntry(UndoEntry(b.data, entry), entry)
  OBVIOUS
<1>10. Holds(a, done.data, Append(Rest(b, count), done.entry), <<>>)
  BY GroupedIs
<1>11. done.data = b.data /\ done.entry = entry
  BY <1>9
<1>12. a \in Buffer /\ a.data = b.data
       /\ a.applied = Append(Rest(b, count), entry) /\ a.undone = <<>>
  BY <1>10, <1>11 DEF Holds
<1>13. k \in 0 .. Len(b.applied) /\ StartOf(Rest(b, count), b.applied, k)
       /\ Reversible(c[k], entry, a.data)
  BY <1>2, <1>3, <1>8, <1>12
<1>14. PICK p : LongerPast(p, a, c, k)
  BY <1>3, <1>12, <1>13, PastExtended, Zenon
<1>15. PICK g : IsFuture(g, a) /\ FutureSeq(g, Len(a.undone)) = <<>>
  BY <1>12, NoFuture
<1>16. /\ Line(a) = [past |-> PastSeq(p, k + 1), future |-> <<>>]
       /\ OnLine(a, Line(a))
  BY <1>12, <1>14, <1>15, LineIs DEF LongerPast
<1>17. CASE k = n
  <2>1. PastSeq(p, n + 1) = Append(PastSeq(c, n), b.data)
    <3>1. p \in [0 .. n + 1 -> Content] /\ \A i \in 0 .. n : p[i] = c[i]
      BY <1>14, <1>17, Zenon DEF LongerPast
    <3>2. PastSeq(p, n + 1) = Append(PastSeq(c, n), c[n])
      BY <1>1, <3>1, PastSeqAppend, ZenonT(30)
    <3> QED BY <1>1, <3>2, Zenon
  <2>2. a.data \in Content
    BY <1>12, BufferFields
  <2>3. Edits(l, b.data, Line(a), a.data)
    BY <1>16, <1>17, <2>1, <2>2 DEF Edits
  <2> QED BY <1>12, <1>16, <2>3
<1>18. CASE k # n
  <2>1. k + 1 \in 0 .. n /\ k + 1 \in Nat
    BY <1>2, <1>18
  <2> PICK old \in Seq(Content) : /\ old = PastSeq(c, n) /\ Len(old) = n
                                  /\ \A i \in 1 .. n : old[i] = c[i - 1]
    BY <1>1, PastSeqType
  <2> PICK new \in Seq(Content) : /\ new = PastSeq(p, k + 1) /\ Len(new) = k + 1
                                  /\ \A i \in 1 .. k + 1 : new[i] = p[i - 1]
    BY <1>14, <2>1, PastSeqType DEF LongerPast
  <2> DEFINE part == SubSeq(old, 1, k + 1)
  <2>2. part \in Seq(Content) /\ StartOf(part, old, k + 1)
    BY <2>1, StartIs
  <2> HIDE DEF part
  <2>3. ASSUME NEW i \in 1 .. k + 1 PROVE new[i] = part[i]
    <3>1. i - 1 \in 0 .. k /\ i \in 1 .. n
      BY <1>2, <2>1
    <3> QED BY <1>14, <2>2, <3>1 DEF LongerPast, StartOf
  <2>4. new = part
    BY <2>1, <2>2, <2>3, SeqEqual DEF StartOf
  <2>5. Groups(l, b.data, Line(a), a.data)
    BY <1>12, <1>16, <2>1, <2>4 DEF Groups, part
  <2> QED BY <1>12, <1>16, <2>5
<1> QED BY <1>17, <1>18

\* A past that is shorter by one lacks its last element.
LEMMA PastSeqFront ==
    ASSUME NEW n \in Nat \ {0}, NEW c \in [0 .. n -> Content], NEW p \in [0 .. n - 1 -> Content],
           \A i \in 0 .. n - 1 : p[i] = c[i]
    PROVE  /\ PastSeq(c, n) # <<>> /\ Last(PastSeq(c, n)) = c[n - 1]
           /\ PastSeq(p, n - 1) = Front(PastSeq(c, n))
<1>1. n - 1 \in Nat
  OBVIOUS
<1> PICK s \in Seq(Content) : /\ s = PastSeq(c, n) /\ Len(s) = n
                              /\ \A i \in 1 .. n : s[i] = c[i - 1]
  BY PastSeqType
<1> PICK t \in Seq(Content) : /\ t = PastSeq(p, n - 1) /\ Len(t) = n - 1
                              /\ \A i \in 1 .. n - 1 : t[i] = p[i - 1]
  BY <1>1, PastSeqType
<1>2. s # <<>>
  BY EmptySeq
<1> PICK u \in Seq(Content) : /\ u = Front(s) /\ Len(u) = Len(s) - 1
                              /\ \A i \in 1 .. Len(s) - 1 : u[i] = s[i]
                              /\ Last(s) = s[Len(s)]
  <2>1. /\ Front(s) \in Seq(Content) /\ Len(Front(s)) = Len(s) - 1 /\ Last(s) = s[Len(s)]
        /\ \A i \in 1 .. Len(s) - 1 : Front(s)[i] = s[i]
    BY <1>2, FrontLast, Zenon
  <2> QED BY <2>1, Zenon
<1>3. Last(s) = s[n] /\ n \in 1 .. n
  OBVIOUS
<1>4. ASSUME NEW i \in 1 .. n - 1 PROVE t[i] = u[i]
  <2>1. i \in 1 .. n /\ i - 1 \in 0 .. n - 1
    OBVIOUS
  <2> QED BY <2>1
<1>5. t = u
  BY <1>4, SeqEqual
<1> QED BY <1>2, <1>3, <1>5

\* u is x and then s.
FirstAndRest(u, x, s) ==
    Len(u) = Len(s) + 1 /\ u[1] = x /\ \A i \in 1 .. Len(s) : u[i + 1] = s[i]

\* A sequence with an element put before it
LEMMA FirstThenRest ==
    ASSUME NEW S, NEW x \in S, NEW s \in Seq(S)
    PROVE  <<x>> \o s \in Seq(S) /\ FirstAndRest(<<x>> \o s, x, s)
<1> PICK first \in Seq(S) : first = <<x>> /\ Len(first) = 1 /\ first[1] = x
  <2>1. <<x>> \in Seq(S) /\ Len(<<x>>) = 1 /\ <<x>>[1] = x
    OBVIOUS
  <2> QED BY <2>1, Zenon
<1> PICK n \in Nat : n = Len(s)
  OBVIOUS
<1>1. /\ first \o s \in Seq(S) /\ Len(first \o s) = 1 + n
      /\ \A i \in 1 .. 1 + n : (first \o s)[i] = IF i <= 1 THEN first[i] ELSE s[i - 1]
  BY ConcatProperties
<1> PICK u \in Seq(S) : u = first \o s
  BY <1>1
<1>2. Len(u) = n + 1 /\ u[1] = x
  BY <1>1
<1>3. ASSUME NEW i \in 1 .. n PROVE u[i + 1] = s[i]
  <2>1. i + 1 \in 1 .. 1 + n /\ ~(i + 1 <= 1) /\ (i + 1) - 1 = i
    OBVIOUS
  <2> QED BY <1>1, <2>1
<1> QED BY <1>2, <1>3 DEF FirstAndRest

\* After undo, the future begins with what was the present.
LEMMA FutureSeqBegins ==
    ASSUME NEW m \in Nat, NEW f \in [0 .. m -> Content], NEW g \in [0 .. m + 1 -> Content],
           \A i \in 1 .. m + 1 : g[i] = f[i - 1]
    PROVE  FutureSeq(g, m + 1) = <<f[0]>> \o FutureSeq(f, m)
<1>1. m + 1 \in Nat /\ f[0] \in Content
  OBVIOUS
<1> PICK s \in Seq(Content) : /\ s = FutureSeq(f, m) /\ Len(s) = m
                              /\ \A i \in 1 .. m : s[i] = f[i]
  BY FutureSeqType
<1> PICK t \in Seq(Content) : /\ t = FutureSeq(g, m + 1) /\ Len(t) = m + 1
                              /\ \A i \in 1 .. m + 1 : t[i] = g[i]
  BY <1>1, FutureSeqType
<1> PICK u \in Seq(Content) : u = <<f[0]>> \o s /\ FirstAndRest(u, f[0], s)
  BY <1>1, FirstThenRest, Zenon
<1>2. ASSUME NEW i \in 1 .. m + 1 PROVE t[i] = u[i]
  <2>1. t[i] = f[i - 1]
    OBVIOUS
  <2>2. CASE i = 1
    BY <2>1, <2>2 DEF FirstAndRest
  <2>3. CASE i # 1
    <3> PICK j \in 1 .. m : j = i - 1
      <4>1. i - 1 \in 1 .. m
        BY <2>3
      <4> QED BY <4>1, Zenon
    <3>1. i = j + 1
      OBVIOUS
    <3>2. u[i] = f[j]
      BY <3>1 DEF FirstAndRest
    <3> QED BY <2>1, <3>2
  <2> QED BY <2>2, <2>3
<1>3. t = u
  BY <1>2, SeqEqual DEF FirstAndRest
<1> QED BY <1>3

\* After redo, the future lacks its first element.
LEMMA FutureSeqTail ==
    ASSUME NEW m \in Nat \ {0}, NEW f \in [0 .. m -> Content], NEW g \in [0 .. m - 1 -> Content],
           \A i \in 0 .. m - 1 : g[i] = f[i + 1]
    PROVE  /\ FutureSeq(f, m) # <<>> /\ Head(FutureSeq(f, m)) = f[1]
           /\ FutureSeq(g, m - 1) = Tail(FutureSeq(f, m))
<1>1. m - 1 \in Nat /\ 1 \in 1 .. m
  OBVIOUS
<1> PICK s \in Seq(Content) : /\ s = FutureSeq(f, m) /\ Len(s) = m
                              /\ \A i \in 1 .. m : s[i] = f[i]
  BY FutureSeqType
<1> PICK t \in Seq(Content) : /\ t = FutureSeq(g, m - 1) /\ Len(t) = m - 1
                              /\ \A i \in 1 .. m - 1 : t[i] = g[i]
  BY <1>1, FutureSeqType
<1>2. s # <<>>
  BY EmptySeq
<1>3. Head(s) = s[1]
  BY <1>2
<1> PICK u \in Seq(Content) :
        u = Tail(s) /\ Len(u) = Len(s) - 1 /\ \A i \in 1 .. Len(u) : u[i] = s[i + 1]
  <2>1. /\ Tail(s) \in Seq(Content) /\ Len(Tail(s)) = Len(s) - 1
        /\ \A i \in 1 .. Len(Tail(s)) : Tail(s)[i] = s[i + 1]
    BY <1>2, HeadTailProperties, ZenonT(30)
  <2> QED BY <2>1, Zenon
<1>4. ASSUME NEW i \in 1 .. m - 1 PROVE t[i] = u[i]
  <2>1. i + 1 \in 1 .. m /\ i \in 0 .. m - 1
    OBVIOUS
  <2> QED BY <2>1
<1>5. t = u
  BY <1>4, SeqEqual
<1> QED BY <1>1, <1>2, <1>3, <1>5

\* Undo goes back by one: what was the present is the first of the future.
LEMMA UndoGoes ==
    ASSUME NEW b \in Buffer, NEW l, OnLine(b, l), b.applied # <<>>, NEW a, a = Undone(b)
    PROVE  OnLine(a, Line(a)) /\ Undoes(l, b.data, Line(a), a.data)
<1> PICK c, f : /\ IsPast(c, b) /\ IsFuture(f, b)
                /\ l = [past |-> PastSeq(c, Len(b.applied)), future |-> FutureSeq(f, Len(b.undone))]
  BY DEF OnLine
<1> PICK s \in Seq(Entry) : s = b.applied
  BY BufferFields
<1> PICK u \in Seq(Entry) : u = b.undone
  BY BufferFields
<1> PICK n \in Nat, m \in Nat : n = Len(s) /\ m = Len(u)
  OBVIOUS
<1>1. n >= 1 /\ n - 1 \in Nat /\ n - 1 \in 0 .. n /\ n \in 1 .. n /\ m + 1 \in Nat
  BY EmptySeq
<1>2. c \in [0 .. n -> Content] /\ c[n] = b.data
      /\ \A i \in 1 .. n : Reversible(c[i - 1], s[i], c[i])
  BY DEF IsPast
<1>3. f \in [0 .. m -> Content] /\ f[0] = b.data
      /\ \A i \in 1 .. m : Reversible(f[i - 1], u[m - i + 1], f[i])
  BY DEF IsFuture
<1> PICK entry \in Entry : entry = s[n] /\ entry = Last(s)
  BY <1>1, FrontLast
<1>4. Reversible(c[n - 1], entry, b.data)
  BY <1>1, <1>2
<1>5. UndoEntry(b.data, entry) = c[n - 1]
  BY <1>4 DEF Reversible
<1>6. Holds(a, c[n - 1], Front(s), Append(u, entry))
  BY <1>5, UndoneIs
<1>7. Front(s) \in Seq(Entry) /\ Len(Front(s)) = n - 1 /\ \A i \in 1 .. n - 1 : Front(s)[i] = s[i]
  BY FrontLast
<1>8. /\ Len(Append(u, entry)) = m + 1 /\ Append(u, entry)[m + 1] = entry
      /\ \A i \in 1 .. m : Append(u, entry)[i] = u[i]
  BY AppendProperties
<1>9. /\ a \in Buffer /\ a.data = c[n - 1] /\ a.applied = Front(s) /\ Len(a.applied) = n - 1
      /\ \A i \in 1 .. n - 1 : a.applied[i] = s[i]
      /\ a.undone = Append(u, entry) /\ Len(a.undone) = m + 1 /\ a.undone[m + 1] = entry
      /\ \A i \in 1 .. m : a.undone[i] = u[i]
  BY <1>6, <1>7, <1>8 DEF Holds
<1> DEFINE p == [i \in 0 .. n - 1 |-> c[i]]
           g == [i \in 0 .. m + 1 |-> IF i = 0 THEN c[n - 1] ELSE f[i - 1]]
<1>10. \A i \in 0 .. n - 1 : i \in 0 .. n /\ p[i] = c[i]
  OBVIOUS
<1>11. p \in [0 .. n - 1 -> Content]
  BY <1>2, <1>10
<1>12. g[0] = c[n - 1] /\ \A i \in 1 .. m + 1 : g[i] = f[i - 1]
  OBVIOUS
<1>13. g \in [0 .. m + 1 -> Content]
  <2> SUFFICES ASSUME NEW i \in 0 .. m + 1 PROVE (IF i = 0 THEN c[n - 1] ELSE f[i - 1]) \in Content
    OBVIOUS
  <2>1. c[n - 1] \in Content
    BY <1>1, <1>2, Zenon
  <2>2. CASE i # 0
    <3>1. i - 1 \in 0 .. m
      BY <2>2
    <3>2. f[i - 1] \in Content
      BY <1>3, <3>1, Zenon
    <3> QED BY <2>2, <3>2
  <2> QED BY <2>1, <2>2
<1> HIDE DEF p, g
<1>14. IsPast(p, a)
  <2>1. p[n - 1] = a.data
    BY <1>1, <1>9, <1>10
  <2>2. ASSUME NEW i \in 1 .. n - 1 PROVE Reversible(p[i - 1], a.applied[i], p[i])
    <3>1. i \in 1 .. n /\ i - 1 \in 0 .. n - 1 /\ i \in 0 .. n - 1
      OBVIOUS
    <3> QED BY <1>2, <1>9, <1>10, <3>1
  <2> QED BY <1>9, <1>11, <2>1, <2>2 DEF IsPast
<1>15. IsFuture(g, a)
  <2>1. ASSUME NEW i \in 1 .. m + 1 PROVE Reversible(g[i - 1], a.undone[m + 1 - i + 1], g[i])
    <3>1. CASE i = 1
      <4>1. m + 1 - i + 1 = m + 1 /\ i - 1 = 0
        BY <3>1
      <4>2. g[i] = b.data
        BY <1>3, <1>12, <4>1
      <4> QED BY <1>4, <1>9, <1>12, <4>1, <4>2
    <3>2. CASE i # 1
      <4> PICK j \in 1 .. m : j = i - 1
        <5>1. i - 1 \in 1 .. m
          BY <3>2
        <5> QED BY <5>1, Zenon
      <4>1. m + 1 - i + 1 = m - j + 1 /\ m - j + 1 \in 1 .. m /\ i - 1 = j /\ j \in 1 .. m + 1
        OBVIOUS
      <4>2. g[i - 1] = f[j - 1] /\ g[i] = f[j] /\ a.undone[m + 1 - i + 1] = u[m - j + 1]
        BY <1>9, <1>12, <4>1
      <4> QED BY <1>3, <4>2
    <3> QED BY <3>1, <3>2
  <2>2. Len(a.undone) = m + 1 /\ g[0] = a.data
    BY <1>9, <1>12
  <2> PICK k : k = Len(a.undone)
    OBVIOUS
  <2>3. \A i \in 1 .. k : Reversible(g[i - 1], a.undone[k - i + 1], g[i])
    BY <2>1, <2>2
  <2>4. g \in [0 .. k -> Content]
    BY <1>13, <2>2
  <2> QED BY <2>2, <2>3, <2>4, Zenon DEF IsFuture
<1>16. Line(a) = [past |-> PastSeq(p, n - 1), future |-> FutureSeq(g, m + 1)] /\ OnLine(a, Line(a))
  BY <1>9, <1>14, <1>15, LineIs
<1>17. /\ PastSeq(c, n) # <<>> /\ Last(PastSeq(c, n)) = c[n - 1]
       /\ PastSeq(p, n - 1) = Front(PastSeq(c, n))
  <2>1. n \in Nat \ {0}
    BY <1>1
  <2>2. \A i \in 0 .. n - 1 : p[i] = c[i]
    BY <1>10
  <2> QED BY <1>2, <2>1, <2>2, <1>11, PastSeqFront, ZenonT(30)
<1>18. FutureSeq(g, m + 1) = <<b.data>> \o FutureSeq(f, m)
  <2>1. f \in [0 .. m -> Content] /\ f[0] = b.data /\ \A i \in 1 .. m + 1 : g[i] = f[i - 1]
    BY <1>3, <1>12
  <2>2. FutureSeq(g, m + 1) = <<f[0]>> \o FutureSeq(f, m)
    BY <1>13, <2>1, FutureSeqBegins, ZenonT(30)
  <2> QED BY <2>1, <2>2, Zenon
<1>19. l.past = PastSeq(c, n) /\ l.future = FutureSeq(f, m)
  OBVIOUS
<1>20. Line(a).past = PastSeq(p, n - 1) /\ Line(a).future = FutureSeq(g, m + 1)
  BY <1>16
<1>21. a.data = c[n - 1]
  BY <1>9
<1>22. Undoes(l, b.data, Line(a), a.data)
  BY <1>17, <1>18, <1>19, <1>20, <1>21, Zenon DEF Undoes
<1> QED BY <1>16, <1>22

\* Redo goes on by one: what was the present is the last of the past.
LEMMA RedoGoes ==
    ASSUME NEW b \in Buffer, NEW l, OnLine(b, l), b.undone # <<>>, NEW a, a = Redone(b)
    PROVE  OnLine(a, Line(a)) /\ Redoes(l, b.data, Line(a), a.data)
<1> PICK c, f : /\ IsPast(c, b) /\ IsFuture(f, b)
                /\ l = [past |-> PastSeq(c, Len(b.applied)), future |-> FutureSeq(f, Len(b.undone))]
  BY DEF OnLine
<1> PICK s \in Seq(Entry) : s = b.applied
  BY BufferFields
<1> PICK u \in Seq(Entry) : u = b.undone
  BY BufferFields
<1> PICK n \in Nat, m \in Nat : n = Len(s) /\ m = Len(u)
  OBVIOUS
<1>1. m >= 1 /\ m - 1 \in Nat /\ m \in 1 .. m /\ 1 \in 1 .. m /\ m - 1 + 1 = m /\ n \in 0 .. n
  BY EmptySeq
<1>2. c \in [0 .. n -> Content] /\ c[n] = b.data
  BY DEF IsPast
<1>3. f \in [0 .. m -> Content] /\ f[0] = b.data
      /\ \A i \in 1 .. m : Reversible(f[i - 1], u[m - i + 1], f[i])
  BY DEF IsFuture
<1> PICK entry \in Entry : entry = u[m] /\ entry = Last(u)
  BY <1>1, FrontLast
<1>4. Reversible(b.data, entry, f[1])
  <2>1. 1 - 1 = 0 /\ m - 1 + 1 = m
    OBVIOUS
  <2> QED BY <1>1, <1>3, <2>1
<1>5. RedoEntry(b.data, entry) = [data |-> f[1], entry |-> entry]
  BY <1>4, LinkedRedo DEF Reversible
<1> PICK done : done = RedoEntry(b.data, entry)
  OBVIOUS
<1>6. Holds(a, done.data, Append(s, done.entry), Front(u))
  BY RedoneIs
<1>7. done.data = f[1] /\ done.entry = entry
  BY <1>5
<1>8. Front(u) \in Seq(Entry) /\ Len(Front(u)) = m - 1 /\ \A i \in 1 .. m - 1 : Front(u)[i] = u[i]
  BY FrontLast
<1>9. /\ a \in Buffer /\ a.data = f[1] /\ a.applied = Append(s, entry)
      /\ Len(a.undone) = m - 1 /\ \A i \in 1 .. m - 1 : a.undone[i] = u[i]
  BY <1>6, <1>7, <1>8 DEF Holds
<1>10. PICK p : LongerPast(p, a, c, n)
  <2>1. n \in 0 .. Len(b.applied) /\ StartOf(s, b.applied, n) /\ Reversible(c[n], entry, a.data)
    BY <1>1, <1>2, <1>4, <1>9 DEF StartOf
  <2> QED BY <1>9, <2>1, PastExtended, Zenon
<1> DEFINE g == [i \in 0 .. m - 1 |-> f[i + 1]]
<1>11. \A i \in 0 .. m - 1 : g[i] = f[i + 1] /\ i + 1 \in 0 .. m
  OBVIOUS
<1>12. g \in [0 .. m - 1 -> Content]
  BY <1>3, <1>11
<1> HIDE DEF g
<1>13. IsFuture(g, a)
  <2>1. g[0] = a.data
    <3>1. 0 \in 0 .. m - 1 /\ 0 + 1 = 1
      BY <1>1
    <3> QED BY <1>9, <1>11, <3>1
  <2>2. ASSUME NEW i \in 1 .. m - 1 PROVE Reversible(g[i - 1], a.undone[m - 1 - i + 1], g[i])
    <3>1. /\ i - 1 \in 0 .. m - 1 /\ i \in 0 .. m - 1 /\ (i - 1) + 1 = i
          /\ i + 1 \in 1 .. m /\ (i + 1) - 1 = i /\ m - (i + 1) + 1 = m - 1 - i + 1
          /\ m - 1 - i + 1 \in 1 .. m - 1
      OBVIOUS
    <3>2. Reversible(f[(i + 1) - 1], u[m - (i + 1) + 1], f[i + 1])
      BY <1>3, <3>1, Zenon
    <3>3. g[i - 1] = f[i] /\ g[i] = f[i + 1] /\ a.undone[m - 1 - i + 1] = u[m - 1 - i + 1]
      BY <1>9, <1>11, <3>1
    <3> QED BY <3>1, <3>2, <3>3
  <2> QED BY <1>9, <1>12, <2>1, <2>2 DEF IsFuture
<1>14. Line(a) = [past |-> PastSeq(p, n + 1), future |-> FutureSeq(g, m - 1)] /\ OnLine(a, Line(a))
  BY <1>9, <1>10, <1>13, LineIs DEF LongerPast
<1>15. PastSeq(p, n + 1) = Append(PastSeq(c, n), b.data)
  <2>1. p \in [0 .. n + 1 -> Content] /\ \A i \in 0 .. n : p[i] = c[i]
    BY <1>10, Zenon DEF LongerPast
  <2>2. PastSeq(p, n + 1) = Append(PastSeq(c, n), c[n])
    BY <1>2, <2>1, PastSeqAppend, ZenonT(30)
  <2> QED BY <1>2, <2>2, Zenon
<1>16. /\ FutureSeq(f, m) # <<>> /\ Head(FutureSeq(f, m)) = f[1]
       /\ FutureSeq(g, m - 1) = Tail(FutureSeq(f, m))
  <2>1. m \in Nat \ {0}
    BY <1>1
  <2>2. \A i \in 0 .. m - 1 : g[i] = f[i + 1]
    BY <1>11
  <2> QED BY <1>3, <2>1, <2>2, <1>12, FutureSeqTail, ZenonT(30)
<1>17. l.past = PastSeq(c, n) /\ l.future = FutureSeq(f, m)
  OBVIOUS
<1>18. Line(a).past = PastSeq(p, n + 1) /\ Line(a).future = FutureSeq(g, m - 1)
  BY <1>14
<1>19. a.data = f[1]
  BY <1>9
<1>20. Redoes(l, b.data, Line(a), a.data)
  BY <1>15, <1>16, <1>17, <1>18, <1>19, Zenon DEF Redoes
<1> QED BY <1>14, <1>20

-----------------------------------------------------------------------------
(* A call keeps the buffer on its line                                     *)

\* A call that leaves the buffer alone leaves it on its line.
LEMMA StaysOnLine ==
    ASSUME NEW b \in Buffer, NEW l, OnLine(b, l), NEW a, a = b
    PROVE  OnLine(a, Line(a)) /\ Goes(l, b.data, Line(a), a.data)
<1> PICK c, f : /\ IsPast(c, b) /\ IsFuture(f, b)
                /\ l = [past |-> PastSeq(c, Len(b.applied)), future |-> FutureSeq(f, Len(b.undone))]
  BY DEF OnLine
<1>1. Line(b) = l
  BY LineIs
<1> QED BY <1>1 DEF Goes

\* Writes, insertions and removals within the data are edits, or change nothing.
LEMMA EditedGoes ==
    ASSUME NEW b \in Buffer, NEW l, OnLine(b, l), NEW call \in Call,
           call.do \in {"write", "insert", "remove"}, ~IsBeyond(b, call), NEW a, a = After(b, call)
    PROVE  OnLine(a, Line(a)) /\ Goes(l, b.data, Line(a), a.data)
<1> DEFINE op == EditOf(b, call)
           e == RedoOperation(b.data, op)
<1>1. /\ op \in Op
      /\ \/ a = b
         \/ Holds(a, e, Append(b.applied, <<Kept(b.data, op)>>), <<>>)
  BY EditIs
<1>2. b.data \in Content
  BY BufferFields
<1>3. Joined(b.data, Kept(b.data, op), e)
  <2>1. CASE call.do = "write"
    <3>1. /\ call.at \in Nat /\ call.bytes \in Content
          /\ op = [kind |-> "write", at |-> call.at, new |-> call.bytes,
                   old |-> ReadRaw(b.data, call.at, Len(call.bytes), Zeros(Len(call.bytes)))]
      BY <2>1, CallCases DEF EditOf
    <3>2. Kept(b.data, op) = op /\ Joined(b.data, op, e)
      <4> HIDE DEF op, e
      <4>1. Kept(b.data, op) = op /\ Joined(b.data, op, RedoOperation(b.data, op))
        BY <1>2, <3>1, WriteJoins
      <4> QED BY <4>1, Zenon DEF e
    <3> HIDE DEF op, e
    <3> QED BY <3>2, Zenon
  <2>2. CASE call.do = "insert"
    <3>1. /\ call.at \in Nat /\ call.size \in Nat
          /\ op = [kind |-> "insert", at |-> call.at, size |-> call.size]
      BY <2>2, CallCases DEF EditOf
    <3>2. Len(b.data) \in Nat
      BY <1>2 DEF Content
    <3>3. call.at <= Len(b.data)
      BY <2>2, <3>1, <3>2 DEF IsBeyond
    <3>4. Kept(b.data, op) = op /\ Joined(b.data, op, e)
      <4> HIDE DEF op, e
      <4>1. Kept(b.data, op) = op /\ Joined(b.data, op, RedoOperation(b.data, op))
        BY <1>2, <3>1, <3>3, InsertJoins
      <4> QED BY <4>1, Zenon DEF e
    <3> HIDE DEF op, e
    <3> QED BY <3>4, Zenon
  <2>3. CASE call.do = "remove"
    <3>1. /\ call.at \in Nat /\ call.size \in Nat
          /\ op = [kind |-> "remove", at |-> call.at, size |-> call.size, old |-> Zeros(call.size)]
      BY <2>3, CallCases DEF EditOf
    <3>2. Len(b.data) \in Nat
      BY <1>2 DEF Content
    <3>3. call.at + call.size <= Len(b.data)
      BY <2>3, <3>1, <3>2 DEF IsBeyond
    <3> QED BY <1>2, <3>1, <3>3, RemoveJoins, Zenon
  <2> QED BY <2>1, <2>2, <2>3
<1> HIDE DEF op, e
<1> PICK kept : kept = Kept(b.data, op)
  OBVIOUS
<1>4. CASE a = b
  BY <1>4, StaysOnLine
<1>5. CASE Holds(a, e, Append(b.applied, <<kept>>), <<>>)
  <2>1. e \in Content /\ a.data = e /\ a \in Buffer
    <3>1. a.data = e /\ a \in Buffer
      BY <1>5 DEF Holds
    <3> QED BY <3>1, BufferFields
  <2>2. kept \in Op
    BY <1>1, <1>2, OperationType
  <2>3. Reversible(b.data, <<kept>>, e)
    BY <1>2, <1>3, <2>1, <2>2, LinkedSingle
  <2>4. <<kept>> \in Entry
    BY <2>2 DEF Entry
  <2>5. OnLine(a, Line(a)) /\ Edits(l, b.data, Line(a), a.data)
    BY <1>5, <2>1, <2>3, <2>4, EditGoes
  <2> QED BY <2>5, Zenon DEF Goes
<1> QED BY <1>1, <1>4, <1>5

\* Every call is a step of the history, or leaves it alone, unless it reaches past the end of
\* the data or groups operations whose order matters.
LEMMA AfterGoes ==
    ASSUME NEW b \in Buffer, NEW l, OnLine(b, l), NEW call \in Call, ~IsBeyond(b, call),
           ~(call.do = "group" /\ OrderMatters(b, call.count)), NEW a, a = After(b, call)
    PROVE  OnLine(a, Line(a)) /\ Goes(l, b.data, Line(a), a.data)
<1>1. CASE call.do \in {"write", "insert", "remove"}
  BY <1>1, EditedGoes
<1>2. CASE call.do = "group"
  <2>1. call.count \in Nat /\ a = Grouped(b, call.count)
    BY <1>2, CallCases DEF After
  <2>2. CASE call.count =< 1
    <3>1. a = b
      BY <2>1, <2>2 DEF Grouped
    <3> QED BY <3>1, StaysOnLine
  <2>3. CASE ~(call.count =< 1)
    <3>1. call.count > 1
      BY <2>1, <2>3
    <3>2. OnLine(a, Line(a))
          /\ (Edits(l, b.data, Line(a), a.data) \/ Groups(l, b.data, Line(a), a.data))
      BY <1>2, <2>1, <3>1, GroupGoes
    <3> QED BY <3>2, Zenon DEF Goes
  <2> QED BY <2>2, <2>3
<1>3. CASE call.do = "undo"
  <2>1. a = Undone(b)
    BY <1>3 DEF After
  <2>2. CASE b.applied = <<>>
    <3>1. a = b
      BY <2>1, <2>2 DEF Undone
    <3> QED BY <3>1, StaysOnLine
  <2>3. CASE b.applied # <<>>
    <3>1. OnLine(a, Line(a)) /\ Undoes(l, b.data, Line(a), a.data)
      BY <2>1, <2>3, UndoGoes
    <3> QED BY <3>1, Zenon DEF Goes
  <2> QED BY <2>2, <2>3
<1>4. CASE call.do = "redo"
  <2>1. a = Redone(b)
    BY <1>4 DEF After
  <2>2. CASE b.undone = <<>>
    <3>1. a = b
      BY <2>1, <2>2 DEF Redone
    <3> QED BY <3>1, StaysOnLine
  <2>3. CASE b.undone # <<>>
    <3>1. OnLine(a, Line(a)) /\ Redoes(l, b.data, Line(a), a.data)
      BY <2>1, <2>3, RedoGoes
    <3> QED BY <3>1, Zenon DEF Goes
  <2> QED BY <2>2, <2>3
<1> QED BY <1>1, <1>2, <1>3, <1>4, CallCases

\* With nothing on the stacks there is neither past nor future.
LEMMA NothingYet ==
    ASSUME NEW b \in Buffer, b.applied = <<>>, b.undone = <<>>
    PROVE  OnLine(b, Line(b)) /\ Line(b).past = <<>> /\ Line(b).future = <<>>
<1> DEFINE c == [i \in 0 .. 0 |-> b.data]
<1>1. Len(b.applied) = 0 /\ b.data \in Content
  BY BufferFields
<1>2. c \in [0 .. 0 -> Content] /\ c[0] = b.data
  BY <1>1
<1> HIDE DEF c
<1>3. IsPast(c, b)
  BY <1>1, <1>2 DEF IsPast
<1>4. PastSeq(c, 0) = <<>>
  <2>1. PastSeq(c, 0) \in Seq(Content) /\ Len(PastSeq(c, 0)) = 0
    BY <1>2, PastSeqType
  <2> QED BY <2>1, EmptySeq
<1>5. PICK f : IsFuture(f, b) /\ FutureSeq(f, Len(b.undone)) = <<>>
  BY NoFuture
<1>6. Line(b) = [past |-> PastSeq(c, 0), future |-> <<>>] /\ OnLine(b, Line(b))
  BY <1>1, <1>3, <1>5, LineIs
<1> QED BY <1>4, <1>6

\* What has to be known of the stacks, for undo and redo to lead through the line
Broken == history.mixed \/ history.beyond
KeepsLine ==
    /\ Types
    /\ ~Broken => OnLine(buffer, line)

\* The invariant and the history begin together.
LEMMA InitKeepsLine == Init => KeepsLine /\ History!Init
<1> SUFFICES ASSUME Init PROVE KeepsLine /\ History!Init
  OBVIOUS
<1>1. Types
  BY InitTypes
<1>2. buffer \in Buffer
  BY <1>1 DEF Types
<1>3. buffer.applied = <<>> /\ buffer.undone = <<>> /\ line = Line(buffer)
  BY DEF Init
<1>4. OnLine(buffer, line) /\ line.past = <<>> /\ line.future = <<>>
  BY <1>2, <1>3, NothingYet
<1>5. buffer.data \in Seq(Bytes)
  BY <1>2, BufferFields DEF Content
<1> QED BY <1>1, <1>4, <1>5 DEF KeepsLine, History!Init

\* Making a call keeps the buffer on its line, and is a step of the history.
LEMMA MakeKeepsLine ==
    ASSUME KeepsLine, NEW call \in Call, Make(call), ~Broken'
    PROVE  ~Broken /\ OnLine(buffer', line') /\ Goes(line, buffer.data, line', buffer'.data)
<1>1. buffer \in Buffer
  BY DEF KeepsLine, Types
<1>2. /\ ~Broken /\ ~IsBeyond(buffer, call)
      /\ ~(call.do = "group" /\ OrderMatters(buffer, call.count))
  <2>1. /\ history'.beyond = (history.beyond \/ IsBeyond(buffer, call))
        /\ history'.mixed = (history.mixed
                              \/ (call.do = "group" /\ OrderMatters(buffer, call.count)))
    BY DEF Make
  <2> QED BY <2>1 DEF Broken
<1>3. OnLine(buffer, line)
  BY <1>2 DEF KeepsLine
<1>4. buffer' = After(buffer, call) /\ line' = Line(buffer')
  BY DEF Make
<1>5. OnLine(buffer', Line(buffer')) /\ Goes(line, buffer.data, Line(buffer'), buffer'.data)
  BY <1>1, <1>2, <1>3, <1>4, AfterGoes
<1> QED BY <1>2, <1>4, <1>5

\* The other steps do not touch the stacks, the data or the line.
LEMMA UserStepKeeps ==
    ASSUME Types, UserStep
    PROVE  /\ line' = line /\ buffer'.data = buffer.data
           /\ buffer'.applied = buffer.applied /\ buffer'.undone = buffer.undone
           /\ history'.mixed = history.mixed /\ history'.beyond = history.beyond
<1> DEFINE Same == UNCHANGED <<buffer, line, history>>
<1>1. CASE Saves
  <2>1. CASE SaveBegins
    BY <2>1 DEF SaveBegins
  <2>2. CASE SaveEnds
    <3>1. buffer' = [buffer EXCEPT !.first = <<>>] /\ line' = line
          /\ history' = [history EXCEPT !.shifted = buffer.undone # <<>> \/ file' # buffer.data]
      BY <2>2 DEF SaveEnds
    <3> QED BY <3>1 DEF Types, Buffer
  <2>3. CASE SaveFails
    <3>1. buffer' = buffer /\ line' = line
          /\ history' = [history EXCEPT !.shifted = @ \/ file' # file]
      BY <2>3 DEF SaveFails
    <3> QED BY <3>1 DEF Types
  <2> QED BY <1>1, <2>1, <2>2, <2>3 DEF Saves
<1>2. ASSUME NEW calls, Begin(calls) PROVE Same
  BY <1>2 DEF Begin
<1>3. ASSUME Begins \/ Leaves PROVE Same
  BY <1>2, <1>3 DEF Begins, Leaves
<1>4. ASSUME NEW a, NEW b, Paste(a, b) \/ ImportPatch(a, b) PROVE Same
  BY <1>2, <1>4 DEF Paste, ImportPatch, Simple
<1>5. CASE Same
  BY <1>5
<1> HIDE DEF Same
<1> QED BY <1>1, <1>3, <1>4, <1>5, UserBegins

\* The line depends on the data and the two stacks only.
LEMMA KeepsOnLine ==
    ASSUME NEW b \in Buffer, NEW l, OnLine(b, l), NEW a,
           a.data = b.data, a.applied = b.applied, a.undone = b.undone
    PROVE  OnLine(a, l)
BY DEF OnLine, IsPast, IsFuture

\* The steps that make no call keep the buffer on its line and leave the history alone.
LEMMA UserKeepsLine ==
    ASSUME KeepsLine, UserStep \/ UNCHANGED vars, ~Broken'
    PROVE  OnLine(buffer', line') /\ line' = line /\ buffer'.data = buffer.data
<1>1. Types /\ buffer \in Buffer
  BY DEF KeepsLine, Types
<1>2. /\ line' = line /\ buffer'.data = buffer.data
      /\ buffer'.applied = buffer.applied /\ buffer'.undone = buffer.undone
      /\ history'.mixed = history.mixed /\ history'.beyond = history.beyond
  <2>1. CASE UserStep
    BY <1>1, <2>1, UserStepKeeps
  <2>2. CASE UNCHANGED vars
    BY <2>2 DEF vars
  <2> QED BY <2>1, <2>2
<1>3. OnLine(buffer, line)
  BY <1>2 DEF KeepsLine, Broken
<1> QED BY <1>1, <1>2, <1>3, KeepsOnLine

\* Every step keeps the invariant and is a step of the history, unless it is one that undo does
\* not cope with.
LEMMA NextKeepsLine ==
    ASSUME KeepsLine, [Next]_vars
    PROVE  KeepsLine' /\ [history'.mixed \/ history'.beyond \/ History!Next]_<<line, buffer.data>>
<1>1. ASSUME NEW call \in Call, Make(call), ~Broken'
      PROVE  /\ ~Broken' => OnLine(buffer', line')
             /\ [History!Next]_<<line, buffer.data>>
  <2>1. OnLine(buffer', line') /\ Goes(line, buffer.data, line', buffer'.data)
    BY <1>1, MakeKeepsLine, Zenon
  <2>2. CASE line' = line /\ buffer'.data = buffer.data
    BY <2>1, <2>2
  <2>3. CASE Edits(line, buffer.data, line', buffer'.data)
    <3>1. History!Edit
      BY <2>3 DEF Edits, Content, History!Edit
    <3> QED BY <2>1, <3>1 DEF History!Next
  <2>4. CASE Undoes(line, buffer.data, line', buffer'.data)
    <3>1. History!Undo
      BY <2>4 DEF Undoes, History!Undo, History!Front, History!Last, Front, Last
    <3> QED BY <2>1, <3>1 DEF History!Next
  <2>5. CASE Redoes(line, buffer.data, line', buffer'.data)
    <3>1. History!Redo
      BY <2>5, Zenon DEF Redoes, History!Redo
    <3> QED BY <2>1, <3>1 DEF History!Next
  <2>6. CASE Groups(line, buffer.data, line', buffer'.data)
    <3>1. History!Group
      BY <2>6, Zenon DEF Groups, History!Group
    <3> QED BY <2>1, <3>1 DEF History!Next
  <2> QED BY <2>1, <2>2, <2>3, <2>4, <2>5, <2>6, Zenon DEF Goes
<1>2. ASSUME UserStep \/ UNCHANGED vars, ~Broken'
      PROVE  /\ ~Broken' => OnLine(buffer', line')
             /\ [History!Next]_<<line, buffer.data>>
  <2>1. OnLine(buffer', line') /\ line' = line /\ buffer'.data = buffer.data
    BY <1>2, UserKeepsLine, Zenon
  <2> QED BY <2>1
<1>3. \/ UserStep \/ UNCHANGED vars
      \/ \E call \in Call : Make(call)
  <2>1. main \in Seq(Call) /\ import \in Seq(Small) /\ Small \subseteq Call
    BY DEF KeepsLine, Types, Small
  <2>2. ASSUME MainCalls PROVE \E call \in Call : Make(call)
    <3>1. Head(main) \in Call
      BY <2>1, <2>2, HeadTailProperties DEF MainCalls
    <3> QED BY <2>2, <3>1, Zenon DEF MainCalls
  <2>3. ASSUME ImportCalls PROVE \E call \in Call : Make(call)
    <3>1. Head(import) \in Call
      BY <2>1, <2>3, HeadTailProperties DEF ImportCalls
    <3> QED BY <2>3, <3>1, Zenon DEF ImportCalls
  <2> QED BY <2>2, <2>3, Zenon DEF Next
<1>4. Types'
  BY NextTypes DEF KeepsLine
<1>5. ~Broken' => OnLine(buffer', line') /\ [History!Next]_<<line, buffer.data>>
  BY <1>1, <1>2, <1>3, Zenon
<1> QED BY <1>4, <1>5 DEF KeepsLine, Broken

\* Undo and redo lead through the contents there have been: every step of the stacks is a
\* step of the history, or one that does not touch it.
THEOREM HistoryAlwaysKept == Spec => HistoryKept
<1>1. Spec => []KeepsLine
  BY InitKeepsLine, NextKeepsLine, PTL DEF Spec
<1>2. Init => History!Init
  BY InitKeepsLine
<1>3. KeepsLine /\ [Next]_vars =>
          [history'.mixed \/ history'.beyond \/ History!Next]_<<line, buffer.data>>
  BY NextKeepsLine
<1> QED BY <1>1, <1>2, <1>3, PTL DEF Spec, HistoryKept

-----------------------------------------------------------------------------
(* The highlights                                                          *)

\* What differs from the saved data, and the values of the first edits
SavedBut(d, saved, D) ==
    Len(d) = Len(saved) /\ \A i \in 1 .. Len(saved) : i - 1 \notin D => d[i] = saved[i]
FirstKept(first, saved) == \A x \in DOMAIN first : x < Len(saved) => first[x] = saved[x + 1]

\* What differs in some bytes only differs in more bytes only.
LEMMA SavedButMore ==
    ASSUME NEW d, NEW saved, NEW D, NEW E, D \subseteq E, SavedBut(d, saved, D)
    PROVE  SavedBut(d, saved, E)
BY DEF SavedBut

\* Putting an entry on the stack does not change the first values.
LEMMA AddedFirst ==
    ASSUME NEW b \in Buffer, NEW entry
    PROVE  Added(b, entry).first = b.first
<1> DEFINE done == RedoEntry(b.data, entry)
           f == Forgotten(b)
<1>1. f.first = b.first /\ "first" \in DOMAIN f
  BY DEF Forgotten, Buffer
<1>2. Added(b, entry) = [f EXCEPT !.data = done.data, !.applied = Append(@, done.entry)]
  BY DEF Added
<1> HIDE DEF f, done
<1> QED BY <1>1, <1>2

\* Nor do groups, undo and redo.
LEMMA SameFirst ==
    ASSUME NEW b \in Buffer, NEW call \in Call, call.do \in {"group", "undo", "redo"}
    PROVE  After(b, call).first = b.first
<1>1. CASE call.do = "group"
  <2>1. After(b, call) = Grouped(b, call.count) /\ call.count \in Nat
    BY <1>1, CallCases DEF After
  <2>2. CASE call.count =< 1
    BY <2>1, <2>2 DEF Grouped
  <2>3. CASE ~(call.count =< 1)
    <3> PICK count \in Nat : count = call.count
      BY <2>1
    <3> PICK entry, rest : entry = Taken(b, count) /\ rest = Rest(b, count)
      OBVIOUS
    <3>1. entry \in Entry /\ rest \in Seq(Entry)
      BY RestType
    <3>2. UndoEntry(b.data, entry) \in Content
      BY <3>1, BufferFields, EntryType
    <3> DEFINE x == [b EXCEPT !.data = UndoEntry(@, entry), !.applied = rest]
    <3>3. x \in Buffer /\ x.first = b.first
      BY <3>1, <3>2 DEF Buffer
    <3>4. Grouped(b, count) = Added(x, entry)
      BY <2>3 DEF Grouped
    <3> HIDE DEF x
    <3> QED BY <2>1, <3>3, <3>4, AddedFirst
  <2> QED BY <2>2, <2>3
<1>2. CASE call.do = "undo"
  BY <1>2 DEF After, Undone, Buffer
<1>3. CASE call.do = "redo"
  BY <1>3 DEF After, Redone, Buffer
<1> QED BY <1>1, <1>2, <1>3

\* more are the first values after the bytes at an address have changed from old to new.
MoreFirst(more, first, a, old, new) ==
    /\ DOMAIN first \subseteq DOMAIN more
    /\ \A x \in DOMAIN first : more[x] = first[x]
    /\ \A j \in 1 .. Len(new) : old[j] # new[j] => a + j - 1 \in DOMAIN more
    /\ \A x \in DOMAIN more \ DOMAIN first :
          \E j \in 1 .. Len(new) : x = a + j - 1 /\ more[x] = old[j]

\* The first values keep those there are, and get the old value of the bytes that change.
LEMMA FirstValuesAre ==
    ASSUME NEW a \in Nat, NEW old, NEW new \in Content, NEW first \in Values
    PROVE  MoreFirst(FirstValues(first, a, old, new), first, a, old, new)
<1> DEFINE changed == {a + i - 1 : i \in {j \in DOMAIN new : old[j] # new[j]}}
           more ==
              [x \in DOMAIN first \union changed |->
                  IF x \in DOMAIN first THEN first[x] ELSE old[x - a + 1]]
<1>1. FirstValues(first, a, old, new) = more
  BY DEF FirstValues
<1>2. DOMAIN new = 1 .. Len(new)
  BY DEF Content
<1>3. /\ \A j \in 1 .. Len(new) : old[j] # new[j] => a + j - 1 \in changed
      /\ \A x \in changed : \E j \in 1 .. Len(new) : x = a + j - 1
  BY <1>2
<1>4. /\ DOMAIN more = DOMAIN first \union changed
      /\ \A x \in DOMAIN more : more[x] = IF x \in DOMAIN first THEN first[x] ELSE old[x - a + 1]
  OBVIOUS
<1> HIDE DEF changed, more
<1>5. ASSUME NEW x \in DOMAIN more \ DOMAIN first
      PROVE  \E j \in 1 .. Len(new) : x = a + j - 1 /\ more[x] = old[j]
  <2>1. PICK j \in 1 .. Len(new) : x = a + j - 1
    BY <1>3, <1>4
  <2>2. x - a + 1 = j
    BY <1>2, <2>1
  <2>3. more[x] = old[x - a + 1]
    BY <1>4
  <2> QED BY <2>1, <2>2, <2>3
<1> QED BY <1>1, <1>3, <1>4, <1>5 DEF MoreFirst

\* What a write does to the data and to the first values
LEMMA WriteCallIs ==
    ASSUME NEW b \in Buffer, NEW call \in Call, call.do = "write"
    PROVE  LET old == ReadRaw(b.data, call.at, Len(call.bytes), Zeros(Len(call.bytes)))
           IN  \/ After(b, call) = b
               \/ /\ After(b, call).first = FirstValues(b.first, call.at, old, call.bytes)
                  /\ After(b, call).data = WriteRaw(b.data, call.at, call.bytes)
<1> PICK at \in Nat, new \in Content : at = call.at /\ new = call.bytes
  BY CallCases
<1> DEFINE old == ReadRaw(b.data, at, Len(new), Zeros(Len(new)))
           first == FirstValues(b.first, at, old, new)
           x == [b EXCEPT !.first = first]
           op == [kind |-> "write", at |-> at, old |-> old, new |-> new]
<1>1. After(b, call) = Modified(b, at, new)
  BY DEF After
<1>2. Modified(b, at, new) = IF old = new THEN b ELSE Added(x, <<op>>)
  BY DEF Modified
<1>3. first \in Values
  <2>1. Len(new) \in Nat
    BY DEF Content
  <2>2. Zeros(Len(new)) \in Content /\ Len(Zeros(Len(new))) = Len(new)
    BY <2>1, ZerosType
  <2>3. old \in Content /\ IsRead(old, b.data, at, Len(new), Zeros(Len(new)))
    BY <2>1, <2>2, BufferFields, ReadRawType
  <2>4. Len(old) = Len(new)
    BY <2>3 DEF IsRead
  <2> HIDE DEF old
  <2> QED BY <2>3, <2>4, BufferFields, FirstValuesType
<1>4. op = EditOf(b, call)
  BY DEF EditOf
<1>5. \/ After(b, call) = b
      \/ After(b, call).data = RedoOperation(b.data, op)
  <2> HIDE DEF op
  <2> QED BY <1>4, EditIs DEF Holds
<1>6. RedoOperation(b.data, op) = WriteRaw(b.data, at, new)
  BY DEF RedoOperation
<1> HIDE DEF first, op, old
<1>7. x \in Buffer /\ x.first = first
  BY <1>3 DEF Buffer
<1> HIDE DEF x
<1>8. Added(x, <<op>>).first = first
  BY <1>7, AddedFirst
<1> QED BY <1>1, <1>2, <1>5, <1>6, <1>8 DEF first, old

\* A write of a single byte whose address is within the data fits, however it is bounded.
LEMMA OneFits ==
    ASSUME NEW at \in Nat, NEW n \in Nat, NEW m \in Nat, NEW j \in 1 .. n,
           n = 1 \/ at + n <= m, at + j - 1 < m
    PROVE  at + n <= m /\ at + j \in 1 .. m /\ at + j - 1 + 1 = at + j
OBVIOUS

\* A write that is within the data or of a single byte
FitsIn(at, n, m) == n = 1 \/ at + n <= m

\* The values a write adds are the saved ones: those bytes had not been changed before.
LEMMA FirstStaysKept ==
    ASSUME NEW at \in Nat, NEW new \in Content, NEW d \in Content, NEW saved \in Content,
           NEW old, NEW was, IsRead(old, d, at, Len(new), was),
           NEW first, NEW more, MoreFirst(more, first, at, old, new),
           SavedBut(d, saved, DOMAIN first), FirstKept(first, saved),
           FitsIn(at, Len(new), Len(saved))
    PROVE  FirstKept(more, saved)
<1> PICK n \in Nat, m \in Nat : n = Len(new) /\ m = Len(saved)
  BY DEF Content
<1> SUFFICES ASSUME NEW x \in DOMAIN more, x < m, x \notin DOMAIN first PROVE more[x] = saved[x + 1]
  BY DEF MoreFirst, FirstKept
<1>1. PICK j \in 1 .. n : x = at + j - 1 /\ more[x] = old[j]
  BY DEF MoreFirst
<1>2. at + n <= m /\ at + j \in 1 .. m /\ at + j - 1 = x /\ x + 1 = at + j
  BY <1>1, OneFits DEF FitsIn
<1>3. old[j] = d[at + j]
  BY <1>2 DEF IsRead, SavedBut
<1>4. d[at + j] = saved[at + j]
  BY <1>2 DEF SavedBut
<1> QED BY <1>1, <1>2, <1>3, <1>4

\* After a write, the data differs from what was saved in bytes whose first value is known
\* only.
LEMMA WrittenStaysSaved ==
    ASSUME NEW at \in Nat, NEW new \in Content, NEW d \in Content, NEW saved \in Content,
           NEW old, NEW was, IsRead(old, d, at, Len(new), was),
           NEW w, IsWritten(w, d, at, new),
           NEW first, NEW more, MoreFirst(more, first, at, old, new),
           SavedBut(d, saved, DOMAIN first)
    PROVE  SavedBut(w, saved, DOMAIN more)
<1> PICK n \in Nat, m \in Nat : n = Len(new) /\ m = Len(saved)
  BY DEF Content
<1>1. Len(d) = m /\ Len(w) = m /\ \A i \in 1 .. m : i - 1 \notin DOMAIN first => d[i] = saved[i]
  BY DEF SavedBut, IsWritten
<1>2. ASSUME NEW i \in 1 .. m, i - 1 \notin DOMAIN more PROVE w[i] = saved[i]
  <2>1. d[i] = saved[i]
    BY <1>1, <1>2 DEF MoreFirst
  <2>2. CASE at + n > m
    BY <1>1, <2>1, <2>2 DEF IsWritten
  <2>3. CASE at + n <= m /\ i \notin at + 1 .. at + n
    BY <1>1, <2>1, <2>3 DEF IsWritten
  <2>4. CASE at + n <= m /\ i \in at + 1 .. at + n
    <3> PICK j \in 1 .. n : j = i - at
      <4>1. i - at \in 1 .. n
        BY <2>4
      <4> QED BY <4>1, Zenon
    <3>1. w[i] = new[j]
      BY <1>1, <2>4 DEF IsWritten
    <3>2. at + j - 1 = i - 1 /\ at + j = i
      OBVIOUS
    <3>3. old[j] = new[j]
      BY <1>2, <3>2 DEF MoreFirst
    <3>4. old[j] = d[i]
      BY <1>1, <2>4, <3>2 DEF IsRead
    <3> QED BY <2>1, <3>1, <3>3, <3>4
  <2> QED BY <2>2, <2>3, <2>4
<1> QED BY <1>1, <1>2 DEF SavedBut

\* So a write that fits keeps both.
LEMMA WriteSaves ==
    ASSUME NEW b \in Buffer, NEW call \in Call, call.do = "write", NEW saved \in Content,
           SavedBut(b.data, saved, DOMAIN b.first), FirstKept(b.first, saved),
           FitsIn(call.at, Len(call.bytes), Len(saved)), NEW a, a = After(b, call)
    PROVE  /\ DOMAIN b.first \subseteq DOMAIN a.first /\ FirstKept(a.first, saved)
           /\ SavedBut(a.data, saved, DOMAIN a.first)
<1>1. PICK at \in Nat, new \in Content : at = call.at /\ new = call.bytes
  BY CallCases
<1>2. PICK d \in Content, first \in Values : d = b.data /\ first = b.first
  BY BufferFields
<1>3. PICK was : was = Zeros(Len(new))
  OBVIOUS
<1>4. PICK old : old = ReadRaw(d, at, Len(new), was)
  OBVIOUS
<1>5. IsRead(old, d, at, Len(new), was)
  <2>1. Len(new) \in Nat
    BY DEF Content
  <2>2. was \in Content /\ Len(was) = Len(new)
    BY <1>3, <2>1, ZerosType
  <2> QED BY <1>4, <2>1, <2>2, ReadRawType
<1>6. SavedBut(d, saved, DOMAIN first)
  BY <1>2, Zenon
<1>7. FirstKept(first, saved)
  BY <1>2, Zenon
<1>8. FitsIn(at, Len(new), Len(saved))
  BY <1>1, Zenon
<1>9. PICK more : more = FirstValues(first, at, old, new)
  OBVIOUS
<1>10. MoreFirst(more, first, at, old, new)
  BY <1>9, FirstValuesAre, Zenon
<1>11. PICK w \in Content : w = WriteRaw(d, at, new) /\ IsWritten(w, d, at, new)
  BY WriteRawType
<1>12. FirstKept(more, saved)
  BY <1>5, <1>6, <1>7, <1>8, <1>10, FirstStaysKept, ZenonT(60)
<1>13. SavedBut(w, saved, DOMAIN more)
  BY <1>5, <1>6, <1>10, <1>11, WrittenStaysSaved, ZenonT(60)
<1>14. DOMAIN first \subseteq DOMAIN more
  BY <1>10 DEF MoreFirst
<1>15. a = b \/ (a.first = more /\ a.data = w)
  BY <1>1, <1>2, <1>3, <1>4, <1>9, <1>11, WriteCallIs
<1> QED BY <1>2, <1>6, <1>7, <1>12, <1>13, <1>14, <1>15

\* The contents that undo and redo lead to without undoing what has been saved
LineSavedBut(l, d, saved, D, m) ==
    /\ SavedBut(d, saved, D)
    /\ \A i \in 1 .. Len(l.past) : i > m => SavedBut(l.past[i], saved, D)
    /\ \A i \in 1 .. Len(l.future) : SavedBut(l.future[i], saved, D)

\* A step of the history to data that differs in such bytes only keeps this of the whole line.
LEMMA GoesSavedBut ==
    ASSUME NEW l, NEW past \in Seq(Content), NEW future \in Seq(Content),
           past = l.past, future = l.future,
           NEW d \in Content, NEW l2, NEW d2, Goes(l, d, l2, d2),
           NEW saved, NEW D, NEW E, D \subseteq E,
           NEW m \in Nat, LineSavedBut(l, d, saved, D, m), SavedBut(d2, saved, E)
    PROVE  LineSavedBut(l2, d2, saved, E, m)
<1> DEFINE Good(x) == SavedBut(x, saved, E)
<1>1. /\ Good(d) /\ Good(d2)
      /\ \A i \in 1 .. Len(past) : i > m => Good(past[i])
      /\ \A i \in 1 .. Len(future) : Good(future[i])
  BY SavedButMore, Zenon DEF LineSavedBut
<1> HIDE DEF Good
<1> SUFFICES /\ \A i \in 1 .. Len(l2.past) : i > m => Good(l2.past[i])
             /\ \A i \in 1 .. Len(l2.future) : Good(l2.future[i])
  BY <1>1, Zenon DEF LineSavedBut, Good
<1>2. Len(<<>>) = 0
  OBVIOUS
<1>3. /\ Len(Append(past, d)) = Len(past) + 1 /\ Append(past, d)[Len(past) + 1] = d
      /\ \A i \in 1 .. Len(past) : Append(past, d)[i] = past[i]
  BY AppendProperties
<1>4. \A i \in 1 .. Len(Append(past, d)) : i > m => Good(Append(past, d)[i])
  BY <1>1, <1>3
<1>5. CASE l2 = l
  BY <1>1, <1>5
<1>6. CASE Edits(l, d, l2, d2)
  BY <1>2, <1>4, <1>6 DEF Edits
<1>7. CASE Undoes(l, d, l2, d2)
  <2>1. /\ Len(Front(past)) = Len(past) - 1 /\ Len(past) \in Nat \ {0}
        /\ \A i \in 1 .. Len(past) - 1 : Front(past)[i] = past[i]
    BY <1>7, FrontLast DEF Undoes
  <2>2. \A i \in 1 .. Len(Front(past)) : i > m => Good(Front(past)[i])
    BY <1>1, <2>1
  <2>3. FirstAndRest(<<d>> \o future, d, future)
    BY FirstThenRest
  <2>4. ASSUME NEW i \in 1 .. Len(<<d>> \o future) PROVE Good((<<d>> \o future)[i])
    <3>1. CASE i = 1
      BY <1>1, <2>3, <3>1 DEF FirstAndRest
    <3>2. CASE i # 1
      <4> PICK j \in 1 .. Len(future) : i = j + 1
        <5>1. i - 1 \in 1 .. Len(future) /\ i = (i - 1) + 1
          BY <2>3, <3>2 DEF FirstAndRest
        <5> QED BY <5>1, Zenon
      <4> QED BY <1>1, <2>3 DEF FirstAndRest
    <3> QED BY <3>1, <3>2
  <2>5. l2.past = Front(past) /\ l2.future = <<d>> \o future
    BY <1>7 DEF Undoes
  <2> QED BY <2>2, <2>4, <2>5
<1>8. CASE Redoes(l, d, l2, d2)
  <2>1. /\ Len(Tail(future)) = Len(future) - 1 /\ Len(future) \in Nat
        /\ \A i \in 1 .. Len(Tail(future)) : Tail(future)[i] = future[i + 1]
    BY <1>8, HeadTailProperties DEF Redoes
  <2>2. \A i \in 1 .. Len(Tail(future)) : i + 1 \in 1 .. Len(future)
    BY <2>1
  <2>3. \A i \in 1 .. Len(Tail(future)) : Good(Tail(future)[i])
    BY <1>1, <2>1, <2>2
  <2>4. l2.past = Append(past, d) /\ l2.future = Tail(future)
    BY <1>8 DEF Redoes
  <2> QED BY <1>4, <2>3, <2>4
<1>9. CASE Groups(l, d, l2, d2)
  <2>1. PICK n \in 0 .. Len(past) : l2.past = SubSeq(past, 1, n) /\ l2.future = <<>>
    BY <1>9 DEF Groups
  <2>2. StartOf(SubSeq(past, 1, n), past, n)
    BY StartIs
  <2>3. \A i \in 1 .. n : i \in 1 .. Len(past)
    BY <2>1
  <2> QED BY <1>1, <1>2, <2>1, <2>2, <2>3 DEF StartOf
<1> QED BY <1>5, <1>6, <1>7, <1>8, <1>9 DEF Goes

\* The line has an element for every entry on the stacks.
LEMMA LineType ==
    ASSUME NEW b \in Buffer, NEW l, OnLine(b, l)
    PROVE  /\ l.past \in Seq(Content) /\ Len(l.past) = Len(b.applied)
           /\ l.future \in Seq(Content) /\ Len(l.future) = Len(b.undone)
<1> PICK c, f : /\ IsPast(c, b) /\ IsFuture(f, b)
                /\ l = [past |-> PastSeq(c, Len(b.applied)), future |-> FutureSeq(f, Len(b.undone))]
  BY DEF OnLine
<1>1. Len(b.applied) \in Nat /\ Len(b.undone) \in Nat
  BY BufferFields
<1>2. c \in [0 .. Len(b.applied) -> Content] /\ f \in [0 .. Len(b.undone) -> Content]
  BY DEF IsPast, IsFuture
<1> QED BY <1>1, <1>2, PastSeqType, FutureSeqType

\* Where undo and redo lead to
LEMMA LastSavedBut ==
    ASSUME NEW l, NEW d, NEW saved, NEW D, NEW m \in Nat, LineSavedBut(l, d, saved, D, m),
           NEW past \in Seq(Content), past = l.past, NEW future \in Seq(Content), future = l.future
    PROVE  /\ Len(past) > m => SavedBut(Last(past), saved, D)
           /\ future # <<>> => SavedBut(Head(future), saved, D)
<1>1. ASSUME Len(past) > m PROVE SavedBut(Last(past), saved, D)
  <2>1. Len(past) \in 1 .. Len(past) /\ Last(past) = past[Len(past)]
    BY <1>1 DEF Last
  <2> QED BY <1>1, <2>1 DEF LineSavedBut
<1>2. ASSUME future # <<>> PROVE SavedBut(Head(future), saved, D)
  <2>1. 1 \in 1 .. Len(future) /\ Head(future) = future[1]
    BY <1>2
  <2> QED BY <2>1 DEF LineSavedBut
<1> QED BY <1>1, <1>2

\* A call that moves no byte, and undoes nothing that was saved, keeps the line and the first
\* values.
LEMMA CallSaves ==
    ASSUME NEW b \in Buffer, NEW l, OnLine(b, l), NEW call \in Call,
           NEW saved \in Content, NEW m \in Nat,
           LineSavedBut(l, b.data, saved, DOMAIN b.first, m), FirstKept(b.first, saved),
           call.do = "write" => FitsIn(call.at, Len(call.bytes), Len(saved)),
           call.do \notin {"insert", "remove"},
           call.do = "undo" => b.applied = <<>> \/ Len(b.applied) > m,
           ~(call.do = "group" /\ OrderMatters(b, call.count)), NEW a, a = After(b, call)
    PROVE  LineSavedBut(Line(a), a.data, saved, DOMAIN a.first, m) /\ FirstKept(a.first, saved)
<1>1. SavedBut(b.data, saved, DOMAIN b.first)
  BY DEF LineSavedBut
<1>2. Goes(l, b.data, Line(a), a.data)
  BY AfterGoes DEF IsBeyond
<1> PICK past \in Seq(Content), future \in Seq(Content) :
        past = l.past /\ future = l.future /\ Len(past) = Len(b.applied)
  BY LineType
<1>3. ASSUME call.do \in {"group", "undo", "redo"}, SavedBut(a.data, saved, DOMAIN b.first)
      PROVE  /\ DOMAIN b.first \subseteq DOMAIN a.first /\ FirstKept(a.first, saved)
             /\ SavedBut(a.data, saved, DOMAIN a.first)
  BY <1>3, SameFirst
<1>4. /\ DOMAIN b.first \subseteq DOMAIN a.first /\ FirstKept(a.first, saved)
      /\ SavedBut(a.data, saved, DOMAIN a.first)
  <2>1. CASE call.do = "write"
    BY <1>1, <2>1, WriteSaves
  <2>2. CASE call.do = "group"
    <3>1. call.count \in Nat /\ a = Grouped(b, call.count)
      BY <2>2, CallCases DEF After
    <3>2. CASE call.count =< 1
      BY <1>1, <1>3, <2>2, <3>1, <3>2 DEF Grouped
    <3>3. CASE ~(call.count =< 1)
      <4>1. call.count > 1 /\ ~OrderMatters(b, call.count)
        BY <2>2, <3>1, <3>3
      <4>2. a.data = b.data
        BY <3>1, <4>1, GroupGoes
      <4> QED BY <1>1, <1>3, <2>2, <4>2
    <3> QED BY <3>2, <3>3
  <2>3. CASE call.do = "undo"
    <3>1. a = Undone(b)
      BY <2>3 DEF After
    <3>2. CASE b.applied = <<>>
      BY <1>1, <1>3, <2>3, <3>1, <3>2 DEF Undone
    <3>3. CASE b.applied # <<>>
      <4>1. Undoes(l, b.data, Line(a), a.data)
        BY <3>1, <3>3, UndoGoes
      <4>2. a.data = Last(past) /\ Len(past) > m
        BY <2>3, <3>3, <4>1 DEF Undoes
      <4> QED BY <1>3, <2>3, <4>2, LastSavedBut
    <3> QED BY <3>2, <3>3
  <2>4. CASE call.do = "redo"
    <3>1. a = Redone(b)
      BY <2>4 DEF After
    <3>2. CASE b.undone = <<>>
      BY <1>1, <1>3, <2>4, <3>1, <3>2 DEF Redone
    <3>3. CASE b.undone # <<>>
      <4>1. Redoes(l, b.data, Line(a), a.data)
        BY <3>1, <3>3, RedoGoes
      <4>2. a.data = Head(future) /\ future # <<>>
        BY <4>1 DEF Redoes
      <4> QED BY <1>3, <2>4, <4>2, LastSavedBut
    <3> QED BY <3>2, <3>3
  <2> QED BY <2>1, <2>2, <2>3, <2>4, CallCases
<1>5. b.data \in Content
  BY BufferFields
<1> QED BY <1>2, <1>4, <1>5, GoesSavedBut, ZenonT(60)

\* The calls of the main thread: a write of more than a byte is within the saved data, or
\* comes after the data has been resized.
Resizes(call) == call.do \in {"insert", "remove"}
Fits(calls, n) ==
    \A i \in 1 .. Len(calls) :
        calls[i].do = "write" =>
            \/ FitsIn(calls[i].at, Len(calls[i].bytes), n)
            \/ \E k \in 1 .. i - 1 : Resizes(calls[k])

\* Small calls fit.
LEMMA FitsSmall ==
    ASSUME NEW calls \in Seq(Small), NEW n
    PROVE  Fits(calls, n)
<1>1. \A i \in 1 .. Len(calls) : calls[i] \in Small
  BY ElementOfSeq
<1> QED BY <1>1 DEF Fits, FitsIn, Small

\* The first call fits, and the others still do unless it resized the data.
LEMMA FitsTail ==
    ASSUME NEW calls \in Seq(Call), calls # <<>>, NEW n, Fits(calls, n)
    PROVE  /\ Head(calls).do = "write" => FitsIn(Head(calls).at, Len(Head(calls).bytes), n)
           /\ ~Resizes(Head(calls)) => Fits(Tail(calls), n)
<1>1. /\ Head(calls) = calls[1] /\ 1 \in 1 .. Len(calls) /\ Len(Tail(calls)) = Len(calls) - 1
      /\ \A i \in 1 .. Len(Tail(calls)) : Tail(calls)[i] = calls[i + 1] /\ i + 1 \in 1 .. Len(calls)
  BY HeadTailProperties
<1>2. Head(calls).do = "write" => FitsIn(Head(calls).at, Len(Head(calls).bytes), n)
  BY <1>1 DEF Fits
<1>3. ASSUME ~Resizes(Head(calls)), NEW i \in 1 .. Len(Tail(calls)), Tail(calls)[i].do = "write",
             ~FitsIn(Tail(calls)[i].at, Len(Tail(calls)[i].bytes), n)
      PROVE  \E k \in 1 .. i - 1 : Resizes(Tail(calls)[k])
  <2>1. PICK k \in 1 .. i + 1 - 1 : Resizes(calls[k])
    BY <1>1, <1>3 DEF Fits
  <2>2. k # 1
    BY <1>1, <1>3, <2>1
  <2>3. k - 1 \in 1 .. i - 1 /\ k - 1 \in 1 .. Len(Tail(calls)) /\ k = (k - 1) + 1
    BY <1>1, <2>2
  <2>4. Tail(calls)[k - 1] = calls[k]
    BY <1>1, <2>3
  <2> QED BY <2>1, <2>3, <2>4
<1> QED BY <1>2, <1>3 DEF Fits

\* A paste fits: it resizes the data first when it would not.
LEMMA FitsPaste ==
    ASSUME buffer \in Buffer, NEW a \in Nat, NEW b \in Content
    PROVE  Fits(PasteCalls(a, b), Len(buffer.data))
<1> PICK size \in Nat, n \in Nat : size = Len(buffer.data) /\ n = Len(b)
  BY BufferFields DEF Content
<1> PICK total \in Nat : total = a + n
  OBVIOUS
<1> DEFINE write == WriteCall(a, b)
<1>1. write.at = a /\ write.bytes = b
  BY DEF WriteCall
<1>2. CASE total > size
  <2> DEFINE insert == InsertCall(size, total - size)
             calls == Append(<<insert>>, write)
  <2>1. PasteCalls(a, b) = calls
    <3>1. ResizeCalls(total) = <<insert>>
      BY <1>2 DEF ResizeCalls
    <3>2. PasteCalls(a, b) = Append(ResizeCalls(total), write)
      <4>1. a + Len(b) >= Len(buffer.data)
        BY <1>2
      <4> HIDE DEF write
      <4> QED BY <4>1, Zenon DEF PasteCalls, write
    <3> HIDE DEF insert, write
    <3> QED BY <3>1, <3>2, Zenon
  <2>2. insert.do = "insert"
    BY DEF InsertCall
  <2> HIDE DEF insert, write
  <2>3. Len(calls) = 2 /\ calls[1] = insert /\ calls[2] = write
    <3>1. <<insert>> \in Seq({insert, write}) /\ Len(<<insert>>) = 1 /\ <<insert>>[1] = insert
      OBVIOUS
    <3> QED BY <3>1, AppendProperties
  <2> HIDE DEF calls
  <2>4. ASSUME NEW i \in 1 .. Len(calls), calls[i].do = "write"
        PROVE \E k \in 1 .. i - 1 : Resizes(calls[k])
    <3>1. i = 2
      BY <2>2, <2>3, <2>4
    <3>2. 1 \in 1 .. i - 1 /\ Resizes(calls[1])
      BY <2>2, <2>3, <3>1 DEF Resizes
    <3> QED BY <3>2
  <2> QED BY <2>1, <2>4 DEF Fits
<1>3. CASE total <= size
  <2> DEFINE calls == <<write>>
  <2>1. PasteCalls(a, b) = calls
    <3>1. total = size => ResizeCalls(total) = <<>>
      BY DEF ResizeCalls
    <3> PICK first : first = IF total >= size THEN ResizeCalls(total) ELSE <<>>
      OBVIOUS
    <3>2. first = <<>>
      BY <1>3, <3>1
    <3>3. PasteCalls(a, b) = Append(first, write)
      BY Zenon DEF PasteCalls
    <3> HIDE DEF write
    <3> QED BY <3>2, <3>3
  <2> HIDE DEF write
  <2>2. Len(calls) = 1 /\ calls[1] = write
    OBVIOUS
  <2> HIDE DEF calls
  <2>3. \A i \in 1 .. Len(calls) : FitsIn(calls[i].at, Len(calls[i].bytes), size)
    BY <1>1, <1>3, <2>2 DEF FitsIn
  <2> QED BY <2>1, <2>3 DEF Fits
<1> QED BY <1>2, <1>3

\* As long as no byte has moved since the last save: what undo and redo lead to differs
\* from the saved data in the bytes whose first value is known only.
Clean == ~(history.shifted \/ history.mixed \/ history.beyond)
IsSaved ==
    /\ Fits(main, Len(file))
    /\ LineSavedBut(line, buffer.data, file, DOMAIN buffer.first, mark)
    /\ FirstKept(buffer.first, file)
\* The main thread makes no calls while it saves.
Waits == saving # {} => main = <<>>
KeepsSaved == KeepsLine /\ Waits /\ (Clean => IsSaved)

\* Making a call after which no byte has moved keeps the line and the first values, and did not
\* resize.
LEMMA MakeKeepsSaved ==
    ASSUME KeepsSaved, NEW call \in Call, Make(call), UNCHANGED <<file, mark>>, Clean',
           call.do = "write" => FitsIn(call.at, Len(call.bytes), Len(file))
    PROVE  /\ Clean /\ ~Resizes(call)
           /\ LineSavedBut(line', buffer'.data, file', DOMAIN buffer'.first, mark')
           /\ FirstKept(buffer'.first, file')
<1>1. buffer \in Buffer /\ file \in Content /\ mark \in Nat
  BY DEF KeepsSaved, KeepsLine, Types
<1>2. /\ Clean /\ ~Shifts(buffer, call)
      /\ ~(call.do = "group" /\ OrderMatters(buffer, call.count))
  <2>1. /\ history'.beyond = (history.beyond \/ IsBeyond(buffer, call))
        /\ history'.mixed = (history.mixed
                              \/ (call.do = "group" /\ OrderMatters(buffer, call.count)))
        /\ history'.shifted = (history.shifted \/ Shifts(buffer, call))
    BY DEF Make
  <2> QED BY <2>1 DEF Clean
<1>3. OnLine(buffer, line) /\ IsSaved
  BY <1>2 DEF KeepsSaved, KeepsLine, Clean, Broken
<1>4. /\ call.do \notin {"insert", "remove"}
      /\ call.do = "undo" => buffer.applied = <<>> \/ Len(buffer.applied) > mark
  <2>1. Len(buffer.applied) \in Nat
    BY <1>1, BufferFields
  <2> QED BY <1>1, <1>2, <2>1 DEF Shifts
<1>5. buffer' = After(buffer, call) /\ line' = Line(buffer')
  BY DEF Make
<1>6. LineSavedBut(line, buffer.data, file, DOMAIN buffer.first, mark)
      /\ FirstKept(buffer.first, file)
  BY <1>3 DEF IsSaved
<1>7. /\ LineSavedBut(Line(buffer'), buffer'.data, file, DOMAIN buffer'.first, mark)
      /\ FirstKept(buffer'.first, file)
  BY <1>1, <1>2, <1>3, <1>4, <1>5, <1>6, CallSaves
<1> QED BY <1>2, <1>4, <1>5, <1>7 DEF Resizes

\* The invariant holds initially.
LEMMA InitKeepsSaved == Init => KeepsSaved
<1> SUFFICES ASSUME Init PROVE KeepsSaved
  OBVIOUS
<1>1. KeepsLine
  BY InitKeepsLine
<1>2. buffer \in Buffer /\ line = Line(buffer) /\ main = <<>>
      /\ file = buffer.data /\ buffer.first = <<>>
      /\ buffer.applied = <<>> /\ buffer.undone = <<>>
  BY <1>1 DEF KeepsLine, Types, Init
<1>3. line.past = <<>> /\ line.future = <<>>
  BY <1>2, NothingYet
<1>4. LineSavedBut(line, buffer.data, file, DOMAIN buffer.first, mark)
  BY <1>2, <1>3 DEF LineSavedBut, SavedBut
<1>5. FirstKept(buffer.first, file) /\ Fits(main, Len(file))
  BY <1>2 DEF FirstKept, Fits
<1> QED BY <1>1, <1>2, <1>4, <1>5 DEF KeepsSaved, IsSaved, Waits

\* A save makes the data what the file holds and forgets the first values, or changes nothing.
LEMMA SaveKeepsSaved ==
    ASSUME KeepsSaved, SaveEnds, Clean'
    PROVE  IsSaved'
<1>1. /\ main' = <<>> /\ line' = line
      /\ mark' = Len(buffer.applied)
      /\ buffer' = [buffer EXCEPT !.first = <<>>]
      /\ history' = [history EXCEPT !.shifted = buffer.undone # <<>> \/ file' # buffer.data]
  BY DEF SaveEnds, KeepsSaved, Waits
<1>2. buffer \in Buffer /\ buffer.data \in Content
  BY BufferFields DEF KeepsSaved, KeepsLine, Types
<1>3. buffer'.data = buffer.data /\ buffer'.first = <<>>
  BY <1>1, <1>2 DEF Buffer
<1>4. buffer.undone = <<>> /\ file' = buffer.data /\ ~Broken
  <2>1. history \in [beyond : BOOLEAN, mixed : BOOLEAN, shifted : BOOLEAN]
    BY DEF KeepsSaved, KeepsLine, Types
  <2>2. /\ history'.shifted = (buffer.undone # <<>> \/ file' # buffer.data)
        /\ history'.mixed = history.mixed /\ history'.beyond = history.beyond
    BY <1>1, <2>1
  <2> QED BY <2>2 DEF Clean, Broken
<1>5. OnLine(buffer, line)
  BY <1>4 DEF KeepsSaved, KeepsLine
<1>6. PICK past \in Seq(Content), future \in Seq(Content) :
         /\ past = line.past /\ future = line.future
         /\ Len(past) = Len(buffer.applied) /\ Len(future) = Len(buffer.undone)
  BY <1>2, <1>5, LineType
<1>7. Len(future) = 0 /\ Len(past) \in Nat
  BY <1>4, <1>6
<1>8. SavedBut(buffer.data, buffer.data, DOMAIN <<>>)
  BY DEF SavedBut
<1>9. LineSavedBut(line', buffer'.data, file', DOMAIN buffer'.first, mark')
  BY <1>1, <1>3, <1>4, <1>6, <1>7, <1>8 DEF LineSavedBut
<1>10. FirstKept(buffer'.first, file') /\ Fits(main', Len(file'))
  BY <1>1, <1>3 DEF FirstKept, Fits
<1> QED BY <1>9, <1>10 DEF IsSaved

\* The other steps of the user and the beginning of an import change the calls only.
LEMMA UserKeepsSaved ==
    ASSUME KeepsSaved, UserStep, Clean'
    PROVE  IsSaved'
<1> DEFINE Same == UNCHANGED <<buffer, line, file, mark, history>>
<1>1. Types /\ buffer \in Buffer
  BY DEF KeepsSaved, KeepsLine, Types
<1>2. ASSUME Same PROVE IsSaved
  BY <1>2 DEF KeepsSaved, Clean
<1>3. ASSUME Same, Fits(main', Len(file)) PROVE IsSaved'
  BY <1>2, <1>3 DEF IsSaved
<1>4. ASSUME NEW calls, Begin(calls) PROVE Same /\ main' = calls
  BY <1>4 DEF Begin
<1>5. CASE Begins
  BY <1>3, <1>4, <1>5, FitsSmall DEF Begins
<1>6. CASE Leaves
  <2>1. Same /\ main' = main
    BY <1>6 DEF Leaves
  <2> QED BY <1>2, <1>3, <2>1 DEF IsSaved
<1>7. ASSUME NEW a \in Address, NEW b \in Texts, Paste(a, b) PROVE IsSaved'
  <2>1. Same /\ main' = PasteCalls(a, b)
    <3>1. Begin(PasteCalls(a, b))
      BY <1>7 DEF Paste, PasteCalls, Simple
    <3> HIDE DEF Same
    <3> QED BY <1>4, <3>1
  <2>2. a \in Nat /\ b \in Content
    BY UndoAssumption DEF Address, Content
  <2>3. Len(file) = Len(buffer.data)
    BY <1>2, <2>1 DEF IsSaved, LineSavedBut, SavedBut
  <2> QED BY <1>1, <1>3, <2>1, <2>2, <2>3, FitsPaste
<1>8. ASSUME NEW a, NEW b, ImportPatch(a, b) PROVE IsSaved'
  <2>1. Same /\ main' = main
    BY <1>8 DEF ImportPatch
  <2> QED BY <1>2, <1>3, <2>1 DEF IsSaved
<1>9. CASE Saves
  <2>1. CASE SaveBegins
    <3>1. Same /\ main' = main
      BY <2>1 DEF SaveBegins
    <3> QED BY <1>2, <1>3, <3>1 DEF IsSaved
  <2>2. CASE SaveFails
    <3>1. UNCHANGED <<buffer, line, main, mark>>
          /\ history' = [history EXCEPT !.shifted = @ \/ file' # file]
      BY <2>2 DEF SaveFails
    <3>2. file' = file /\ history' = history
      BY <1>1, <3>1 DEF Clean, Types
    <3>3. Same /\ main' = main
      BY <3>1, <3>2
    <3> QED BY <1>2, <1>3, <3>3 DEF IsSaved
  <2> QED BY <1>9, <2>1, <2>2, SaveKeepsSaved DEF Saves
<1> QED BY <1>1, <1>5, <1>6, <1>7, <1>8, <1>9, UserBegins

\* While it saves, the main thread does nothing else.
LEMMA NextWaits ==
    ASSUME Types, Waits, [Next]_vars
    PROVE  Waits'
<1>1. ASSUME NEW calls, Begin(calls) PROVE Waits'
  BY <1>1 DEF Begin, Waits
<1>2. CASE UserStep
  <2>1. ASSUME NEW a, NEW b, Paste(a, b) \/ ImportPatch(a, b) PROVE Waits'
    BY <1>1, <2>1 DEF Paste, ImportPatch, Simple, Waits
  <2>2. CASE Begins \/ Leaves
    BY <1>1, <2>2 DEF Begins, Leaves, Waits
  <2>3. CASE Saves
    BY <2>3 DEF Saves, SaveBegins, SaveEnds, SaveFails, Waits
  <2> QED BY <1>2, <2>1, <2>2, <2>3, UserBegins
<1>3. CASE MainCalls
  BY <1>3 DEF MainCalls, Waits
<1>4. CASE ImportCalls
  BY <1>4 DEF ImportCalls, Seen, Waits
<1>5. CASE UNCHANGED vars
  BY <1>5 DEF vars, Waits
<1> QED BY <1>2, <1>3, <1>4, <1>5 DEF Next

\* Every step keeps the invariant.
LEMMA NextKeepsSaved ==
    ASSUME KeepsSaved, [Next]_vars
    PROVE  KeepsSaved'
<1>1. KeepsLine' /\ Types /\ Waits'
  BY NextKeepsLine, NextWaits DEF KeepsSaved, KeepsLine
<1>2. main \in Seq(Call) /\ import \in Seq(Small) /\ Small \subseteq Call
  BY <1>1 DEF Types, Small
<1> SUFFICES ASSUME Clean' PROVE IsSaved'
  BY <1>1 DEF KeepsSaved
<1>3. CASE MainCalls
  <2>1. /\ main # <<>> /\ Make(Head(main)) /\ main' = Tail(main) /\ file' = file /\ mark' = mark
    BY <1>3 DEF MainCalls
  <2>2. Head(main) \in Call
    BY <1>2, <2>1, HeadTailProperties
  <2>3. Clean
    BY <2>1 DEF Make, Clean
  <2>4. Fits(main, Len(file))
    BY <2>3 DEF KeepsSaved, IsSaved
  <2>5. /\ Head(main).do = "write" => FitsIn(Head(main).at, Len(Head(main).bytes), Len(file))
        /\ ~Resizes(Head(main)) => Fits(Tail(main), Len(file))
    BY <1>2, <2>1, <2>4, FitsTail, Zenon
  <2>6. /\ ~Resizes(Head(main))
        /\ LineSavedBut(line', buffer'.data, file', DOMAIN buffer'.first, mark')
        /\ FirstKept(buffer'.first, file')
    BY <2>1, <2>2, <2>5, MakeKeepsSaved
  <2> QED BY <2>1, <2>5, <2>6 DEF IsSaved
<1>4. CASE ImportCalls
  <2>1. import # <<>> /\ Make(Head(import)) /\ main' = main /\ file' = file /\ mark' = mark
    BY <1>4 DEF ImportCalls
  <2>2. Head(import) \in Small
    BY <1>2, <2>1, HeadTailProperties
  <2>3. Head(import).do = "write" => FitsIn(Head(import).at, Len(Head(import).bytes), Len(file))
    BY <2>2 DEF Small, FitsIn
  <2>4. /\ Clean
        /\ LineSavedBut(line', buffer'.data, file', DOMAIN buffer'.first, mark')
        /\ FirstKept(buffer'.first, file')
    BY <1>2, <2>1, <2>2, <2>3, MakeKeepsSaved
  <2> QED BY <2>1, <2>4 DEF KeepsSaved, IsSaved
<1>5. CASE UserStep
  BY <1>5, UserKeepsSaved
<1>6. CASE UNCHANGED vars
  BY <1>6 DEF KeepsSaved, Clean, IsSaved, vars
<1> QED BY <1>3, <1>4, <1>5, <1>6 DEF Next

\* Where the first values are those that were saved, the highlights are the changes.
LEMMA SavedHighlights == KeepsSaved => HighlightsAreChanges
<1> SUFFICES ASSUME KeepsSaved, Clean, NEW i \in DOMAIN buffer.data
             PROVE  Highlighted(i - 1) <=> buffer.data[i] # file[i]
  BY DEF HighlightsAreChanges, Clean
<1>1. SavedBut(buffer.data, file, DOMAIN buffer.first) /\ FirstKept(buffer.first, file)
  BY DEF KeepsSaved, IsSaved, LineSavedBut
<1>2. buffer.data \in Content
  BY BufferFields DEF KeepsSaved, KeepsLine, Types
<1>3. i \in 1 .. Len(file) /\ i - 1 < Len(file) /\ (i - 1) + 1 = i
  BY <1>1, <1>2 DEF SavedBut, Content
<1>4. CASE i - 1 \in DOMAIN buffer.first
  <2>1. buffer.first[i - 1] = file[i]
    BY <1>1, <1>3, <1>4 DEF FirstKept
  <2> QED BY <1>3, <1>4, <2>1 DEF Highlighted
<1>5. CASE i - 1 \notin DOMAIN buffer.first
  BY <1>1, <1>3, <1>5 DEF SavedBut, Highlighted
<1> QED BY <1>4, <1>5

\* The patches view highlights exactly the bytes that differ from the saved ones.
THEOREM HighlightsAlwaysChanges == Spec => []HighlightsAreChanges
<1>1. Spec => []KeepsSaved
  BY InitKeepsSaved, NextKeepsSaved, PTL DEF Spec
<1> QED BY <1>1, SavedHighlights, PTL
=============================================================================
