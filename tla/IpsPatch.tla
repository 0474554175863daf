------------------------------ MODULE IpsPatch ------------------------------
(***************************************************************************)
(* Exporting what was edited as an IPS or IPS32 patch, and importing it    *)
(* into the data that was edited.  The file may be cut short on its way.   *)
(*                                                                         *)
(* A file is what follows its header; numbers in it are written in digits  *)
(* of Base (256 in the code), most significant first.  The base address of *)
(* the provider is 0, and files are shorter than 4 GiB: the reader's place *)
(* in the file, a u32, does not wrap around.                               *)
(***************************************************************************)
EXTENDS Naturals, Sequences, SequencesExt

CONSTANTS
    Base,       \* number of values of a byte
    IPS, IPS32, \* PatchKind
    Footer,     \* by kind: the bytes "EOF" and "EEOF"
    Original,   \* the data of the provider when it was opened
    Foreign,    \* files of other programs
    MaxEdited   \* bound on the bytes written, inserted and removed

\* The first powers of Base, as many as the bytes of the largest number
Power[n \in 0 .. 8] == IF n = 0 THEN 1 ELSE Base * Power[n - 1]

\* The size of a provider fits into a u64.
ASSUME PatchAssumption ==
    /\ Base \in Nat \ {0, 1}
    /\ IPS # IPS32
    /\ Footer[IPS] \in [1 .. 3 -> 0 .. Base - 1] /\ Footer[IPS32] \in [1 .. 4 -> 0 .. Base - 1]
    /\ Original \in Seq(0 .. Base - 1) /\ Foreign \subseteq Seq(0 .. Base - 1)
    /\ MaxEdited \in Nat /\ Len(Original) + MaxEdited <= Power[8]

VARIABLES
    data,       \* the provider's data
    patches,    \* what PatchesGenerator makes of the operations done so far
    plain,      \* history: every operation has been a write of one byte
    edited,     \* bytes written, inserted and removed so far
    at,         \* where the patch is
    kind,       \* its kind
    file,       \* its file
    missing,    \* bytes that were cut off the file
    imported    \* the patches that were imported

vars == <<data, patches, plain, edited, at, kind, file, missing, imported>>

Byte == 0 .. Base - 1
Word == Power[4]                \* u32
Address == 0 .. Power[8] - 1    \* u64
Kinds == {IPS, IPS32}
Errors == {"PatchTooLarge", "InvalidPatchHeader", "InvalidPatchFormat", "MissingEOF"}

IsPatches(m) == \A a \in DOMAIN m : a \in Address /\ m[a] \in Byte

TypeOK ==
    /\ data \in Seq(Byte)
    /\ IsPatches(patches) /\ IsPatches(imported)
    /\ plain \in BOOLEAN
    /\ edited \in 0 .. MaxEdited
    /\ at \in {"editing", "throws", "exported", "imported"} \union Errors
    /\ kind \in Kinds
    /\ file \in Seq(Byte)
    /\ missing \in Nat

-----------------------------------------------------------------------------
(* Patches::fromProvider redoes the applied operations on a PatchesGenerator. *)

NoPatches == <<>>
\* std::map::insert keeps a value that is there already.
With(m, new) == [a \in DOMAIN m \union DOMAIN new |-> IF a \in DOMAIN m THEN m[a] ELSE new[a]]
Kept(m, offset) == [a \in {b \in DOMAIN m : b <= offset} |-> m[a]]
\* Every byte of a write goes to the address of the first.
GeneratorWrite(m, offset, bytes) == With([a \in {offset} |-> Last(bytes)], m)
\* Mutant: addresses do not wrap around.
MutShifted(a, n) == a + n
\* u64
Shifted(a, n) == (a + n) % Power[8]
\* Only what lies behind the offset is moved, not what is at it.
Moved(m, offset, n) ==
    LET moved == DOMAIN m \ DOMAIN Kept(m, offset)
    IN  With(Kept(m, offset),
             [a \in {Shifted(b, n) : b \in moved} |-> m[CHOOSE b \in moved : Shifted(b, n) = a]])
GeneratorInsert(m, offset, size) == Moved(m, offset, size)
GeneratorRemove(m, offset, size) == Moved(m, offset, Power[8] - size)

Edit(n) ==
    /\ at = "editing" /\ edited + n <= MaxEdited
    /\ edited' = edited + n
    /\ UNCHANGED <<at, kind, file, missing, imported>>
Overwrite(a, bytes) ==
    /\ Edit(Len(bytes)) /\ a + Len(bytes) <= Len(data)
    /\ data' = [i \in DOMAIN data |->
                   IF i \in a + 1 .. a + Len(bytes) THEN bytes[i - a] ELSE data[i]]
    /\ patches' = GeneratorWrite(patches, a, bytes)
    /\ plain' = (plain /\ Len(bytes) = 1)
InsertBytes(a, n) ==
    /\ Edit(n) /\ a <= Len(data)
    /\ data' = SubSeq(data, 1, a) \o [i \in 1 .. n |-> 0] \o SubSeq(data, a + 1, Len(data))
    /\ patches' = GeneratorInsert(patches, a, n)
    /\ plain' = FALSE
RemoveBytes(a, n) ==
    /\ Edit(n) /\ a + n <= Len(data)
    /\ data' = SubSeq(data, 1, a) \o SubSeq(data, a + n + 1, Len(data))
    /\ patches' = GeneratorRemove(patches, a, n)
    /\ plain' = FALSE

-----------------------------------------------------------------------------
(* Writing                                                                 *)

Width(k) == Len(Footer[k])
Digits(n, width) == [i \in 1 .. width |-> (n \div Power[width - i]) % Base]
Number(digits) ==
    LET upto[i \in 0 .. Len(digits)] == IF i = 0 THEN 0 ELSE upto[i - 1] * Base + digits[i]
    IN  upto[Len(digits)]

\* A record for each run of consecutive addresses
Starts(m) == {a \in DOMAIN m : a = 0 \/ a - 1 \notin DOMAIN m}
RunEnd(m, start) == CHOOSE a \in DOMAIN m : start .. a \subseteq DOMAIN m /\ a + 1 \notin DOMAIN m
                                               /\ start <= a
Run(m, start) == [i \in 1 .. RunEnd(m, start) - start + 1 |-> m[start + i - 1]]
\* The size takes two bytes, the address Width(k), whether it fits in or not.
Record(k, m, start) == Digits(start, Width(k)) \o Digits(Len(Run(m, start)), 2) \o Run(m, start)
\* fromProvider refuses an address that does not fit into a u32 before any record is written.
OutOfRange(m) == \E a \in DOMAIN m : a >= Word
TooLarge(m) == \E s \in Starts(m) : Len(Run(m, s)) >= Power[2]
\* toIPSPatch, toIPS32Patch write the records in the order of their addresses.
RecordAt(k, m, a) == IF a \in Starts(m) THEN Record(k, m, a) ELSE <<>>
Written(k, m) == FlattenSeq([i \in 1 .. Word |-> RecordAt(k, m, i - 1)]) \o Footer[k]

\* Mutant: nothing is done about a record that would begin with the footer.
MutBeginsWithFooter(k, m) == FALSE
\* The export puts a byte in front of such a record with std::map::at, which throws.
BeginsWithFooter(k, m) == Number(Footer[k]) \in Starts(m)

\* exportIPSPatch, exportIPS32Patch
Export(k) ==
    /\ at = "editing"
    /\ kind' = k
    /\ at' = CASE OutOfRange(patches) -> "PatchTooLarge"
               [] ~OutOfRange(patches) /\ BeginsWithFooter(k, patches) -> "throws"
               [] OTHER -> IF TooLarge(patches) THEN "PatchTooLarge" ELSE "exported"
    /\ file' = IF at' = "exported" THEN Written(k, patches) ELSE file
    /\ UNCHANGED <<data, patches, plain, edited, missing, imported>>

\* A patch that another program made
Receive(k) ==
    /\ at = "editing" /\ edited = 0
    /\ kind' = k /\ at' = "exported"
    /\ file' \in Foreign
    /\ plain' = FALSE
    /\ UNCHANGED <<data, patches, edited, missing, imported>>

\* The disk is full, or the file is copied in part.
Truncate ==
    /\ at = "exported" /\ missing = 0
    /\ missing' \in 1 .. Len(file)
    /\ file' = SubSeq(file, 1, Len(file) - missing')
    /\ UNCHANGED <<data, patches, plain, edited, at, kind, imported>>

-----------------------------------------------------------------------------
(* Reading                                                                 *)

Refused(error) == [error |-> error, patches |-> NoPatches]

\* Mutant: a last record of one byte is not read.
MutHasRecord(k, rest) == rest > 6 + Width(k)
\* The offset is compared with the size less the header, of five bytes, and the footer.
HasRecord(k, rest) == rest > 5 + Width(k)

\* An iteration of the loop: the reader r has come to a record.  The footer is looked for
\* behind it; `beyond` is the byte behind the end of the buffer, where the footer of an
\* IPS32 file is looked for too, since both kinds leave three bytes for it.
ReadRecord(k, beyond, r) ==
    LET body == r.at + Width(k) + 2
        offset == Number(SubSeq(file, r.at + 1, r.at + Width(k)))
        size == Number(SubSeq(file, r.at + Width(k) + 1, body))
        length == IF size > 0 THEN size ELSE Number(Reverse(SubSeq(file, body + 1, body + 2)))
        next == body + (IF size > 0 THEN size ELSE 3)
        value(i) == IF size > 0 THEN file[body + i + 1] ELSE file[body + 3]
        new == [a \in {(offset + i) % Word : i \in 0 .. length - 1} |->
                    value((a + Word - offset) % Word)]
    IN  IF next > Len(file) - 3
        THEN [r EXCEPT !.error = "InvalidPatchFormat"]
        ELSE [at |-> next,
              patches |-> With(new, r.patches),
              error |-> IF SubSeq(Append(file, beyond), next + 1, next + Width(k)) = Footer[k]
                        THEN "none" ELSE r.error]

\* fromIPSPatch, fromIPS32Patch.  A file has fewer records than bytes.
Read(k, beyond) ==
    LET after[n \in 0 .. Len(file)] ==      \* the reader after n iterations at most
            IF n = 0 THEN [at |-> 0, patches |-> NoPatches, error |-> "MissingEOF"]
            ELSE LET r == after[n - 1]
                 IN  IF r.error # "InvalidPatchFormat" /\ HasRecord(k, Len(file) - r.at)
                     THEN ReadRecord(k, beyond, r)
                     ELSE r
    IN  IF Len(file) < Width(k) THEN Refused("InvalidPatchHeader")
        ELSE IF after[Len(file)].error # "none" THEN Refused(after[Len(file)].error)
        ELSE after[Len(file)]

\* importIPSPatch, importIPS32Patch: the bytes are written one by one, those behind the
\* end without effect.
Import ==
    /\ at = "exported"
    /\ \E beyond \in Byte :
          LET read == Read(kind, beyond)
          IN  /\ at' = IF read.error = "none" THEN "imported" ELSE read.error
              /\ imported' = read.patches
    /\ UNCHANGED <<data, patches, plain, edited, kind, file, missing>>

-----------------------------------------------------------------------------
Init ==
    /\ data = Original /\ patches = NoPatches /\ plain = TRUE /\ edited = 0
    /\ at = "editing" /\ kind = IPS /\ file = <<>> /\ missing = 0 /\ imported = NoPatches

Next ==
    \/ \E n \in 1 .. MaxEdited, a \in 0 .. Len(data) :
          \/ \E bytes \in [1 .. n -> Byte] : Overwrite(a, bytes)
          \/ InsertBytes(a, n)
          \/ RemoveBytes(a, n)
    \/ \E k \in Kinds : Export(k) \/ Receive(k)
    \/ Truncate
    \/ Import

Spec == Init /\ [][Next]_vars

-----------------------------------------------------------------------------
(* Properties                                                              *)

\* What the format of a kind can say of an edit: something, and no address too long.
Expressible == plain /\ patches # NoPatches /\ \A a \in Starts(patches) : a < Power[Width(kind)]

Patched(m) == [i \in DOMAIN Original |-> IF i - 1 \in DOMAIN m THEN m[i - 1] ELSE Original[i]]

\* An exported patch is accepted, and makes of the original data what it was edited to,
\* whatever runs and lengths its records have and whether or not they contain the footer.
RoundTrip ==
    Expressible /\ missing = 0 =>
        /\ at \notin {"InvalidPatchHeader", "InvalidPatchFormat", "MissingEOF"}
        /\ at = "imported" => Patched(imported) = data

\* An IPS32 file ends with three of the four bytes of its footer.
EndsInFooter ==
    /\ kind = IPS32 /\ Len(file) >= 3
    /\ SubSeq(file, Len(file) - 2, Len(file)) = SubSeq(Footer[IPS32], 1, 3)

\* A patch that was cut short is refused instead of being imported in part.  Excepted is
\* an IPS32 patch that is left with the first three bytes of the footer at its end, be they
\* of the footer or of an address: the fourth is compared with whatever lies behind the
\* buffer.
TruncationIsNoticed ==
    Expressible /\ missing > 0 /\ ~EndsInFooter => at # "imported"
=============================================================================
