----------------------------- MODULE Structures -----------------------------
(***************************************************************************)
(* Where the variables of a block lie (core/datastructure.py, blocks.py,   *)
(* the widths of core/datatypes.py): the instance data of a function block *)
(* and the temporary data of any block are laid out field by field, in the *)
(* order of the sections of the declaration.                               *)
(***************************************************************************)
EXTENDS Integers, Sequences, SequencesExt, FiniteSetsExt

CONSTANTS
  Types,      \* what is declared: scalars, arrays, structures and strings
  InOutTypes, \* what is declared IN_OUT
  MaxFields   \* bound

\* A user defined data type (UDT) is laid out as a STRUCT is, an embedded
\* instance as a scalar that is as wide as the instance.
Scalar(width)     == [kind |-> "scalar", width |-> width]
ArrayOf(T, count) == [kind |-> "array", of |-> T, count |-> count]
Struct(parts)     == [kind |-> "struct", parts |-> parts]
String(length)    == [kind |-> "string", length |-> length]

Byte == Scalar(8)
PointerBits == 48

VARIABLES fields, section, declared

structVars == <<fields, section, declared>>

Sections == <<"IN", "OUT", "IN_OUT", "STAT", "TEMP">>
Owner(s) == IF s = "TEMP" THEN "temp" ELSE "instance"

-----------------------------------------------------------------------------
(* AwlStruct.  A field lies at a bit of a byte; override is the width it    *)
(* has in the end, or -1.                                                  *)

Field(path, byte, bit, bits, override) ==
  [path |-> path, byte |-> byte, bit |-> bit, bits |-> bits, override |-> override]

Bytes(bits) == (bits + 7) \div 8
FinalBits(f) == IF f.override >= 0 THEN f.override ELSE f.bits

GetUnalignedSize(fs) == IF fs = <<>> THEN 0 ELSE Last(fs).byte + Bytes(FinalBits(Last(fs)))
GetSize(fs) == 2 * ((GetUnalignedSize(fs) + 1) \div 2)

\* Fields without a name have the path <<>>.
AddDummyField(fs) == Append(fs, Field(<<>>, GetUnalignedSize(fs), 0, 0, -1))

\* Consecutive bits share a byte.  A faulty variant: without an end of the byte.
AddScalarEndless(fs, path, width) ==
  Append(fs, IF width = 1 /\ fs # <<>> /\ Last(fs).bits = 1 THEN Field(path, Last(fs).byte, (Last(fs).bit + 1) % 8, 1, -1)
             ELSE Field(path, GetUnalignedSize(fs), 0, width, -1))

AddScalar(fs, path, width) ==
  Append(fs, IF width = 1 /\ fs # <<>> /\ Last(fs).bits = 1 /\ Last(fs).bit < 7
             THEN Field(path, Last(fs).byte, Last(fs).bit + 1, 1, -1)
             ELSE Field(path, GetUnalignedSize(fs), 0, width, -1))

\* The structure's own field, which takes no room, its parts and an end.
Merge(fs, path, width, parts) ==
  LET base == GetUnalignedSize(fs)
  IN  AddDummyField(fs \o <<Field(path, base, 0, width, 0)>>
        \o [i \in DOMAIN parts |-> [parts[i] EXCEPT !.byte = base + @,
                                                    !.path = IF @ = <<>> THEN @ ELSE path \o @]])

StringParts(length) == [i \in 1 .. length + 2 |-> Field(IF i > 2 THEN <<i - 2>> ELSE <<>>, i - 1, 0, 8, -1)]

\* The one element of a set: what a fold hands on is computed once.
The(S) == CHOOSE x \in S : TRUE

RECURSIVE Width(_), Layout(_), AddField(_, _, _)

Width(T) ==
  CASE T.kind = "scalar" -> T.width
    [] T.kind = "array"  -> T.count * Width(T.of)
    [] T.kind = "struct" -> GetSize(Layout(T.parts)) * 8
    [] T.kind = "string" -> (T.length + 2) * 8

AddPadding(fs, n) == FoldLeft(LAMBDA g, i : AddScalar(g, <<>>, 8), fs, [i \in 1 .. n |-> i])

AddFieldAligned(fs, path, T, alignment) ==
  The({AddField(g, path, T) : g \in {AddPadding(fs, (alignment - (GetUnalignedSize(fs) % alignment)) % alignment)}})

AddFieldNaturallyAligned(fs, path, T) == AddFieldAligned(fs, path, T, IF Width(T) \in {1, 8} THEN 1 ELSE 2)

\* An element that is wider than a byte is followed by a byte if its width is odd.
AddElement(fs, path, T) ==
  LET g == AddField(fs, path, T)
  IN  IF Width(T) > 8 /\ Bytes(Width(T)) % 2 # 0 THEN AddScalar(g, <<>>, 8) ELSE g

AddField(fs, path, T) ==
  CASE T.kind = "scalar" -> AddScalar(fs, path, T.width)
    [] T.kind = "struct" -> Merge(fs, path, Width(T), Layout(T.parts))
    [] T.kind = "string" -> Merge(fs, path, Width(T), StringParts(T.length))
    [] T.kind = "array"  ->
         AddDummyField(FoldLeft(LAMBDA g, i : The({AddElement(h, path \o <<i>>, T.of) : h \in {g}}),
                                Append(fs, Field(path, GetUnalignedSize(fs), 0, Width(T), 0)),
                                [i \in 1 .. T.count |-> i]))

Layout(parts) == FoldLeft(LAMBDA g, i : The({AddFieldNaturallyAligned(h, <<i>>, parts[i]) : h \in {g}}),
                          <<>>, [i \in DOMAIN parts |-> i])

-----------------------------------------------------------------------------
(* BlockInterface.                                                         *)

Compound(T) == T.kind # "scalar"

\* The first field of a section is aligned to words.  For an IN_OUT of a
\* compound type, a pointer takes the place of the field.
BuildField(fs, s, isFirst, path, T) ==
  LET g == IF isFirst THEN AddFieldAligned(fs, path, T, 2) ELSE AddFieldNaturallyAligned(fs, path, T)
  IN  IF s = "IN_OUT" /\ Compound(T)
      THEN [i \in DOMAIN g |-> IF g[i].path = path THEN [g[i] EXCEPT !.override = PointerBits] ELSE g[i]]
      ELSE g

StructInit == /\ fields = [o \in {"instance", "temp"} |-> <<>>]
              /\ section = 1 /\ declared = <<>>

Declare(i, T) ==
  /\ Len(declared) < MaxFields /\ i >= section
  /\ T \in IF Sections[i] = "IN_OUT" THEN InOutTypes ELSE Types
  /\ section' = i /\ declared' = Append(declared, <<Sections[i], T>>)
  /\ fields' = [fields EXCEPT ![Owner(Sections[i])] =
       BuildField(@, Sections[i], \A d \in Range(declared) : d[1] # Sections[i], <<Len(declared'), 0>>, T)]

StructNext == \E i \in DOMAIN Sections : \E T \in Types \cup InOutTypes : Declare(i, T)

StructSpec == StructInit /\ [][StructNext]_structVars

-----------------------------------------------------------------------------
(* Properties.                                                             *)

Within(p, q) == p # q /\ IsPrefix(p, q)
Bits(f) == (8 * f.byte + f.bit) .. (8 * f.byte + f.bit + FinalBits(f) - 1)

\* The fields that hold data: not those of structures and arrays as a whole, and
\* for an IN_OUT of a compound type the pointer, not what it points to.
Holders(fs) ==
  {f \in Range(fs) : /\ f.path # <<>> /\ FinalBits(f) > 0
                     /\ \A g \in Range(fs) : ~(g.override = PointerBits /\ Within(g.path, f.path))}

\* No two variables share a bit and none lies beyond the data of the block:
\* whatever the types, the sections and their order are.  It is so if no IN_OUT
\* of a compound type is smaller than the pointer that takes its place.
FieldsApart ==
  \A o \in DOMAIN fields : \A f \in Holders(fields[o]) :
    /\ Bits(f) \subseteq 0 .. 8 * GetSize(fields[o]) - 1
    /\ \A g \in Holders(fields[o]) \ {f} : Bits(f) \cap Bits(g) = {}

\* The elements of an array that are a word or wider lie on even bytes.
ElementsAligned ==
  \A o \in DOMAIN fields : \A f \in Range(fields[o]) : \A g \in Range(fields[o]) :
    Within(f.path, g.path) /\ Len(g.path) = Len(f.path) + 1 /\ g.bits > 8 => g.byte % 2 = 0
=============================================================================
