------------------------------ MODULE MatterValue ------------------------------
(***************************************************************************)
(* src/matter/include/matterValue.h: a tagged union.  Assignments of C++   *)
(* types write the first bytes of the union, and its tag when _typeCreate  *)
(* is set; conversions read them when the tag fits and give 0 otherwise.   *)
(***************************************************************************)
EXTENDS Naturals, Sequences

\* The kinds of value a conversion to each C++ type reads.
Kinds ==
    [bool   |-> {"BOOLEAN"},                     float  |-> {"FLOAT"},
     uint8  |-> {"UINT8", "ENUM8", "BITMAP8"},   uint16 |-> {"UINT16", "ENUM16", "BITMAP16"},
     uint32 |-> {"UINT32", "BITMAP32"},          uint64 |-> {"UINT64"},
     int8   |-> {"INT8"},                        int16  |-> {"INT16"},
     int32  |-> {"INTEGER", "INT32"},            int64  |-> {"INT64"},
     string |-> {"CHAR_STRING", "OCTET_STRING"}]

CppTypes == DOMAIN Kinds

\* A tag is a kind and whether the value may be null; strings that may are not read.
Plain(kind) == [kind |-> kind, nullable |-> FALSE]

Accepts == [type \in CppTypes |-> {tag \in [kind : Kinds[type], nullable : BOOLEAN] :
                                      type = "string" => ~tag.nullable}]

\* The kind an assignment gives.
Assigned == [bool  |-> "BOOLEAN", float  |-> "FLOAT",
             uint8 |-> "UINT8",   uint16 |-> "UINT16", uint32 |-> "UINT32", uint64 |-> "UINT64",
             int8  |-> "INT8",    int16  |-> "INT16",  int32  |-> "INT32",  int64  |-> "INT64",
             string |-> "CHAR_STRING"]

Tag == [type \in CppTypes |-> Plain(Assigned[type])]

\* Bytes of the union; a string is a pointer and two lengths.
Size == [bool |-> 1, uint8 |-> 1, int8 |-> 1, uint16 |-> 2, int16 |-> 2, uint32 |-> 4,
         int32 |-> 4, float |-> 4, uint64 |-> 8, int64 |-> 8, string |-> 8]

Bytes(b) == [k \in 1..8 |-> b]

\* Mutant: the tag is never written.
AssignKeepsTag(v, type, x) ==
    [v EXCEPT !.val = [k \in 1..8 |-> IF k <= Size[type] THEN x[k] ELSE v.val[k]]]

\* operator= of each type.  A string is written with its tag in any case.
Assign(v, type, x) ==
    [v EXCEPT !.tag = IF v.typeCreate \/ type = "string" THEN Tag[type] ELSE @,
              !.val = [k \in 1..8 |-> IF k <= Size[type] THEN x[k] ELSE v.val[k]]]

\* The conversion operators, on the bytes of their type.
Convert(v, type) ==
    [k \in 1..Size[type] |-> IF v.tag \in Accepts[type] THEN v.val[k] ELSE 0]

-------------------------------------------------------------------------------
(* The C structure of the SDK, and the attributes that keep one *)

\* The constructors.
Empty(creates)  == [tag |-> Plain("INVALID"), val |-> Bytes(0), typeCreate |-> creates]
FromRaw(raw)    == [tag |-> raw.tag, val |-> raw.val, typeCreate |-> TRUE]

\* operator= from a raw structure and the structure itself.
SetRaw(v, raw)  == [v EXCEPT !.tag = raw.tag, !.val = raw.val]
Raw(v)          == [tag |-> v.tag, val |-> v.val]

\* attribute::update (external) refuses a value of another type.
SdkUpdate(attribute, raw) == IF raw.tag = attribute.tag THEN raw ELSE attribute

\* MatterAttribute::updateValue and getValue; a refusal is only logged.
UpdateValue(attribute, type, x) == SdkUpdate(attribute, Raw(Assign(Empty(TRUE), type, x)))

GetValue(attribute) == SetRaw(Empty(FALSE), attribute)

-------------------------------------------------------------------------------
\* What was assigned is read back whole, as the same type, when the value takes
\* its tag from the assignment or had a tag that fits.  A value that takes the
\* tag is read as 0 by every other type, never as part of the other's bytes.
\* The same through an attribute: updateValue is seen by getValue, and a value
\* taken from an attribute, changed and given back keeps the attribute's type,
\* also when an assignment would not have chosen it (enums, bitmaps, nullables).
ReadsBack(v, type, x, other) ==
    LET w       == Assign(v, type, x)
        part    == SubSeq(x, 1, Size[type])
        changed == Assign(GetValue(Raw(v)), type, x)
    IN  /\ v.typeCreate \/ type = "string" \/ v.tag \in Accepts[type] => Convert(w, type) = part
        /\ v.typeCreate /\ other # type => Convert(w, other) = SubSeq(Bytes(0), 1, Size[other])
        /\ v.tag = Tag[type] => Convert(GetValue(UpdateValue(Raw(v), type, x)), type) = part
        /\ v.tag \in Accepts[type] \ {Plain("OCTET_STRING")} =>
             /\ SdkUpdate(Raw(v), Raw(changed)) = Raw(changed)
             /\ Convert(FromRaw(Raw(changed)), type) = part
===============================================================================
