---------------------------- MODULE StructLayout ----------------------------
(***************************************************************************)
(* Structs of a Cap'n Proto message, as far as the generated accessors of  *)
(* tunnelrpc_capnp.rs use them: StructReader and StructBuilder of the      *)
(* capnp crate.  A number is the set of its bits that are one, the data    *)
(* section the set of its bits that are one, and a pointer slot holds what *)
(* it points to.                                                           *)
(***************************************************************************)
EXTENDS Integers, FiniteSets

NoTag == -1

(* Where a field is: a range of bits of the data section, or a pointer     *)
(* slot.  A member of a union also has the tag that says it is present.    *)
Field(section, at, width, type) ==
  [section |-> section, at |-> at, width |-> width, type |-> type, tag |-> NoTag]

Bool(n) == Field("data", n, 1, "number")
U8(n) == Field("data", 8 * n, 8, "number")
U16(n) == Field("data", 16 * n, 16, "number")
I32(n) == Field("data", 32 * n, 32, "number")
U64(n) == Field("data", 64 * n, 64, "number")
I64(n) == U64(n)

Text(n) == Field("pointers", n, 1, "text")
Bytes(n) == Field("pointers", n, 1, "data")
List(n) == Field("pointers", n, 1, "list")
Struct(n) == Field("pointers", n, 1, "struct")

Member(tag, field) == [field EXCEPT !.tag = tag]

(* STRUCT_SIZE, in words and in pointers, and where the setters write.     *)
Builder(words, slots, fields) ==
  [words |-> words, slots |-> slots, fields |-> fields]

-----------------------------------------------------------------------------
Pointee(type, content) == [type |-> type, content |-> content]
Null == Pointee("null", <<>>)
WrongType == Pointee("error", <<>>)
NotPresent == Pointee("absent", <<>>)

(* A new struct: all zero.                                                 *)
NewStruct(words, slots) ==
  [words |-> words, bits |-> {}, slots |-> [i \in 0 .. slots - 1 |-> Null]]

(* An accessor of a field that the message has no room for, because its    *)
(* sender knows an older schema, finds zero or a null pointer.             *)
Fits(s, f) ==
  IF f.section = "data" THEN f.at + f.width <= 64 * s.words
  ELSE f.at \in DOMAIN s.slots

Span(f) == f.at .. f.at + f.width - 1

GetNumber(s, f) ==
  IF Fits(s, f) THEN {b \in 0 .. f.width - 1 : f.at + b \in s.bits} ELSE {}

SetNumber(s, f, v) ==
  [s EXCEPT !.bits = (@ \ Span(f)) \cup {f.at + b : b \in v}]

GetPointer(s, f) ==
  LET p == IF Fits(s, f) THEN s.slots[f.at] ELSE Null
  IN  IF p.type \in {"null", f.type} THEN p ELSE WrongType

SetPointer(s, f, p) == [s EXCEPT !.slots = [@ EXCEPT ![f.at] = p]]

-----------------------------------------------------------------------------
(* Unions: the first 16 bits of the data section say which member is set.  *)

TagField == U16(0)
TagBits(tag) == {b \in 0 .. 15 : (tag \div 2^b) % 2 = 1}

IsPresent(s, f) == f.tag = NoTag \/ GetNumber(s, TagField) = TagBits(f.tag)

(* What the accessors of field f do with a value of its type.              *)
Get(s, f) ==
  IF ~IsPresent(s, f) THEN NotPresent
  ELSE IF f.section = "data" THEN Pointee("number", GetNumber(s, f))
  ELSE GetPointer(s, f)

Set(s, f, v) ==
  LET tagged == IF f.tag = NoTag THEN s ELSE SetNumber(s, TagField, TagBits(f.tag))
  IN  IF f.section = "data" THEN SetNumber(tagged, f, v.content)
      ELSE SetPointer(tagged, f, v)

Default(f) == IF f.section = "data" THEN Pointee("number", {}) ELSE Null
=============================================================================
