-------------------------- MODULE RpcMessageProofs --------------------------
(***************************************************************************)
(* With sound layouts (LayoutSound) no sequence of setters, of any length, *)
(* with any values and by peers of any schema, makes a getter return       *)
(* anything but what its field was last set to.  The layouts of this       *)
(* program's schema are sound, and its calls reach the methods they name.  *)
(***************************************************************************)
EXTENDS MCRpcMessage, TLAPS

IsStruct(s) ==
  /\ s = [words |-> s.words, bits |-> s.bits, slots |-> s.slots]
  /\ s.words \in Nat
  /\ s.bits \subseteq Nat
  /\ s.slots = [i \in DOMAIN s.slots |-> s.slots[i]]

(* A number in its place is what was put there.                            *)
LEMMA NumberRead ==
  ASSUME NEW s, IsStruct(s), NEW f, IsField(f), f.section = "data", Fits(s, f),
         NEW v, v \subseteq 0 .. f.width - 1
  PROVE  /\ GetNumber(SetNumber(s, f, v), f) = v
         /\ IsStruct(SetNumber(s, f, v))
         /\ SetNumber(s, f, v).words = s.words
         /\ SetNumber(s, f, v).slots = s.slots
<1> DEFINE t == SetNumber(s, f, v)
<1>1. /\ t.words = s.words /\ t.slots = s.slots
      /\ t.bits = (s.bits \ Span(f)) \cup {f.at + b : b \in v}
      /\ t = [words |-> t.words, bits |-> t.bits, slots |-> t.slots]
  BY DEF SetNumber, IsStruct
<1>2. f.at \in Nat /\ f.width \in Nat
  BY DEF IsField
<1>3. t.bits \subseteq Nat
  BY <1>1, <1>2 DEF IsStruct
<1>4. IsStruct(t)
  BY <1>1, <1>3 DEF IsStruct
<1>5. Fits(t, f)
  BY <1>1 DEF Fits
<1>6. ASSUME NEW b \in 0 .. f.width - 1 PROVE f.at + b \in t.bits <=> b \in v
  <2>1. f.at + b \in Span(f)
    BY <1>2 DEF Span
  <2>2. \A c \in v : f.at + b = f.at + c <=> b = c
    BY <1>2
  <2> QED BY <1>1, <2>1, <2>2
<1>7. GetNumber(t, f) = {b \in 0 .. f.width - 1 : f.at + b \in t.bits}
  BY <1>5 DEF GetNumber
<1> QED BY <1>1, <1>4, <1>6, <1>7

(* A number is not touched by one that is written elsewhere.               *)
LEMMA NumberKept ==
  ASSUME NEW s, IsStruct(s), NEW f, IsField(f), NEW g, IsField(g),
         Span(f) \cap Span(g) = {}, NEW v, v \subseteq 0 .. f.width - 1
  PROVE  GetNumber(SetNumber(s, f, v), g) = GetNumber(s, g)
<1> DEFINE t == SetNumber(s, f, v)
<1>1. /\ t.words = s.words /\ t.slots = s.slots
      /\ t.bits = (s.bits \ Span(f)) \cup {f.at + b : b \in v}
  BY DEF SetNumber, IsStruct
<1>2. /\ f.at \in Nat /\ f.width \in Nat
      /\ g.at \in Nat /\ g.width \in Nat
  BY DEF IsField
<1>3. Fits(t, g) <=> Fits(s, g)
  BY <1>1 DEF Fits
<1>4. ASSUME NEW b \in 0 .. g.width - 1 PROVE g.at + b \in t.bits <=> g.at + b \in s.bits
  <2>1. g.at + b \in Span(g)
    BY <1>2 DEF Span
  <2>2. \A c \in v : f.at + c \in Span(f)
    BY <1>2 DEF Span
  <2>3. g.at + b \notin Span(f)
    BY <2>1
  <2>4. g.at + b \notin {f.at + c : c \in v}
    BY <2>2, <2>3
  <2> QED BY <1>1, <2>3, <2>4
<1> QED BY <1>3, <1>4 DEF GetNumber

(* A pointer in its slot is what was put there, and no other slot nor any  *)
(* number is touched.                                                      *)
LEMMA PointerRead ==
  ASSUME NEW s, IsStruct(s), NEW f, IsField(f), f.section = "pointers", Fits(s, f),
         NEW p
  PROVE  LET t == SetPointer(s, f, p)
         IN  /\ IsStruct(t)
             /\ t.words = s.words /\ t.bits = s.bits
             /\ DOMAIN t.slots = DOMAIN s.slots
             /\ t.slots[f.at] = p
             /\ \A i \in DOMAIN s.slots \ {f.at} : t.slots[i] = s.slots[i]
<1> DEFINE t == SetPointer(s, f, p)
<1>1. f.at \in DOMAIN s.slots
  BY DEF Fits, IsField
<1>2. /\ t.words = s.words /\ t.bits = s.bits
      /\ t.slots = [s.slots EXCEPT ![f.at] = p]
      /\ t = [words |-> t.words, bits |-> t.bits, slots |-> t.slots]
  BY DEF SetPointer, IsStruct
<1>3. /\ DOMAIN t.slots = DOMAIN s.slots
      /\ t.slots[f.at] = p
      /\ \A i \in DOMAIN s.slots \ {f.at} : t.slots[i] = s.slots[i]
      /\ t.slots = [i \in DOMAIN t.slots |-> t.slots[i]]
  BY <1>1, <1>2
<1>4. IsStruct(t)
  BY <1>2, <1>3 DEF IsStruct
<1> QED BY <1>2, <1>3, <1>4

LEMMA TagIsField ==
  /\ IsField(TagField)
  /\ TagField.section = "data"
  /\ \A n : TagBits(n) \subseteq 0 .. TagField.width - 1
BY DEF IsField, TagField, U16, Field, NoTag, TagBits, PointerTypes

-----------------------------------------------------------------------------
(* What a setter may be given.                                             *)
Settable(f, v) ==
  /\ v = Pointee(v.type, v.content)
  /\ IF f.section = "data" THEN v.type = "number" /\ v.content \subseteq 0 .. f.width - 1
     ELSE v.type \in {f.type, "null"}

CanSet(s, f, v) ==
  /\ IsStruct(s) /\ IsField(f) /\ Fits(s, f) /\ Settable(f, v)
  /\ f.tag # NoTag => Fits(s, TagField)

(* The parts of a struct after a setter.                                   *)
LEMMA AfterSet ==
  ASSUME NEW s, NEW f, NEW v, CanSet(s, f, v)
  PROVE  LET t == Set(s, f, v)
         IN  /\ IsStruct(t)
             /\ t.words = s.words
             /\ DOMAIN t.slots = DOMAIN s.slots
             /\ f.section = "data" => /\ t = SetNumber(s, f, v.content)
                                      /\ t.slots = s.slots
             /\ f.section = "pointers" =>
                  /\ t.slots[f.at] = v
                  /\ \A i \in DOMAIN s.slots \ {f.at} : t.slots[i] = s.slots[i]
                  /\ t.bits = IF f.tag = NoTag THEN s.bits
                              ELSE SetNumber(s, TagField, TagBits(f.tag)).bits
<1> DEFINE tagged == IF f.tag = NoTag THEN s ELSE SetNumber(s, TagField, TagBits(f.tag))
<1>1. /\ IsStruct(tagged)
      /\ tagged.words = s.words /\ tagged.slots = s.slots
  BY NumberRead, TagIsField DEF CanSet
<1>2. CASE f.section = "data"
  <2>1. /\ Set(s, f, v) = SetNumber(s, f, v.content)
        /\ v.content \subseteq 0 .. f.width - 1
    BY <1>2 DEF Set, CanSet, IsField, Settable
  <2>2. /\ IsStruct(Set(s, f, v))
        /\ Set(s, f, v).words = s.words /\ Set(s, f, v).slots = s.slots
    BY <1>2, <2>1, NumberRead DEF CanSet
  <2> QED BY <1>2, <2>1, <2>2
<1>3. CASE f.section = "pointers"
  <2>1. Set(s, f, v) = SetPointer(tagged, f, v)
    BY <1>3 DEF Set
  <2>2. Fits(tagged, f)
    BY <1>1, <1>3 DEF Fits, CanSet
  <2>3. LET t == SetPointer(tagged, f, v)
        IN  /\ IsStruct(t)
            /\ t.words = tagged.words /\ t.bits = tagged.bits
            /\ DOMAIN t.slots = DOMAIN tagged.slots
            /\ t.slots[f.at] = v
            /\ \A i \in DOMAIN tagged.slots \ {f.at} : t.slots[i] = tagged.slots[i]
    BY <1>1, <1>3, <2>2, PointerRead DEF CanSet
  <2> QED BY <1>1, <1>3, <2>1, <2>3
<1>4. f.section \in {"data", "pointers"}
  BY DEF CanSet, IsField
<1> QED BY <1>2, <1>3, <1>4

(* A getter returns what its setter was given.                             *)
LEMMA SetThenGet ==
  ASSUME NEW s, NEW f, NEW v, CanSet(s, f, v)
  PROVE  Get(Set(s, f, v), f) = v
<1> DEFINE t == Set(s, f, v)
<1>1. CASE f.section = "data"
  <2>1. f.tag = NoTag /\ v = Pointee("number", v.content) /\ v.content \subseteq 0 .. f.width - 1
    BY <1>1 DEF CanSet, IsField, Settable
  <2>2. GetNumber(t, f) = v.content
    BY <1>1, <2>1, AfterSet, NumberRead DEF CanSet
  <2> QED BY <1>1, <2>1, <2>2 DEF Get, IsPresent
<1>2. CASE f.section = "pointers"
  <2>1. /\ t.slots[f.at] = v /\ f.at \in DOMAIN t.slots
        /\ t.words = s.words
        /\ t.bits = IF f.tag = NoTag THEN s.bits
                    ELSE SetNumber(s, TagField, TagBits(f.tag)).bits
    BY <1>2, AfterSet DEF CanSet, Fits
  <2>2. IsPresent(t, f)
    <3>1. CASE f.tag = NoTag
      BY <3>1 DEF IsPresent
    <3>2. CASE f.tag # NoTag
      <4> DEFINE n == SetNumber(s, TagField, TagBits(f.tag))
      <4>1. GetNumber(n, TagField) = TagBits(f.tag) /\ n.words = s.words
        BY <3>2, NumberRead, TagIsField DEF CanSet
      <4>2. GetNumber(t, TagField) = GetNumber(n, TagField)
        BY <2>1, <3>2, <4>1, TagIsField DEF GetNumber, Fits
      <4> QED BY <4>1, <4>2 DEF IsPresent
    <3> QED BY <3>1, <3>2
  <2>3. GetPointer(t, f) = v
    BY <1>2, <2>1 DEF GetPointer, Fits, CanSet, Settable
  <2> QED BY <1>2, <2>2, <2>3 DEF Get
<1> QED BY <1>1, <1>2 DEF CanSet, IsField

(* Setting a member of a union takes the others away.                      *)
LEMMA SetTakesAway ==
  ASSUME NEW s, NEW f, NEW v, CanSet(s, f, v), NEW g, IsField(g),
         f.tag # NoTag, g.tag # NoTag, TagBits(f.tag) # TagBits(g.tag)
  PROVE  Get(Set(s, f, v), g) = NotPresent
<1> DEFINE t == Set(s, f, v)
           n == SetNumber(s, TagField, TagBits(f.tag))
<1>1. f.section = "pointers"
  BY DEF CanSet, IsField
<1>2. t.words = s.words /\ t.bits = n.bits
  BY <1>1, AfterSet
<1>3. GetNumber(n, TagField) = TagBits(f.tag) /\ n.words = s.words
  BY NumberRead, TagIsField DEF CanSet
<1>4. GetNumber(t, TagField) = GetNumber(n, TagField)
  BY <1>2, <1>3, TagIsField DEF GetNumber, Fits
<1> QED BY <1>3, <1>4 DEF Get, IsPresent

(* No other getter notices.                                                *)
LEMMA SetKeepsOthers ==
  ASSUME NEW s, NEW f, NEW v, CanSet(s, f, v), NEW g, IsField(g),
         Disjoint(f, g), f.tag = NoTag \/ g.tag = NoTag,
         f.tag # NoTag => Disjoint(g, TagField),
         g.tag # NoTag => Disjoint(f, TagField)
  PROVE  Get(Set(s, f, v), g) = Get(s, g)
<1> DEFINE t == Set(s, f, v)
<1>1. /\ t.words = s.words /\ DOMAIN t.slots = DOMAIN s.slots
  BY AfterSet
<1>2. ASSUME NEW h, IsField(h), h.section = "data", Disjoint(f, h),
             f.tag # NoTag => Disjoint(h, TagField)
      PROVE  GetNumber(t, h) = GetNumber(s, h)
  <2>1. CASE f.section = "data"
    BY <1>2, <2>1, AfterSet, NumberKept DEF Disjoint, CanSet, Settable
  <2>2. CASE f.section = "pointers" /\ f.tag = NoTag
    <3>1. t.bits = s.bits
      BY <2>2, AfterSet
    <3> QED BY <1>1, <1>2, <3>1 DEF GetNumber, Fits
  <2>3. CASE f.section = "pointers" /\ f.tag # NoTag
    <3> DEFINE n == SetNumber(s, TagField, TagBits(f.tag))
    <3>1. t.bits = n.bits /\ n.words = s.words
      BY <2>3, AfterSet, NumberRead, TagIsField DEF CanSet
    <3>2. Span(TagField) \cap Span(h) = {}
      BY <1>2, <2>3, TagIsField DEF Disjoint
    <3>3. GetNumber(n, h) = GetNumber(s, h)
      BY <1>2, <3>2, NumberKept, TagIsField DEF CanSet
    <3>4. GetNumber(t, h) = GetNumber(n, h)
      BY <1>1, <1>2, <3>1 DEF GetNumber, Fits
    <3> QED BY <3>3, <3>4
  <2> QED BY <2>1, <2>2, <2>3 DEF CanSet, IsField
<1>3. IsPresent(t, g) <=> IsPresent(s, g)
  <2>1. CASE g.tag = NoTag
    BY <2>1 DEF IsPresent
  <2>2. CASE g.tag # NoTag
    <3>1. f.tag = NoTag /\ Disjoint(f, TagField)
      BY <2>2
    <3>2. GetNumber(t, TagField) = GetNumber(s, TagField)
      BY <1>2, <3>1, TagIsField
    <3> QED BY <3>2 DEF IsPresent
  <2> QED BY <2>1, <2>2
<1>4. CASE g.section = "data"
  <2>1. GetNumber(t, g) = GetNumber(s, g)
    BY <1>2, <1>4
  <2> QED BY <1>3, <1>4, <2>1 DEF Get
<1>5. CASE g.section = "pointers"
  <2>1. g.at \in DOMAIN s.slots => t.slots[g.at] = s.slots[g.at]
    <3>1. CASE f.section = "data"
      BY <3>1, AfterSet
    <3>2. CASE f.section = "pointers"
      <4>1. f.at # g.at
        BY <1>5, <3>2 DEF Disjoint, Span, IsField, CanSet
      <4> QED BY <3>2, <4>1, AfterSet
    <3> QED BY <3>1, <3>2 DEF CanSet, IsField
  <2>2. GetPointer(t, g) = GetPointer(s, g)
    BY <1>1, <1>5, <2>1 DEF GetPointer, Fits
  <2> QED BY <1>3, <1>5, <2>2 DEF Get
<1> QED BY <1>4, <1>5 DEF IsField

-----------------------------------------------------------------------------
(* What is needed besides ReadBack: the shape of the three variables.      *)
Shape ==
  /\ kind \in Kinds
  /\ IsStruct(msg)
  /\ meant = [f \in Fields |-> meant[f]]

IInv == Shape /\ ReadBack

(* The layout of one kind of struct, from the assumptions.                 *)
LEMMA LayoutFacts ==
  ASSUME kind \in Kinds, LayoutSound(kind), NEW f \in Fields
  PROVE  /\ IsField(GetterOf(f))
         /\ SetterOf(f) = GetterOf(f)
         /\ Fits(NewStruct(Builders[kind].words, Builders[kind].slots), GetterOf(f))
         /\ GetterOf(f).tag # NoTag =>
              /\ Fits(NewStruct(Builders[kind].words, 0), TagField)
              /\ Disjoint(GetterOf(f), TagField)
         /\ \A g \in Fields \ {f} :
              IF InUnion(f) /\ InUnion(g)
              THEN TagBits(GetterOf(f).tag) # TagBits(GetterOf(g).tag)
              ELSE /\ Disjoint(GetterOf(f), GetterOf(g))
                   /\ InUnion(g) => Disjoint(GetterOf(f), TagField)
BY RpcMessageAssumption DEF LayoutSound, GetterOf, SetterOf, Fields, InUnion

LEMMA InitReads ==
  ASSUME \A k \in Kinds : LayoutSound(k), Init
  PROVE  IInv
<1>1. kind \in Kinds
  BY DEF Init
<1>2. PICK w \in Int, p \in Int : msg = NewStruct(w, p) /\ w \in 0 .. Builders[kind].words + 1
  BY <1>1, RpcMessageAssumption DEF Init
<1>3. IsStruct(msg) /\ msg.bits = {}
  BY <1>1, <1>2, RpcMessageAssumption DEF NewStruct, IsStruct
<1>4. \A i \in DOMAIN msg.slots : msg.slots[i] = Null
  BY <1>2 DEF NewStruct
<1>5. meant = [f \in Fields |-> meant[f]]
  BY DEF Init
<1>6. ASSUME NEW f \in Fields PROVE Get(msg, GetterOf(f)) = meant[f]
  <2> DEFINE g == GetterOf(f)
  <2>1. IsField(g)
    BY <1>1, LayoutFacts
  <2>2. meant[f] = IF g.tag = NoTag \/ TagBits(g.tag) = {} THEN Default(g) ELSE NotPresent
    BY DEF Init
  <2>3. GetNumber(msg, TagField) = {} /\ GetNumber(msg, g) = {}
    BY <1>3 DEF GetNumber
  <2>4. IsPresent(msg, g) <=> g.tag = NoTag \/ TagBits(g.tag) = {}
    BY <2>3 DEF IsPresent
  <2>5. g.section = "pointers" => GetPointer(msg, g) = Null
    BY <1>4 DEF GetPointer, Fits, Null, Pointee
  <2> QED BY <2>1, <2>2, <2>3, <2>4, <2>5 DEF Get, Default, IsField
<1> QED BY <1>1, <1>3, <1>5, <1>6 DEF IInv, Shape, ReadBack

(* A setter of field f, whatever it is given.                              *)
LEMMA SetterReads ==
  ASSUME IInv, LayoutSound(kind), NEW f \in Fields, NEW v,
         CanSet(msg, GetterOf(f), v),
         msg' = Set(msg, SetterOf(f), v), meant' = MeantSet(f, v), kind' = kind
  PROVE  IInv'
<1>1. kind \in Kinds /\ SetterOf(f) = GetterOf(f) /\ IsField(GetterOf(f))
  BY LayoutFacts DEF IInv, Shape
<1>2. IsStruct(msg')
  BY <1>1, AfterSet
<1>3. Fields' = Fields /\ \A g : (GetterOf(g))' = GetterOf(g)
  BY DEF Fields, GetterOf
<1>4. meant' = [g \in Fields |-> meant'[g]]
  BY DEF MeantSet
<1>5. ASSUME NEW g \in Fields PROVE Get(msg', GetterOf(g)) = meant'[g]
  <2>1. IsField(GetterOf(g))
    BY <1>1, LayoutFacts
  <2>2. CASE g = f
    <3>1. meant'[g] = v
      BY <2>2 DEF MeantSet
    <3> QED BY <1>1, <2>2, <3>1, SetThenGet
  <2>3. CASE g # f /\ InUnion(f) /\ InUnion(g)
    <3>1. meant'[g] = NotPresent
      BY <2>3 DEF MeantSet, Excludes
    <3>2. TagBits(GetterOf(f).tag) # TagBits(GetterOf(g).tag)
      BY <1>1, <2>3, LayoutFacts
    <3>3. Get(Set(msg, GetterOf(f), v), GetterOf(g)) = NotPresent
      BY <2>1, <2>3, <3>2, SetTakesAway DEF InUnion
    <3> QED BY <1>1, <3>1, <3>3
  <2>4. CASE g # f /\ ~(InUnion(f) /\ InUnion(g))
    <3>1. meant'[g] = meant[g]
      BY <2>4 DEF MeantSet, Excludes
    <3>2. /\ Disjoint(GetterOf(f), GetterOf(g))
          /\ InUnion(g) => Disjoint(GetterOf(f), TagField)
      BY <1>1, <2>4, LayoutFacts
    <3>3. InUnion(f) => Disjoint(GetterOf(g), TagField)
      BY <1>1, <2>4, LayoutFacts
    <3>4. Get(Set(msg, GetterOf(f), v), GetterOf(g)) = Get(msg, GetterOf(g))
      BY <2>1, <2>4, <3>2, <3>3, SetKeepsOthers DEF InUnion
    <3> QED BY <1>1, <3>1, <3>4 DEF IInv, ReadBack
  <2> QED BY <2>2, <2>3, <2>4
<1>6. ReadBack'
  BY <1>3, <1>5 DEF ReadBack
<1> QED BY <1>1, <1>2, <1>3, <1>4, <1>6 DEF IInv, Shape

(* A peer with a newer schema writes only behind all known fields.         *)
LEMMA UnknownReads ==
  ASSUME IInv, LayoutSound(kind), SetUnknown
  PROVE  IInv'
<1>1. kind \in Kinds /\ kind' = kind /\ meant' = meant /\ IsStruct(msg)
  BY DEF SetUnknown, IInv, Shape
<1>2. Fields' = Fields /\ \A g : (GetterOf(g))' = GetterOf(g)
  BY <1>1 DEF Fields, GetterOf
<1> DEFINE words == Builders[kind].words
           slots == Builders[kind].slots
<1>3. words \in Nat /\ slots \in Nat
  BY <1>1, RpcMessageAssumption
<1>4. CASE /\ msg.words > words
           /\ msg' = SetNumber(msg, U64(words), 0 .. 63)
  <2> DEFINE u == U64(words)
  <2>1. IsField(u) /\ u.section = "data" /\ u.at = 64 * words /\ u.width = 64
    BY <1>3 DEF U64, Field, IsField, NoTag, PointerTypes
  <2>2. Fits(msg, u)
    BY <1>1, <1>3, <1>4, <2>1 DEF Fits, IsStruct
  <2>3. IsStruct(msg') /\ msg'.words = msg.words /\ msg'.slots = msg.slots
    BY <1>1, <1>4, <2>1, <2>2, NumberRead
  <2>4. ASSUME NEW h, IsField(h), h.at + h.width <= 64 * words
        PROVE  GetNumber(msg', h) = GetNumber(msg, h)
    <3>1. Span(u) \cap Span(h) = {}
      BY <1>3, <2>1, <2>4 DEF Span, IsField
    <3> QED BY <1>1, <1>4, <2>1, <2>4, <3>1, NumberKept
  <2>5. ASSUME NEW f \in Fields PROVE Get(msg', GetterOf(f)) = Get(msg, GetterOf(f))
    <3> DEFINE g == GetterOf(f)
    <3>1. IsField(g) /\ Fits(NewStruct(words, slots), g)
          /\ (g.tag # NoTag => Fits(NewStruct(words, 0), TagField))
      BY <1>1, LayoutFacts
    <3>2. g.section = "data" => GetNumber(msg', g) = GetNumber(msg, g)
      BY <2>4, <3>1 DEF Fits, NewStruct
    <3>3. g.tag # NoTag => GetNumber(msg', TagField) = GetNumber(msg, TagField)
      BY <2>4, <3>1, TagIsField DEF Fits, NewStruct
    <3>4. g.section = "pointers" => GetPointer(msg', g) = GetPointer(msg, g)
      BY <2>3 DEF GetPointer, Fits
    <3> QED BY <3>1, <3>2, <3>3, <3>4 DEF Get, IsPresent, IsField
  <2> QED BY <1>1, <1>2, <2>3, <2>5 DEF IInv, Shape, ReadBack
<1>5. ASSUME slots \in DOMAIN msg.slots, NEW c \in Contents,
             msg' = SetPointer(msg, Struct(slots), Pointee("struct", c))
      PROVE  IInv'
  <2> DEFINE u == Struct(slots)
  <2>1. IsField(u) /\ u.section = "pointers" /\ u.at = slots
    BY <1>3 DEF Struct, Field, IsField, NoTag, PointerTypes
  <2>2. Fits(msg, u)
    BY <1>5, <2>1 DEF Fits
  <2>3. /\ IsStruct(msg') /\ msg'.words = msg.words /\ msg'.bits = msg.bits
        /\ DOMAIN msg'.slots = DOMAIN msg.slots
        /\ \A i \in DOMAIN msg.slots \ {slots} : msg'.slots[i] = msg.slots[i]
    BY <1>1, <1>5, <2>1, <2>2, PointerRead
  <2>4. \A h : h.section = "data" => GetNumber(msg', h) = GetNumber(msg, h)
    BY <2>3 DEF GetNumber, Fits
  <2>5. ASSUME NEW f \in Fields PROVE Get(msg', GetterOf(f)) = Get(msg, GetterOf(f))
    <3> DEFINE g == GetterOf(f)
    <3>1. IsField(g) /\ Fits(NewStruct(words, slots), g)
      BY <1>1, LayoutFacts
    <3>2. g.section = "pointers" => g.at \in 0 .. slots - 1
      BY <3>1 DEF Fits, NewStruct
    <3>3. g.section = "pointers" => GetPointer(msg', g) = GetPointer(msg, g)
      BY <1>3, <2>3, <3>2 DEF GetPointer, Fits
    <3>4. IsPresent(msg', g) <=> IsPresent(msg, g)
      BY <2>4, TagIsField DEF IsPresent
    <3> QED BY <2>4, <3>1, <3>3, <3>4 DEF Get, IsField
  <2> QED BY <1>1, <1>2, <2>3, <2>5 DEF IInv, Shape, ReadBack
<1> QED BY <1>4, <1>5 DEF SetUnknown

LEMMA NextReads ==
  ASSUME IInv, \A k \in Kinds : LayoutSound(k), [Next]_vars
  PROVE  IInv'
<1>1. kind \in Kinds /\ LayoutSound(kind) /\ IsStruct(msg)
  BY DEF IInv, Shape
<1>2. ASSUME NEW f \in Fields, NEW v \in Values(SetterOf(f)), SetField(f, v)
      PROVE  IInv'
  <2> DEFINE g == GetterOf(f)
  <2>1. IsField(g) /\ SetterOf(f) = g
    BY <1>1, LayoutFacts
  <2>2. Settable(g, v)
    <3>1. CASE g.section = "data"
      <4>1. PICK n \in Numbers : v = Pointee("number", n \cap (0 .. g.width - 1))
        BY <1>2, <2>1, <3>1 DEF Values
      <4> QED BY <3>1, <4>1 DEF Settable, Pointee
    <3>2. CASE g.section = "pointers"
      <4>1. PICK c \in Contents : v = Pointee(g.type, c)
        BY <1>2, <2>1, <3>2 DEF Values
      <4> QED BY <3>2, <4>1 DEF Settable, Pointee
    <3> QED BY <2>1, <3>1, <3>2 DEF IsField
  <2>3. CanSet(msg, g, v)
    BY <1>1, <1>2, <2>1, <2>2 DEF CanSet, SetField, InUnion
  <2> QED BY <1>1, <1>2, <2>3, SetterReads DEF SetField
<1>3. ASSUME NEW f \in Fields, InitGroup(f)
      PROVE  IInv'
  <2> DEFINE g == GetterOf(f)
  <2>1. IsField(g) /\ SetterOf(f) = g
    BY <1>1, LayoutFacts
  <2>2. g.section = "pointers"
    BY <1>3, <2>1 DEF InitGroup, IsField, NoTag
  <2>3. CanSet(msg, g, Null)
    BY <1>1, <1>3, <2>1, <2>2 DEF CanSet, InitGroup, Settable, Null, Pointee
  <2> QED BY <1>1, <1>3, <2>3, SetterReads DEF InitGroup
<1>4. CASE SetUnknown
  BY <1>1, <1>4, UnknownReads
<1>5. CASE \E i, s \in DOMAIN Interfaces :
             \E m \in DOMAIN Interfaces[i].requests : Send(i, m, s)
  BY <1>5 DEF Send, IInv, Shape, ReadBack, Fields, GetterOf
<1>6. CASE UNCHANGED vars
  BY <1>6 DEF vars, IInv, Shape, ReadBack, Fields, GetterOf
<1> QED BY <1>2, <1>3, <1>4, <1>5, <1>6 DEF Next

(* Sound layouts make every getter return what its setter was last given,  *)
(* whatever the order of the setters, their number and the schemas of the  *)
(* peers (the accessors of tunnelrpc_capnp.rs).                            *)
THEOREM FieldsReadBack ==
  ASSUME \A k \in Kinds : LayoutSound(k)
  PROVE  Spec => []ReadBack
<1>1. Init => IInv
  BY InitReads
<1>2. IInv /\ [Next]_vars => IInv'
  BY NextReads
<1>3. IInv => ReadBack
  BY DEF IInv
<1> QED BY <1>1, <1>2, <1>3, PTL DEF Spec
-----------------------------------------------------------------------------
(* The layouts of the schema.                                              *)

(* Fields of which one begins behind the end of the other share nothing.   *)
Apart(f, g) ==
  \/ f.section # g.section
  \/ f.at + f.width <= g.at
  \/ g.at + g.width <= f.at

(* A struct without a union: its fields lie inside it, in one word each,   *)
(* and apart from each other.                                              *)
PlainLayout(b) ==
  /\ b.words \in Nat /\ b.slots \in Nat
  /\ \A n \in DOMAIN b.fields :
       /\ b.fields[n].tag = NoTag
       /\ b.fields[n].at \in Nat /\ b.fields[n].width \in Nat
       /\ b.fields[n].section = "data" =>
            /\ b.fields[n].at + b.fields[n].width <= 64 * b.words
            /\ b.fields[n].at \div 64 = (b.fields[n].at + b.fields[n].width - 1) \div 64
       /\ b.fields[n].section # "data" => b.fields[n].at < b.slots
       /\ \A m \in DOMAIN b.fields : m # n => Apart(b.fields[n], b.fields[m])

LEMMA ApartDisjoint ==
  ASSUME NEW f, NEW g, f.at \in Nat, f.width \in Nat, g.at \in Nat, g.width \in Nat,
         Apart(f, g)
  PROVE  Disjoint(f, g)
BY DEF Apart, Disjoint, Span

LEMMA PlainSound ==
  ASSUME NEW k \in Kinds, Builders[k].fields = Readers[k], PlainLayout(Builders[k])
  PROVE  LayoutSound(k)
<1> DEFINE b == Builders[k]
<1>1. ASSUME NEW n \in DOMAIN b.fields, NEW m \in DOMAIN b.fields, m # n
      PROVE  Disjoint(b.fields[n], b.fields[m])
  BY <1>1, ApartDisjoint DEF PlainLayout
<1>2. ASSUME NEW n \in DOMAIN b.fields
      PROVE  Fits(NewStruct(b.words, b.slots), b.fields[n])
  BY <1>2 DEF PlainLayout, Fits, NewStruct
<1> QED BY <1>1, <1>2 DEF PlainLayout, LayoutSound

(* The structs of TunnelServer.                                            *)
LEMMA LegacyLayouts ==
  /\ PlainLayout(AuthenticationBuilder)
  /\ PlainLayout(TunnelRegistrationBuilder)
  /\ PlainLayout(RegistrationOptionsBuilder)
  /\ PlainLayout(ServerInfoBuilder)
  /\ PlainLayout(AuthenticateResponseBuilder)
  /\ PlainLayout(RegisterTunnelParamsBuilder)
  /\ PlainLayout(RegisterTunnelResultsBuilder)
  /\ PlainLayout(GetServerInfoResultsBuilder)
  /\ PlainLayout(UnregisterTunnelParamsBuilder)
  /\ PlainLayout(AuthenticateParamsBuilder)
  /\ PlainLayout(AuthenticateResultsBuilder)
  /\ PlainLayout(ReconnectTunnelParamsBuilder)
  /\ PlainLayout(ReconnectTunnelResultsBuilder)
  /\ PlainLayout(TagBuilder)
<1> USE DEF PlainLayout, Builder, Apart, Field, NoTag, Bool, U8, U16, I32, U64, I64,
            Text, Bytes, List, Struct, NoFields
<1>1. PlainLayout(AuthenticationBuilder)
  BY DEF AuthenticationBuilder
<1>2. PlainLayout(TunnelRegistrationBuilder)
  BY DEF TunnelRegistrationBuilder
<1>3. PlainLayout(RegistrationOptionsBuilder)
  BY DEF RegistrationOptionsBuilder
<1>4. PlainLayout(ServerInfoBuilder)
  BY DEF ServerInfoBuilder
<1>5. PlainLayout(AuthenticateResponseBuilder)
  BY DEF AuthenticateResponseBuilder
<1>6. PlainLayout(RegisterTunnelParamsBuilder)
  BY DEF RegisterTunnelParamsBuilder
<1>7. PlainLayout(RegisterTunnelResultsBuilder)
  BY DEF RegisterTunnelResultsBuilder
<1>8. PlainLayout(GetServerInfoResultsBuilder)
  BY DEF GetServerInfoResultsBuilder
<1>9. PlainLayout(UnregisterTunnelParamsBuilder)
  BY DEF UnregisterTunnelParamsBuilder
<1>10. PlainLayout(AuthenticateParamsBuilder)
  BY DEF AuthenticateParamsBuilder
<1>11. PlainLayout(AuthenticateResultsBuilder)
  BY DEF AuthenticateResultsBuilder
<1>12. PlainLayout(ReconnectTunnelParamsBuilder)
  BY DEF ReconnectTunnelParamsBuilder
<1>13. PlainLayout(ReconnectTunnelResultsBuilder)
  BY DEF ReconnectTunnelResultsBuilder
<1>14. PlainLayout(TagBuilder)
  BY DEF TagBuilder
<1> QED
  BY <1>1, <1>2, <1>3, <1>4, <1>5, <1>6, <1>7, <1>8, <1>9, <1>10, <1>11,
     <1>12, <1>13, <1>14

(* The structs of RegistrationServer, but for the union.                   *)
LEMMA RegistrationLayouts ==
  /\ PlainLayout(ClientInfoBuilder)
  /\ PlainLayout(ConnectionOptionsBuilder)
  /\ PlainLayout(ConnectionErrorBuilder)
  /\ PlainLayout(ConnectionDetailsBuilder)
  /\ PlainLayout(TunnelAuthBuilder)
  /\ PlainLayout(RegisterConnectionParamsBuilder)
  /\ PlainLayout(RegisterConnectionResultsBuilder)
  /\ PlainLayout(UpdateLocalConfigurationParamsBuilder)
<1> USE DEF PlainLayout, Builder, Apart, Field, NoTag, Bool, U8, U16, I32, U64, I64,
            Text, Bytes, List, Struct, NoFields
<1>1. PlainLayout(ClientInfoBuilder)
  BY DEF ClientInfoBuilder
<1>2. PlainLayout(ConnectionOptionsBuilder)
  BY DEF ConnectionOptionsBuilder
<1>3. PlainLayout(ConnectionErrorBuilder)
  <2> DEFINE b == ConnectionErrorBuilder
  <2>1. /\ b.words = 2 /\ b.slots = 1
        /\ DOMAIN b.fields = {"cause", "retry_after", "should_retry"}
        /\ b.fields["cause"] = Text(0)
        /\ b.fields["retry_after"] = I64(0)
        /\ b.fields["should_retry"] = Bool(64)
    BY DEF ConnectionErrorBuilder
  <2>2. /\ 64 \div 64 = (64 + 1 - 1) \div 64
        /\ 0 \div 64 = (0 + 64 - 1) \div 64
    OBVIOUS
  <2> HIDE DEF b
  <2> QED BY <2>1, <2>2 DEF b
<1>4. PlainLayout(ConnectionDetailsBuilder)
  BY DEF ConnectionDetailsBuilder
<1>5. PlainLayout(TunnelAuthBuilder)
  BY DEF TunnelAuthBuilder
<1>6. PlainLayout(RegisterConnectionParamsBuilder)
  BY DEF RegisterConnectionParamsBuilder
<1>7. PlainLayout(RegisterConnectionResultsBuilder)
  BY DEF RegisterConnectionResultsBuilder
<1>8. PlainLayout(UpdateLocalConfigurationParamsBuilder)
  BY DEF UpdateLocalConfigurationParamsBuilder
<1> QED
  BY <1>1, <1>2, <1>3, <1>4, <1>5, <1>6, <1>7, <1>8

(* The structs of SessionManager and ConfigurationManager, and empty ones. *)
LEMMA SessionLayouts ==
  /\ PlainLayout(RegisterUdpSessionResponseBuilder)
  /\ PlainLayout(RegisterUdpSessionParamsBuilder)
  /\ PlainLayout(RegisterUdpSessionResultsBuilder)
  /\ PlainLayout(UnregisterUdpSessionParamsBuilder)
  /\ PlainLayout(UpdateConfigurationResponseBuilder)
  /\ PlainLayout(UpdateConfigurationParamsBuilder)
  /\ PlainLayout(UpdateConfigurationResultsBuilder)
  /\ PlainLayout(NoFieldsBuilder)
<1> USE DEF PlainLayout, Builder, Apart, Field, NoTag, Bool, U8, U16, I32, U64, I64,
            Text, Bytes, List, Struct, NoFields
<1>1. PlainLayout(RegisterUdpSessionResponseBuilder)
  BY DEF RegisterUdpSessionResponseBuilder
<1>2. PlainLayout(RegisterUdpSessionParamsBuilder)
  BY DEF RegisterUdpSessionParamsBuilder
<1>3. PlainLayout(RegisterUdpSessionResultsBuilder)
  BY DEF RegisterUdpSessionResultsBuilder
<1>4. PlainLayout(UnregisterUdpSessionParamsBuilder)
  BY DEF UnregisterUdpSessionParamsBuilder
<1>5. PlainLayout(UpdateConfigurationResponseBuilder)
  BY DEF UpdateConfigurationResponseBuilder
<1>6. PlainLayout(UpdateConfigurationParamsBuilder)
  BY DEF UpdateConfigurationParamsBuilder
<1>7. PlainLayout(UpdateConfigurationResultsBuilder)
  BY DEF UpdateConfigurationResultsBuilder
<1>8. PlainLayout(NoFieldsBuilder)
  BY DEF NoFieldsBuilder
<1> QED
  BY <1>1, <1>2, <1>3, <1>4, <1>5, <1>6, <1>7, <1>8

(* Getters and setters of every kind find its fields at the same places.   *)
LEMMA SchemaAgrees ==
  /\ DOMAIN SchemaReaders = DOMAIN SchemaBuilders
  /\ \A k \in DOMAIN SchemaBuilders : SchemaBuilders[k].fields = SchemaReaders[k]
<1>1. DOMAIN SchemaReaders = DOMAIN SchemaBuilders
  BY DEF SchemaReaders, SchemaBuilders
<1>2. /\ AuthenticationBuilder.fields = AuthenticationReader
      /\ TunnelRegistrationBuilder.fields = TunnelRegistrationReader
      /\ RegistrationOptionsBuilder.fields = RegistrationOptionsReader
      /\ ServerInfoBuilder.fields = ServerInfoReader
      /\ AuthenticateResponseBuilder.fields = AuthenticateResponseReader
      /\ RegisterTunnelParamsBuilder.fields = RegisterTunnelParamsReader
      /\ RegisterTunnelResultsBuilder.fields = RegisterTunnelResultsReader
      /\ GetServerInfoResultsBuilder.fields = GetServerInfoResultsReader
      /\ UnregisterTunnelParamsBuilder.fields = UnregisterTunnelParamsReader
      /\ AuthenticateParamsBuilder.fields = AuthenticateParamsReader
      /\ AuthenticateResultsBuilder.fields = AuthenticateResultsReader
      /\ ReconnectTunnelParamsBuilder.fields = ReconnectTunnelParamsReader
      /\ ReconnectTunnelResultsBuilder.fields = ReconnectTunnelResultsReader
      /\ TagBuilder.fields = TagReader
      /\ ClientInfoBuilder.fields = ClientInfoReader
      /\ ConnectionOptionsBuilder.fields = ConnectionOptionsReader
      /\ ConnectionResponseBuilder.fields = ConnectionResponseReader
      /\ ConnectionErrorBuilder.fields = ConnectionErrorReader
      /\ ConnectionDetailsBuilder.fields = ConnectionDetailsReader
      /\ TunnelAuthBuilder.fields = TunnelAuthReader
      /\ RegisterConnectionParamsBuilder.fields = RegisterConnectionParamsReader
      /\ RegisterConnectionResultsBuilder.fields = RegisterConnectionResultsReader
      /\ UpdateLocalConfigurationParamsBuilder.fields = UpdateLocalConfigurationParamsReader
      /\ RegisterUdpSessionResponseBuilder.fields = RegisterUdpSessionResponseReader
      /\ RegisterUdpSessionParamsBuilder.fields = RegisterUdpSessionParamsReader
      /\ RegisterUdpSessionResultsBuilder.fields = RegisterUdpSessionResultsReader
      /\ UnregisterUdpSessionParamsBuilder.fields = UnregisterUdpSessionParamsReader
      /\ UpdateConfigurationResponseBuilder.fields = UpdateConfigurationResponseReader
      /\ UpdateConfigurationParamsBuilder.fields = UpdateConfigurationParamsReader
      /\ UpdateConfigurationResultsBuilder.fields = UpdateConfigurationResultsReader
      /\ NoFieldsBuilder.fields = NoFields
  BY DEF Builder,
         AuthenticateParamsBuilder, AuthenticateParamsReader,
         AuthenticateResponseBuilder, AuthenticateResponseReader,
         AuthenticateResultsBuilder, AuthenticateResultsReader,
         AuthenticationBuilder, AuthenticationReader, ClientInfoBuilder,
         ClientInfoReader, ConnectionDetailsBuilder, ConnectionDetailsReader,
         ConnectionErrorBuilder, ConnectionErrorReader,
         ConnectionOptionsBuilder, ConnectionOptionsReader,
         ConnectionResponseBuilder, ConnectionResponseReader,
         GetServerInfoResultsBuilder, GetServerInfoResultsReader, NoFields,
         NoFieldsBuilder, ReconnectTunnelParamsBuilder,
         ReconnectTunnelParamsReader, ReconnectTunnelResultsBuilder,
         ReconnectTunnelResultsReader, RegisterConnectionParamsBuilder,
         RegisterConnectionParamsReader, RegisterConnectionResultsBuilder,
         RegisterConnectionResultsReader, RegisterTunnelParamsBuilder,
         RegisterTunnelParamsReader, RegisterTunnelResultsBuilder,
         RegisterTunnelResultsReader, RegisterUdpSessionParamsBuilder,
         RegisterUdpSessionParamsReader, RegisterUdpSessionResponseBuilder,
         RegisterUdpSessionResponseReader, RegisterUdpSessionResultsBuilder,
         RegisterUdpSessionResultsReader, RegistrationOptionsBuilder,
         RegistrationOptionsReader, ServerInfoBuilder, ServerInfoReader,
         TagBuilder, TagReader, TunnelAuthBuilder, TunnelAuthReader,
         TunnelRegistrationBuilder, TunnelRegistrationReader,
         UnregisterTunnelParamsBuilder, UnregisterTunnelParamsReader,
         UnregisterUdpSessionParamsBuilder, UnregisterUdpSessionParamsReader,
         UpdateConfigurationParamsBuilder, UpdateConfigurationParamsReader,
         UpdateConfigurationResponseBuilder,
         UpdateConfigurationResponseReader, UpdateConfigurationResultsBuilder,
         UpdateConfigurationResultsReader,
         UpdateLocalConfigurationParamsBuilder,
         UpdateLocalConfigurationParamsReader
<1> QED BY <1>1, <1>2 DEF SchemaReaders, SchemaBuilders

(* Every kind but connection_response is without a union.                  *)
LEMMA SchemaPlain ==
  \A k \in DOMAIN SchemaBuilders \ {"connection_response"} :
    PlainLayout(SchemaBuilders[k])
BY LegacyLayouts, RegistrationLayouts, SessionLayouts DEF SchemaBuilders

(* The two members of result share a slot, and their tags differ.          *)
LEMMA UnionSound ==
  ASSUME NEW k \in Kinds, Builders[k] = ConnectionResponseBuilder,
         Readers[k] = ConnectionResponseReader
  PROVE  LayoutSound(k)
<1> DEFINE b == ConnectionResponseBuilder
<1>1. /\ b.words = 1 /\ b.slots = 1
      /\ DOMAIN b.fields = {"error", "connection_details"}
      /\ b.fields["error"] = Member(0, Struct(0))
      /\ b.fields["connection_details"] = Member(1, Struct(0))
      /\ b.fields = ConnectionResponseReader
  BY DEF ConnectionResponseBuilder, ConnectionResponseReader, Builder
<1>2. \A t \in {0, 1} :
        LET f == Member(t, Struct(0))
        IN  f.section = "pointers" /\ f.at = 0 /\ f.tag = t
  BY DEF Member, Struct, Field
<1>3. TagBits(0) # TagBits(1)
  <2>1. 2^0 = 1
    OBVIOUS
  <2>2. 0 \in TagBits(1) /\ 0 \notin TagBits(0)
    BY <2>1 DEF TagBits
  <2> QED BY <2>2
<1>4. TagField.section = "data" /\ TagField.at = 0 /\ TagField.width = 16
  BY DEF TagField, U16, Field
<1>5. /\ Fits(NewStruct(1, 0), TagField)
      /\ \A t \in {0, 1} : Fits(NewStruct(1, 1), Member(t, Struct(0)))
      /\ \A t \in {0, 1} : Disjoint(Member(t, Struct(0)), TagField)
  BY <1>2, <1>4 DEF Fits, NewStruct, Disjoint
<1> HIDE DEF b
<1>6. \A n \in DOMAIN b.fields :
        /\ Fits(NewStruct(b.words, b.slots), b.fields[n])
        /\ b.fields[n].section = "pointers" /\ b.fields[n].tag # NoTag
        /\ Fits(NewStruct(b.words, 0), TagField)
        /\ Disjoint(b.fields[n], TagField)
        /\ \A m \in DOMAIN b.fields \ {n} :
             b.fields[m].tag # NoTag /\ TagBits(b.fields[n].tag) # TagBits(b.fields[m].tag)
  BY <1>1, <1>2, <1>3, <1>5 DEF NoTag
<1> QED BY <1>1, <1>6 DEF LayoutSound, b

(* Every layout of the schema is sound.                                    *)
LEMMA SchemaSound ==
  ASSUME Readers = SchemaReaders, Builders = SchemaBuilders
  PROVE  \A k \in Kinds : LayoutSound(k)
<1> SUFFICES ASSUME NEW k \in Kinds PROVE LayoutSound(k)
  OBVIOUS
<1>1. k \in DOMAIN SchemaBuilders
  BY DEF Kinds
<1>2. CASE k = "connection_response"
  <2>1. /\ SchemaBuilders["connection_response"] = ConnectionResponseBuilder
        /\ SchemaReaders["connection_response"] = ConnectionResponseReader
    BY DEF SchemaBuilders, SchemaReaders
  <2> QED BY <1>2, <2>1, UnionSound
<1>3. CASE k # "connection_response"
  BY <1>1, <1>3, SchemaAgrees, SchemaPlain, PlainSound
<1> QED BY <1>2, <1>3

(* In the schema of tunnelrpc_capnp.rs every getter looks where its setter *)
(* writes, inside the struct that init allocates and where no other field  *)
(* is, for every kind of struct (STRUCT_SIZE and all accessors).           *)
THEOREM SchemaLayoutsSound ==
  ASSUME Readers = SchemaReaders, Builders = SchemaBuilders
  PROVE  Spec => []LayoutsSound
<1>1. \A k \in Kinds : LayoutSound(k)
  BY SchemaSound
<1>2. Init => kind \in Kinds
  BY DEF Init
<1>3. kind \in Kinds /\ [Next]_vars => (kind \in Kinds)'
  BY DEF Next, SetField, InitGroup, SetUnknown, Send, vars
<1>4. kind \in Kinds => LayoutsSound
  BY <1>1 DEF LayoutsSound
<1> QED BY <1>2, <1>3, <1>4, PTL DEF Spec

(* In the schema of tunnelrpc_capnp.rs every field reads back as it was    *)
(* last set, in any order of any number of setters (all accessors).        *)
THEOREM SchemaReadsBack ==
  ASSUME Readers = SchemaReaders, Builders = SchemaBuilders
  PROVE  Spec => []ReadBack
BY SchemaSound, FieldsReadBack

-----------------------------------------------------------------------------
(* Calls.                                                                  *)

(* An interface id belongs to one interface, a server takes the ids of the *)
(* interfaces it implements and no other, and the number of a call is the  *)
(* place of its method in the dispatch.                                    *)
InterfacesSound ==
  \A i \in DOMAIN Interfaces :
    /\ \A j \in DOMAIN Interfaces : Interfaces[j].id = Interfaces[i].id => j = i
    /\ \A s \in DOMAIN Interfaces :
         Interfaces[i].id \in Interfaces[s].takes <=> Implements(s, i)
    /\ \A m \in DOMAIN Interfaces[i].requests :
         LET r == Interfaces[i].requests[m]
         IN  /\ r.number \in 0 .. Len(Interfaces[i].methods) - 1
             /\ Interfaces[i].methods[r.number + 1] = [name |-> m, params |-> r.params]

LEMMA DispatchFinds ==
  ASSUME InterfacesSound, NEW i \in DOMAIN Interfaces, NEW s \in DOMAIN Interfaces,
         NEW m \in DOMAIN Interfaces[i].requests
  PROVE  LET r == Interfaces[i].requests[m]
         IN  Dispatch(s, Interfaces[i].id, r.number) =
               IF Implements(s, i) THEN [name |-> m, params |-> r.params]
               ELSE Unimplemented
<1> DEFINE r == Interfaces[i].requests[m]
<1>1. (CHOOSE j \in DOMAIN Interfaces : Interfaces[j].id = Interfaces[i].id) = i
  BY DEF InterfacesSound
<1>2. /\ Interfaces[i].id \in Interfaces[s].takes <=> Implements(s, i)
      /\ r.number < Len(Interfaces[i].methods)
      /\ Interfaces[i].methods[r.number + 1] = [name |-> m, params |-> r.params]
  BY DEF InterfacesSound
<1> QED BY <1>1, <1>2 DEF Dispatch

(* With tables of methods that agree (InterfacesSound) a call reaches the  *)
(* method of the same name with the struct that the caller filled in, or   *)
(* is refused by a server of another interface, for any interfaces and     *)
(* methods (Client, trait Server and ServerDispatch).                      *)
THEOREM CallsReach ==
  ASSUME InterfacesSound
  PROVE  Spec => []CallReachesMethod
<1>1. Init => CallReachesMethod
  BY DEF Init, CallReachesMethod
<1>2. ASSUME CallReachesMethod, [Next]_vars PROVE CallReachesMethod'
  <2>1. CASE call' = call /\ kind' = kind
    BY <1>2, <2>1 DEF CallReachesMethod
  <2>2. ASSUME NEW i \in DOMAIN Interfaces, NEW s \in DOMAIN Interfaces,
               NEW m \in DOMAIN Interfaces[i].requests, Send(i, m, s)
        PROVE  CallReachesMethod'
    <3>1. /\ call'.interface = i /\ call'.method = m /\ call'.server = s
          /\ call'.handler = Dispatch(s, Interfaces[i].id, Interfaces[i].requests[m].number)
          /\ Interfaces[i].requests[m].params = kind /\ kind' = kind
      BY <2>2 DEF Send
    <3> QED BY <3>1, DispatchFinds DEF CallReachesMethod
  <2> QED
    BY <1>2, <2>1, <2>2 DEF Next, SetField, InitGroup, SetUnknown, vars
<1> QED BY <1>1, <1>2, PTL DEF Spec

LEMMA SchemaInterfacesSound ==
  ASSUME Interfaces = SchemaInterfaces
  PROVE  InterfacesSound
<1> USE DEF TunnelServer, RegistrationServer, SessionManager, ConfigurationManager,
            CloudflaredServer, Request, Method
<1> DEFINE I == SchemaInterfaces
<1>1. DOMAIN I = {"tunnel_server", "registration_server", "session_manager",
                  "configuration_manager", "cloudflared_server"}
  BY DEF SchemaInterfaces
<1>2. /\ I["tunnel_server"] = TunnelServer
      /\ I["registration_server"] = RegistrationServer
      /\ I["session_manager"] = SessionManager
      /\ I["configuration_manager"] = ConfigurationManager
      /\ I["cloudflared_server"] = CloudflaredServer
  BY DEF SchemaInterfaces
<1> HIDE DEF I
<1>3. \A i, j \in DOMAIN I : I[j].id = I[i].id => j = i
  BY <1>1, <1>2
<1>4. \A i, s \in DOMAIN I :
        I[i].id \in I[s].takes <=> s = i \/ i \in I[s].extends
  BY <1>1, <1>2
<1>5. \A i \in DOMAIN I : \A m \in DOMAIN I[i].requests :
        LET r == I[i].requests[m]
        IN  /\ r.number \in 0 .. Len(I[i].methods) - 1
            /\ I[i].methods[r.number + 1] = [name |-> m, params |-> r.params]
  <2> DEFINE Found(x) == \A m \in DOMAIN x.requests :
               LET r == x.requests[m]
               IN  /\ r.number \in 0 .. Len(x.methods) - 1
                   /\ x.methods[r.number + 1] = [name |-> m, params |-> r.params]
  <2>1. Found(TunnelServer)
    OBVIOUS
  <2>2. Found(RegistrationServer)
    OBVIOUS
  <2>3. Found(SessionManager)
    OBVIOUS
  <2>4. Found(ConfigurationManager)
    OBVIOUS
  <2>5. Found(CloudflaredServer)
    OBVIOUS
  <2> HIDE DEF Found
  <2>6. \A i \in DOMAIN I : Found(I[i])
    BY <1>1, <1>2, <2>1, <2>2, <2>3, <2>4, <2>5
  <2> QED BY <2>6 DEF Found
<1> QED BY <1>3, <1>4, <1>5 DEF InterfacesSound, Implements, I

(* A call of any method of any interface of tunnelrpc_capnp.rs reaches the *)
(* method of the same name with the struct that the caller filled in, if   *)
(* the server implements the interface, and is refused as unimplemented if *)
(* it does not (Client, trait Server and ServerDispatch).                  *)
THEOREM SchemaCallsReach ==
  ASSUME Interfaces = SchemaInterfaces
  PROVE  Spec => []CallReachesMethod
BY SchemaInterfacesSound, CallsReach
=============================================================================
