----------------------------- MODULE RpcMessage -----------------------------
(***************************************************************************)
(* One struct of the RPC protocol, from the first setter that is called on *)
(* it to the server that reads it: any setters in any order, by a peer     *)
(* whose schema may be older (its structs are shorter) or newer (they are  *)
(* longer, with fields this schema does not know), and then, if the struct *)
(* holds the parameters of a method, the call that takes it to a server.   *)
(* The layouts and interfaces are those of TunnelRpcSchema.                *)
(***************************************************************************)
EXTENDS StructLayout, Sequences

CONSTANTS
  Readers,     \* for each kind of struct: its fields, as the getters find them
  Builders,    \* for each kind of struct: its size, and where the setters write
  Interfaces,  \* the RPC interfaces, by name
  Numbers,     \* bound: the numbers, as sets of bits, that setters are given
  Contents,    \* bound: what text, data, lists and structs may hold
  MaxSets      \* bound: setters called on one struct

Kinds == DOMAIN Builders
NoCall == [interface |-> "none"]
Unimplemented == [name |-> "unimplemented", params |-> "none"]

VARIABLES
  kind,   \* the kind of the struct
  msg,    \* the struct itself
  meant,  \* history: what each field was last set to
  sets,   \* how many setters have been called
  call    \* NoCall, or the call it was sent with and who handles it

vars == <<kind, msg, meant, sets, call>>

GetterOf(f) == Readers[kind][f]
SetterOf(f) == Builders[kind].fields[f]
Fields == DOMAIN Readers[kind]

(* Every accessor is for a field of one of these forms, and what is in a   *)
(* union is a struct or another pointer.                                   *)
PointerTypes == {"text", "data", "list", "struct"}
IsField(f) ==
  /\ f \in [section : {"data", "pointers"}, at : Nat, width : Nat,
            type : PointerTypes \cup {"number"}, tag : Int]
  /\ IF f.section = "data" THEN f.type = "number" /\ f.tag = NoTag
     ELSE f.type \in PointerTypes /\ f.width = 1

ASSUME RpcMessageAssumption ==
  /\ DOMAIN Readers = Kinds
  /\ \A k \in Kinds :
       /\ \A n \in DOMAIN Readers[k] : IsField(Readers[k][n])
       /\ Builders[k].words \in Nat
       /\ Builders[k].slots \in Nat

Values(f) ==
  IF f.section = "data"
  THEN {Pointee("number", n \cap (0 .. f.width - 1)) : n \in Numbers}
  ELSE {Pointee(f.type, c) : c \in Contents}

(* A struct with shorter or longer sections than this schema knows.        *)
Init ==
  /\ kind \in Kinds
  /\ \E w \in 0 .. Builders[kind].words + 1, p \in 0 .. Builders[kind].slots + 1 :
       msg = NewStruct(w, p)
  /\ meant = [f \in Fields |->
                IF GetterOf(f).tag = NoTag \/ TagBits(GetterOf(f).tag) = {}
                THEN Default(GetterOf(f)) ELSE NotPresent]
  /\ sets = 0
  /\ call = NoCall

(* The members of a union exclude each other.                              *)
InUnion(f) == GetterOf(f).tag # NoTag
Excludes(f, g) == f # g /\ InUnion(f) /\ InUnion(g)

MeantSet(f, v) ==
  [g \in Fields |-> IF g = f THEN v ELSE IF Excludes(f, g) THEN NotPresent
                    ELSE meant[g]]

(* Mutant: a member of the union is set without its tag.                   *)
SetFieldMutant(f, v) ==
  /\ call = NoCall
  /\ sets < MaxSets
  /\ Fits(msg, SetterOf(f))
  /\ InUnion(f) => Fits(msg, TagField)
  /\ msg' = Set(msg, [SetterOf(f) EXCEPT !.tag = NoTag], v)
  /\ meant' = MeantSet(f, v)
  /\ sets' = sets + 1
  /\ UNCHANGED <<kind, call>>

(* set_f(v), or init_f and filling in what it returns.  A peer with an     *)
(* older schema has no setters for the fields that its structs are too     *)
(* short for.                                                              *)
SetField(f, v) ==
  /\ call = NoCall
  /\ sets < MaxSets
  /\ Fits(msg, SetterOf(f))
  /\ InUnion(f) => Fits(msg, TagField)
  /\ msg' = Set(msg, SetterOf(f), v)
  /\ meant' = MeantSet(f, v)
  /\ sets' = sets + 1
  /\ UNCHANGED <<kind, call>>

(* init_result of connection_response: the first member, and null.         *)
InitGroup(f) ==
  /\ call = NoCall
  /\ sets < MaxSets
  /\ SetterOf(f).tag = 0
  /\ Fits(msg, SetterOf(f)) /\ Fits(msg, TagField)
  /\ msg' = Set(msg, SetterOf(f), Null)
  /\ meant' = MeantSet(f, Null)
  /\ sets' = sets + 1
  /\ UNCHANGED <<kind, call>>

(* A peer with a newer schema sets fields that are not in this one.        *)
SetUnknown ==
  /\ call = NoCall
  /\ sets < MaxSets
  /\ \/ /\ msg.words > Builders[kind].words
        /\ msg' = SetNumber(msg, U64(Builders[kind].words), 0 .. 63)
     \/ /\ Builders[kind].slots \in DOMAIN msg.slots
        /\ \E c \in Contents : msg' = SetPointer(msg, Struct(Builders[kind].slots),
                                                  Pointee("struct", c))
  /\ sets' = sets + 1
  /\ UNCHANGED <<kind, meant, call>>

-----------------------------------------------------------------------------
(* A call names an interface by its id and a method by its number.         *)

(* dispatch_call of a server of interface s, and dispatch_call_internal of *)
(* the interface with that id.                                             *)
Dispatch(s, id, number) ==
  IF id \notin Interfaces[s].takes THEN Unimplemented
  ELSE LET methods == Interfaces[CHOOSE i \in DOMAIN Interfaces :
                                   Interfaces[i].id = id].methods
       IN  IF number < Len(methods) THEN methods[number + 1] ELSE Unimplemented

(* The struct is sent as the parameters of method m of interface i, to a   *)
(* capability whose server is one of interface s.                          *)
Send(i, m, s) ==
  /\ call = NoCall
  /\ Interfaces[i].requests[m].params = kind
  /\ call' = [interface |-> i, method |-> m, server |-> s,
              handler |-> Dispatch(s, Interfaces[i].id,
                                   Interfaces[i].requests[m].number)]
  /\ UNCHANGED <<kind, msg, meant, sets>>

Next ==
  \/ \E f \in Fields : \E v \in Values(SetterOf(f)) : SetField(f, v)
  \/ \E f \in Fields : InitGroup(f)
  \/ SetUnknown
  \/ \E i, s \in DOMAIN Interfaces :
       \E m \in DOMAIN Interfaces[i].requests : Send(i, m, s)

Spec == Init /\ [][Next]_vars

-----------------------------------------------------------------------------
(* Whatever was set, in whatever order and by a peer of whatever schema,   *)
(* every getter returns what the setter of its field was last given, or    *)
(* the default if it was never called; and of a union exactly the member   *)
(* that was set last is present.  No two fields touch each other, and no   *)
(* getter takes half of a field (the accessors of every Reader and         *)
(* Builder).                                                               *)
ReadBack == \A f \in Fields : Get(msg, GetterOf(f)) = meant[f]

(* The layouts of a kind of struct: getters and setters of a field agree,  *)
(* every field lies inside the struct the Builder makes, a number does not *)
(* cross a word (so that a shorter struct has all of it or nothing), and   *)
(* no two fields share a bit or a slot, unless they are members of the     *)
(* union; nor does any share a bit with the union's tag (STRUCT_SIZE and   *)
(* the offsets of all accessors).                                          *)
Disjoint(f, g) == f.section = g.section => Span(f) \cap Span(g) = {}

LayoutSound(k) ==
  LET fields == Builders[k].fields
  IN  /\ fields = Readers[k]
      /\ \A n \in DOMAIN fields :
           LET f == fields[n]
           IN  /\ Fits(NewStruct(Builders[k].words, Builders[k].slots), f)
               /\ f.section = "data" =>
                    f.at \div 64 = (f.at + f.width - 1) \div 64
               /\ f.tag # NoTag => /\ Fits(NewStruct(Builders[k].words, 0), TagField)
                                   /\ Disjoint(f, TagField)
               /\ \A m \in DOMAIN fields \ {n} :
                    LET g == fields[m]
                    IN  IF f.tag # NoTag /\ g.tag # NoTag
                        THEN TagBits(f.tag) # TagBits(g.tag)
                        ELSE /\ Disjoint(f, g)
                             /\ g.tag # NoTag => Disjoint(f, TagField)

LayoutsSound == LayoutSound(kind)

(* A call reaches the method of the same name, and its handler reads the   *)
(* struct that the caller filled in, if the server's interface is the      *)
(* method's or extends it; any other server answers that the method is     *)
(* unimplemented (Client, trait Server and ServerDispatch).                *)
Implements(s, i) == s = i \/ i \in Interfaces[s].extends

CallReachesMethod ==
  call # NoCall =>
    call.handler = IF Implements(call.server, call.interface)
                   THEN [name |-> call.method, params |-> kind]
                   ELSE Unimplemented
=============================================================================
