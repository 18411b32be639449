---------------------------- MODULE HandEncoder ----------------------------
(***************************************************************************)
(* capnp_rpc.rs: the messages of the registration put together and taken   *)
(* apart word by word, which the program imports and does not call.  A     *)
(* segment is a function from 0, 1, ... to words.  A word holds numbers    *)
(* (the set of its bits that are one), a pointer, eight bytes of a text,   *)
(* or the id of an interface.                                              *)
(***************************************************************************)
EXTENDS TunnelRpcSchema, Sequences

(* Words laid over others, and a word of its own.                          *)
Laid(f, g) == [x \in DOMAIN f \cup DOMAIN g |-> IF x \in DOMAIN f THEN f[x] ELSE g[x]]
f ## g == Laid(f, g)
Word(at, word) == [w \in {at} |-> word]

Numbers(bits) == [kind |-> "data", bits |-> bits]
Zero == Numbers({})
Nul == "nul"
REGISTRATION_SERVER_ID == "f71695ec7fe85497"

Size(seg) == Cardinality(DOMAIN seg)
Blank(n) == [w \in 0 .. n - 1 |-> Zero]
At(w, seg) == [i \in w .. w + Size(seg) - 1 |-> seg[i - w]]

(* alloc_text makes room for the NUL, alloc_data does not.                 *)
TextWords(text) == (Len(text) + 8) \div 8
DataWords(data) == (Len(data) + 7) \div 8

Bytes8(data) ==
  [w \in 0 .. DataWords(data) - 1 |->
     [kind |-> "bytes",
      bytes |-> [k \in 1 .. 8 |-> IF 8 * w + k <= Len(data) THEN data[8 * w + k]
                                  ELSE Nul]]]

StructPtr(at, target, words, slots) ==
  Word(at, [kind |-> "struct", offset |-> target - at - 1, words |-> words,
            slots |-> slots])

ListPtr(at, target, elem, count) ==
  Word(at, [kind |-> "list", offset |-> target - at - 1, elem |-> elem,
            count |-> count])

DataPtr(at, target, len) == ListPtr(at, target, "byte", len)

SetU8(seg, w, byte, bits) == [seg EXCEPT ![w] = SetNumber(@, U8(byte), bits)]
SetU16(seg, w, byte, bits) == [seg EXCEPT ![w] = SetNumber(@, U16(byte \div 2), bits)]
SetU32(seg, w, byte, bits) == [seg EXCEPT ![w] = SetNumber(@, I32(byte \div 4), bits)]

(* The frame of a message, its header left out: the root pointer and then  *)
(* the words.  The offset is meant to find word root; but the root pointer *)
(* is itself a word of the segment, so it finds the word before.           *)
Finish(seg, root, words, slots) ==
  At(1, seg) ## Word(0, [kind |-> "struct", offset |-> root - 1, words |-> words,
                         slots |-> slots])

StripFraming(framed) == [w \in 0 .. Size(framed) - 2 |-> framed[w + 1]]

-----------------------------------------------------------------------------
(* Where the texts of a list begin, one behind the other from a word on,   *)
(* and where the last of them ends.                                        *)
Places(first, texts) ==
  LET place[i \in 1 .. Len(texts) + 1] ==
        IF i = 1 THEN first ELSE place[i - 1] + TextWords(texts[i - 1])
  IN  place

(* The parameters of registerConnection.  The four structs come first,     *)
(* then the texts and data in turn, then the list of features.             *)
EncodeRegisterConnection(account, secret, tunnel, index, client_id, version, arch, features) ==
  LET auth == 4
      options == 6
      client == 9
      account_w == 13
      secret_w == account_w + TextWords(account)
      tunnel_w == secret_w + DataWords(secret)
      client_id_w == tunnel_w + DataWords(tunnel)
      version_w == client_id_w + DataWords(client_id)
      arch_w == version_w + TextWords(version)
      feat_w == Places(arch_w + TextWords(arch), features)
      feat_list_w == feat_w[Len(features) + 1]
      n == Len(features)
      pointers ==
           StructPtr(1, auth, 0, 2)
        ## DataPtr(2, tunnel_w, Len(tunnel))
        ## StructPtr(3, options, 1, 2)
        ## DataPtr(auth, account_w, Len(account) + 1)
        ## DataPtr(auth + 1, secret_w, Len(secret))
        ## StructPtr(options + 1, client, 0, 4)
        ## DataPtr(client, client_id_w, 16)
        ## ListPtr(client + 1, feat_list_w, "pointer", n)
        ## DataPtr(client + 2, version_w, Len(version) + 1)
        ## DataPtr(client + 3, arch_w, Len(arch) + 1)
      entries ==
        [w \in feat_list_w .. feat_list_w + n - 1 |->
           LET i == w - feat_list_w + 1
           IN  DataPtr(w, feat_w[i], Len(features[i]) + 1)[w]]
      texts ==
           At(account_w, Bytes8(account)) ## At(secret_w, Bytes8(secret))
        ## At(tunnel_w, Bytes8(tunnel)) ## At(client_id_w, Bytes8(client_id))
        ## At(version_w, Bytes8(version)) ## At(arch_w, Bytes8(arch))
      names == [w \in feat_w[1] .. feat_list_w - 1 |->
                  LET i == CHOOSE j \in 1 .. n : w \in feat_w[j] .. feat_w[j + 1] - 1
                      b == At(feat_w[i], Bytes8(features[i]))
                  IN  IF w \in DOMAIN b THEN b[w] ELSE Zero]
      blank == Blank(feat_list_w + (IF n = 0 THEN 1 ELSE n))
  IN  Finish(SetU8(pointers ## entries ## texts ## names ## blank, 0, 0, index),
             0, 1, 3)

BuildBootstrap(question_id) ==
  Finish(SetU32(SetU16(StructPtr(1, 2, 1, 1) ## Blank(4), 0, 0, TagBits(8)),
                2, 0, question_id),
         0, 1, 1)

(* The Call: Message, Call, Payload, the words of the parameters, and the  *)
(* MessageTarget, which is first made a promised answer and then the       *)
(* imported capability 0.                                                  *)
BuildCall(question_id, framed) ==
  LET params == StripFraming(framed)
      call == 2
      payload == 8
      params_w == 10
      target == params_w + Size(params)
      promised == target + 2
      pointers == StructPtr(1, call, 3, 3)
               ## StructPtr(call + 3, target, 1, 1)
               ## StructPtr(call + 4, payload, 0, 2)
               ## StructPtr(payload, params_w, 1, 3)
               ## StructPtr(target + 1, promised, 1, 1)
      interface == Word(call + 1, [kind |-> "id", id |-> REGISTRATION_SERVER_ID])
      seg == pointers ## interface ## At(params_w, params) ## Blank(promised + 2)
      message == SetU16(seg, 0, 0, TagBits(2))
      question == SetU32(message, call, 0, question_id)
      method == SetU16(question, call, 4, TagBits(0))
      promise == SetU32(SetU16(method, target, 0, TagBits(1)), promised, 0, {})
  IN  Finish(SetU32(SetU16(promise, target, 0, TagBits(0)), target, 4, {}), 0, 1, 1)

-----------------------------------------------------------------------------
(* decode_connection_response: [ok, text].                                 *)

Failure(why) == [ok |-> FALSE, text |-> why]

(* Some bytes of a segment, from a word on.                                *)
BytesAt(seg, w, count) ==
  [k \in 1 .. count |->
     LET word == seg[w + ((k - 1) \div 8)]
     IN  IF word.kind = "bytes" THEN word.bytes[((k - 1) % 8) + 1] ELSE Nul]

(* read_text_ptr.  A pointer that is not there is an error, and so is a    *)
(* word that is no pointer to bytes, a number other than 0 included.  What *)
(* it takes for the number of the pointer's word is one too large.         *)
ReadTextPtr(seg, w) ==
  IF w \notin DOMAIN seg THEN Failure("out of bounds")
  ELSE IF seg[w] = Zero THEN [ok |-> TRUE, text |-> <<>>]
  ELSE IF seg[w].kind # "list" THEN Failure("no list")
  ELSE IF seg[w].elem # "byte" THEN Failure("no bytes")
  ELSE LET target == (w + 1) + 1 + seg[w].offset
           len == IF seg[w].count = 0 THEN 0 ELSE seg[w].count - 1
       IN  IF 8 * target + seg[w].count > 8 * Size(seg) THEN Failure("out of bounds")
           ELSE [ok |-> TRUE, text |-> BytesAt(seg, target, len)]

(* Mutant: every tag but that of an error is taken for an acceptance.      *)
DecodeConnectionResponseMutant(framed) ==
  LET start == 1 + framed[0].offset
      tag == GetNumber([words |-> 1, bits |-> framed[start].bits], TagField)
  IN  IF tag = TagBits(0) THEN Failure("rejected")
      ELSE [ok |-> TRUE, text |-> <<"unknown">>]

(* It looks for the text in the slots of ConnectionResponse itself: the    *)
(* cause in slot 0, the location in slot 1.                                *)
DecodeConnectionResponse(framed) ==
  LET root == framed[0]
      start == 1 + root.offset
      tag == GetNumber([words |-> 1, bits |-> framed[start].bits], TagField)
      location == ReadTextPtr(framed, start + root.words + 1)
  IN  IF Size(framed) < 2 THEN Failure("too short")
      ELSE IF root.kind # "struct" THEN Failure("no struct")
      ELSE IF start + root.words + root.slots > Size(framed) THEN Failure("out of bounds")
      ELSE IF tag = TagBits(0) THEN Failure("rejected")
      ELSE IF tag = TagBits(1)
      THEN [ok |-> TRUE, text |-> IF location.ok THEN location.text ELSE <<"unknown">>]
      ELSE Failure("unknown tag")

-----------------------------------------------------------------------------
(* How the capnp crate finds the fields of a struct in a segment: a struct *)
(* is the place of its data, its length in words and the place of its      *)
(* pointers.                                                               *)

StructAt(w, words) == [data |-> w, words |-> words, ptrs |-> w + words]
Target(seg, w) == w + 1 + seg[w].offset
Follow(seg, r, f) ==
  LET w == r.ptrs + f.at IN StructAt(Target(seg, w), seg[w].words)

NumberIn(seg, r, f) ==
  LET w == r.data + f.at \div 64
  IN  {b \in 0 .. f.width - 1 : (f.at % 64) + b \in seg[w].bits}

ContentAt(seg, w, type) ==
  IF seg[w] = Zero THEN <<>>
  ELSE BytesAt(seg, Target(seg, w),
               IF type = "text" THEN seg[w].count - 1 ELSE seg[w].count)
ContentIn(seg, r, f) == ContentAt(seg, r.ptrs + f.at, f.type)

TextsIn(seg, r, f) ==
  LET w == r.ptrs + f.at
  IN  [i \in 1 .. seg[w].count |-> ContentAt(seg, Target(seg, w) + i - 1, "text")]

(* A struct of the program as the crate writes it: its data, a pointer to  *)
(* the one struct it may point to, that struct with the one text it may    *)
(* have, and the text.                                                     *)
DataOf(s) == [w \in 0 .. s.words - 1 |-> Numbers({b \in 0 .. 63 : 64 * w + b \in s.bits})]
SlotsOf(s) == Cardinality(DOMAIN s.slots)
WriteText(s, at) ==
  LET after == at + s.words + SlotsOf(s)
      used == {i \in DOMAIN s.slots : s.slots[i].type = "text"}
      text == s.slots[CHOOSE i \in used : TRUE].content
      slot == at + s.words + CHOOSE i \in used : TRUE
  IN  IF used = {} THEN At(at, DataOf(s)) ## At(at, Blank(s.words + SlotsOf(s)))
      ELSE DataPtr(slot, after, Len(text) + 1) ## At(after, Bytes8(text))
           ## At(at, DataOf(s)) ## At(at, Blank(s.words + SlotsOf(s) + TextWords(text)))
WriteResponse(s) ==
  LET body == 1 + s.words + SlotsOf(s)
      slot == 1 + s.words
      head == StructPtr(0, 1, s.words, SlotsOf(s)) ## At(1, DataOf(s))
              ## At(1, Blank(s.words + SlotsOf(s)))
      inner == s.slots[0].content
  IN  IF s.slots[0].type # "struct" THEN head
      ELSE StructPtr(slot, body, inner.words, SlotsOf(inner)) ## head
           ## WriteText(inner, body)
=============================================================================
