---------------------------- MODULE ClientProofs ----------------------------
(***************************************************************************)
(* The client from its command line to the registration, for any tokens,   *)
(* files, answers of DNS, texts, edges and numbers of changes: it is set   *)
(* up when it is ready, an edge reads what the token says, and only its    *)
(* acceptance registers.  The hand-written encoder and decoder beside the  *)
(* generated code are compared with it for the same texts and answers.     *)
(***************************************************************************)
EXTENDS Registration, TLAPS, WellFoundedInduction, FiniteSetTheorems

(* What the search for a configuration file has seen so far.               *)
Seen(n) == \A j \in 1 .. n : DefaultPaths[j] \in missing
Preferred ==
  IF args.config # NoPath THEN path = args.config
  ELSE \E i \in DOMAIN DefaultPaths : path = DefaultPaths[i] /\ Seen(i - 1)

ConfigInv ==
  /\ args.config \in Paths \cup {NoPath}
  /\ pc = "begin" => looked = 0
  /\ pc = "search" => /\ args.config = NoPath
                      /\ looked < Len(DefaultPaths)
                      /\ Seen(looked)
  /\ pc \in {"begin", "search"} =>
       \A p \in Paths : files[p] = "absent" => p \in missing
  /\ pc \in {"load", "resolve", "ready"} => path \in Paths /\ Preferred
  /\ pc \in {"resolve", "ready"} => files[path] = "sound"

AddrInv ==
  /\ pc \in {"begin", "search", "load"} => heard = <<>>
  /\ pc = "resolve" => heard \in Seq({{}}) /\ Len(heard) < Len(EdgeHosts)
  /\ pc \in {"begin", "search", "load", "resolve"} => addrs = {}
  /\ Len(heard) <= Len(EdgeHosts)
  /\ pc = "ready" => client \in Clients

SetUpInv == StartTypeOK /\ ConfigInv /\ AddrInv /\ AddressesUsable

LEMMA DefaultPathsFacts ==
  /\ Len(DefaultPaths) \in 1 .. 3
  /\ DOMAIN DefaultPaths = 1 .. Len(DefaultPaths)
  /\ \A i \in 1 .. Len(DefaultPaths) : DefaultPaths[i] \in Paths
<1>1. CASE home
  BY <1>1 DEF DefaultPaths, Paths, Homes
<1>2. CASE ~home
  BY <1>2 DEF DefaultPaths, Paths, Homes
<1> QED BY <1>1, <1>2

LEMMA StartsSetUp ==
  ASSUME StartInit PROVE SetUpInv
<1>1. PICK s \in Starts : /\ args = s.args /\ home = s.home /\ files = s.files
                           /\ edits = s.edits
  BY DEF StartInit
<1>2. StartTypeOK
  BY <1>1, StartupAssumption, DefaultPathsFacts DEF StartInit, StartTypeOK, EdgeHosts
<1>3. ConfigInv
  BY <1>1, StartupAssumption DEF StartInit, ConfigInv
<1>4. AddrInv /\ AddressesUsable
  BY DEF StartInit, AddrInv, AddressesUsable
<1> QED BY <1>2, <1>3, <1>4 DEF SetUpInv

LEMMA OtherCommandSetUp ==
  ASSUME SetUpInv, OtherCommand PROVE SetUpInv'
BY DEF SetUpInv, OtherCommand, StartTypeOK, ConfigInv, AddrInv, AddressesUsable,
       DefaultPaths

LEMMA DecodeSetUp ==
  ASSUME SetUpInv, Decode PROVE SetUpInv'
<1>1. DefaultPaths' = DefaultPaths
  BY DEF Decode, DefaultPaths
<1>2. StartTypeOK'
  BY <1>1 DEF SetUpInv, StartTypeOK, ConfigInv, Decode, Fails
<1>3. ConfigInv'
  <2>1. Seen(0)'
    BY DEF Seen
  <2>2. files' = files /\ missing' = missing /\ args' = args
    BY DEF Decode
  <2> QED BY <1>1, <2>1, <2>2, DefaultPathsFacts
          DEF SetUpInv, ConfigInv, Decode, Fails, Preferred
<1>4. AddrInv' /\ AddressesUsable'
  BY DEF SetUpInv, AddrInv, AddressesUsable, Decode, Fails
<1> QED BY <1>2, <1>3, <1>4 DEF SetUpInv

LEMMA LookForConfigSetUp ==
  ASSUME SetUpInv, LookForConfig PROVE SetUpInv'
<1>1. /\ DefaultPaths' = DefaultPaths
      /\ looked' = looked + 1 /\ looked' \in 1 .. Len(DefaultPaths)
  BY DefaultPathsFacts DEF LookForConfig, DefaultPaths, SetUpInv, ConfigInv, StartTypeOK
<1>2. StartTypeOK'
  <2>1. looked' \in 0 .. Len(DefaultPaths)
    BY <1>1, DefaultPathsFacts
  <2>2. DefaultPaths[looked'] \in Paths
    BY <1>1, DefaultPathsFacts
  <2> QED BY <1>1, <2>1, <2>2 DEF SetUpInv, StartTypeOK, LookForConfig, Fails
<1>3. ConfigInv'
  <2> DEFINE p == DefaultPaths[looked']
  <2>1. files' = files /\ missing' = missing /\ args' = args /\ pc = "search"
    BY DEF LookForConfig
  <2>2. /\ Seen(looked) /\ args.config = NoPath
        /\ \A q \in Paths : files[q] = "absent" => q \in missing
    BY <2>1 DEF SetUpInv, ConfigInv
  <2>3. CASE files[p] # "absent"
    <3>1. path' = p /\ pc' = "load" /\ p \in Paths
      BY <1>1, <2>3, DefaultPathsFacts DEF LookForConfig
    <3>2. Preferred'
      <4>1. looked' - 1 = looked /\ looked' \in DOMAIN DefaultPaths
        BY <1>1, DefaultPathsFacts DEF SetUpInv, StartTypeOK
      <4>2. \A n : Seen(n)' <=> Seen(n)
        BY <1>1, <2>1 DEF Seen
      <4>3. \E i \in DOMAIN DefaultPaths : p = DefaultPaths[i] /\ Seen(i - 1)
        BY <2>2, <4>1
      <4> QED BY <1>1, <2>1, <2>2, <3>1, <4>2, <4>3 DEF Preferred
    <3> QED BY <2>1, <3>1, <3>2 DEF SetUpInv, ConfigInv
  <2>4. CASE files[p] = "absent"
    <3>1. path' = path /\ IF looked' = Len(DefaultPaths) THEN pc' = "failed" ELSE pc' = pc
      BY <2>4 DEF LookForConfig, Fails
    <3>2. Seen(looked)'
      <4>1. looked \in Nat
        BY <1>1, DefaultPathsFacts DEF SetUpInv, StartTypeOK
      <4>2. \A j \in 1 .. looked' : j \in 1 .. looked \/ j = looked'
        BY <1>1, <4>1
      <4>3. p \in missing
        BY <1>1, <2>2, <2>4, DefaultPathsFacts
      <4> QED BY <1>1, <2>1, <2>2, <4>2, <4>3 DEF Seen
    <3>3. looked' # Len(DefaultPaths) => looked' < Len(DefaultPaths)
      BY <1>1, DefaultPathsFacts
    <3>4. pc' = "search" => looked' < Len(DefaultPaths)
      BY <2>1, <3>1, <3>3
    <3> QED BY <1>1, <2>1, <2>2, <3>1, <3>2, <3>4 DEF SetUpInv, ConfigInv
  <2> QED BY <2>3, <2>4
<1>4. AddrInv' /\ AddressesUsable'
  BY DEF SetUpInv, AddrInv, AddressesUsable, LookForConfig, Fails
<1> QED BY <1>2, <1>3, <1>4 DEF SetUpInv

LEMMA LoadConfigSetUp ==
  ASSUME SetUpInv, LoadConfig PROVE SetUpInv'
<1>1. DefaultPaths' = DefaultPaths
  BY DEF LoadConfig, DefaultPaths
<1>2. StartTypeOK'
  BY <1>1 DEF SetUpInv, StartTypeOK, LoadConfig, Fails
<1>3. ConfigInv'
  BY <1>1 DEF SetUpInv, ConfigInv, LoadConfig, Fails, Preferred, Seen
<1>4. AddrInv' /\ AddressesUsable'
  <2>1. <<>> \in Seq({{}}) /\ Len(<<>>) < Len(EdgeHosts) /\ EdgeHosts' = EdgeHosts
    BY DEF EdgeHosts
  <2>2. pc' = "resolve" \/ pc' = "failed"
    BY DEF LoadConfig, Fails
  <2> QED BY <2>1, <2>2 DEF SetUpInv, AddrInv, AddressesUsable, LoadConfig
<1> QED BY <1>2, <1>3, <1>4 DEF SetUpInv

(* One more answer, behind none that had addresses.                        *)
LEMMA HeardOneMore ==
  ASSUME NEW h \in Seq({{}}), NEW answer
  PROVE  LET g == Append(h, answer)
         IN  /\ Len(g) = Len(h) + 1 /\ Len(h) \in Nat
             /\ g[Len(g)] = answer
             /\ \A i \in 1 .. Len(g) - 1 : g[i] = {}
             /\ answer = {} => g \in Seq({{}}) /\ \A i \in DOMAIN g : g[i] = {}
<1>1. h \in Seq({{}, answer})
  OBVIOUS
<1>2. /\ Append(h, answer) \in Seq({{}, answer})
      /\ Len(Append(h, answer)) = Len(h) + 1
      /\ Append(h, answer)[Len(h) + 1] = answer
      /\ \A i \in 1 .. Len(h) : Append(h, answer)[i] = h[i]
  BY <1>1
<1>3. \A i \in 1 .. Len(h) : h[i] = {}
  OBVIOUS
<1>4. answer = {} => Append(h, answer) \in Seq({{}})
  OBVIOUS
<1>5. Len(h) \in Nat
  OBVIOUS
<1> QED BY <1>2, <1>3, <1>4, <1>5

LEMMA LookupSetUp ==
  ASSUME SetUpInv, NEW answer, Lookup(answer) PROVE SetUpInv'
<1>1. /\ DefaultPaths' = DefaultPaths /\ pc = "resolve" /\ addrs = {}
      /\ heard' = Append(heard, answer)
      /\ heard \in Seq({{}}) /\ Len(heard) < Len(EdgeHosts)
  BY DEF Lookup, DefaultPaths, SetUpInv, AddrInv
<1>2. /\ Len(heard') = Len(heard) + 1 /\ Len(heard) \in Nat
      /\ heard'[Len(heard')] = answer
      /\ \A i \in 1 .. Len(heard') - 1 : heard'[i] = {}
      /\ answer = {} => heard' \in Seq({{}}) /\ \A i \in DOMAIN heard' : heard'[i] = {}
  BY <1>1, HeardOneMore
<1>3. EdgeHosts' = EdgeHosts /\ Len(EdgeHosts) = 2
  BY DEF EdgeHosts
<1>4. \/ /\ answer # {} /\ addrs' = answer /\ pc' = "ready"
         /\ client' \in Clients /\ cause' = cause
      \/ /\ answer = {} /\ Len(heard') = Len(EdgeHosts) /\ addrs' = Fallback
         /\ \/ Fallback # {} /\ pc' = "ready" /\ client' \in Clients /\ cause' = cause
            \/ pc' = "failed" /\ client' = client /\ cause' = "no_addresses"
      \/ /\ answer = {} /\ Len(heard') # Len(EdgeHosts) /\ addrs' = {} /\ pc' = "resolve"
         /\ client' = client /\ cause' = cause
  <2>1. addrs \cup answer = answer
    BY <1>1
  <2> QED BY <1>1, <2>1 DEF Lookup, Ready, Fails
<1>5. Len(heard') \in Nat /\ Len(heard') <= Len(EdgeHosts)
  BY <1>1, <1>2, <1>3
<1>6. StartTypeOK'
  BY <1>1, <1>4, <1>5 DEF SetUpInv, StartTypeOK, Lookup
<1>7. ConfigInv'
  <2>1. /\ files' = files /\ missing' = missing /\ args' = args /\ path' = path
        /\ pc' \in {"resolve", "ready", "failed"}
    BY <1>4 DEF Lookup
  <2>2. Preferred' <=> Preferred
    BY <1>1, <2>1 DEF Preferred, Seen
  <2> QED BY <1>1, <2>1, <2>2 DEF SetUpInv, ConfigInv
<1>8. AddrInv'
  <2>1. Len(heard') # Len(EdgeHosts) => Len(heard') < Len(EdgeHosts)
    <3>1. \A n \in Nat : n <= 2 /\ n # 2 => n < 2
      OBVIOUS
    <3> QED BY <1>3, <1>5, <3>1
  <2> QED BY <1>2, <1>3, <1>4, <1>5, <2>1 DEF AddrInv
<1>9. AddressesUsable'
  BY <1>2, <1>3, <1>4 DEF AddressesUsable
<1> QED BY <1>6, <1>7, <1>8, <1>9 DEF SetUpInv

LEMMA EditConfigSetUp ==
  ASSUME SetUpInv, EditConfig PROVE SetUpInv'
<1>1. /\ DefaultPaths' = DefaultPaths /\ args' = args /\ path' = path
      /\ looked' = looked /\ pc' = pc /\ pc \in {"search", "load"}
      /\ missing \subseteq missing' /\ missing' \subseteq missing \cup Paths
  BY DEF EditConfig, DefaultPaths
<1>2. StartTypeOK'
  BY <1>1 DEF SetUpInv, StartTypeOK, EditConfig
<1>3. ConfigInv'
  <2>1. \A n : Seen(n) => Seen(n)'
    BY <1>1 DEF Seen
  <2>2. Preferred => Preferred'
    BY <1>1, <2>1 DEF Preferred
  <2>3. pc = "search" => \A p \in Paths : files'[p] = "absent" => p \in missing'
    BY DEF EditConfig
  <2> QED BY <1>1, <2>1, <2>2, <2>3 DEF SetUpInv, ConfigInv
<1>4. AddrInv' /\ AddressesUsable'
  BY DEF SetUpInv, AddrInv, AddressesUsable, EditConfig
<1> QED BY <1>2, <1>3, <1>4 DEF SetUpInv

LEMMA UnchangedSetUp ==
  ASSUME SetUpInv, UNCHANGED startVars PROVE SetUpInv'
<1>1. DefaultPaths' = DefaultPaths
  BY DEF startVars, DefaultPaths
<1>2. Preferred' <=> Preferred
  BY <1>1 DEF startVars, Preferred, Seen
<1>3. StartTypeOK'
  BY <1>1 DEF SetUpInv, StartTypeOK, startVars
<1>4. ConfigInv'
  BY <1>1, <1>2 DEF SetUpInv, ConfigInv, startVars, Seen
<1> QED BY <1>3, <1>4 DEF SetUpInv, AddrInv, AddressesUsable, startVars

LEMMA NextSetUp ==
  ASSUME SetUpInv, [Next]_vars PROVE SetUpInv'
<1>1. CASE StartNext
  BY <1>1, OtherCommandSetUp, DecodeSetUp, LookForConfigSetUp, LoadConfigSetUp,
     LookupSetUp, EditConfigSetUp DEF StartNext, LookupAny
<1>2. CASE ~StartNext
  <2>1. UNCHANGED startVars
    BY <1>2 DEF Next, vars, ControlStream, HandleReply, EdgeAccepts, EdgeRejects,
                EdgeBreaks, Answered
  <2> QED BY <2>1, UnchangedSetUp
<1> QED BY <1>1, <1>2

(* The addresses and the configuration file of a program that is ready are *)
(* those it has to use, whatever DNS answers and however other programs    *)
(* change the files during the search: one that it prefers is passed over  *)
(* only if it was away for a moment (default_config_path, run_tunnel,      *)
(* resolve_edge_addrs).                                                    *)
THEOREM SetUpWhenReady == Spec => []ReadyIsSetUp
<1>1. Init => SetUpInv
  BY StartsSetUp DEF Init
<1>2. SetUpInv /\ [Next]_vars => SetUpInv'
  BY NextSetUp
<1>3. SetUpInv => ReadyIsSetUp
  <2>1. SetUpInv => PreferredFileUsed
    BY DEF SetUpInv, ConfigInv, PreferredFileUsed, Preferred, Seen
  <2> QED BY <2>1 DEF SetUpInv, ReadyIsSetUp
<1> QED BY <1>1, <1>2, <1>3, PTL DEF Spec

-----------------------------------------------------------------------------
(* Filling in structs and reading them.                                    *)

IsRecord(s) == s = [words |-> s.words, bits |-> s.bits, slots |-> s.slots]

IsPointer(f, n, type) ==
  f.section = "pointers" /\ f.at = n /\ f.type = type /\ f.tag = NoTag

(* Setting a pointer that is in no union.                                  *)
LEMMA PutPointer ==
  ASSUME NEW s, IsRecord(s),
         NEW f, f.section = "pointers", f.tag = NoTag, f.at \in DOMAIN s.slots, NEW v
  PROVE  LET t == Set(s, f, v)
         IN  /\ IsRecord(t)
             /\ t.words = s.words /\ t.bits = s.bits
             /\ DOMAIN t.slots = DOMAIN s.slots
             /\ t.slots[f.at] = v
             /\ \A i \in DOMAIN s.slots : i # f.at => t.slots[i] = s.slots[i]
<1>1. Set(s, f, v) = SetPointer(s, f, v)
  BY DEF Set
<1>2. SetPointer(s, f, v) =
        [words |-> s.words, bits |-> s.bits, slots |-> [s.slots EXCEPT ![f.at] = v]]
  BY DEF SetPointer, IsRecord
<1> QED BY <1>1, <1>2 DEF IsRecord

(* Setting a number to zero in a struct without numbers.                   *)
LEMMA PutZero ==
  ASSUME NEW s, IsRecord(s), s.bits = {},
         NEW f, f.section = "data", f.tag = NoTag
  PROVE  Set(s, f, Pointee(f.type, {})) = s
<1>1. Set(s, f, Pointee(f.type, {})) = SetNumber(s, f, {})
  BY DEF Set, Pointee
<1>2. SetNumber(s, f, {}) =
        [words |-> s.words, bits |-> (s.bits \ Span(f)) \cup {f.at + b : b \in {}},
         slots |-> s.slots]
  BY DEF SetNumber, IsRecord
<1>3. (s.bits \ Span(f)) \cup {f.at + b : b \in {}} = {}
  OBVIOUS
<1> QED BY <1>1, <1>2, <1>3 DEF IsRecord

LEMMA NewIsEmpty ==
  ASSUME NEW w, NEW p
  PROVE  LET t == NewStruct(w, p)
         IN  /\ IsRecord(t) /\ t.words = w /\ t.bits = {}
             /\ DOMAIN t.slots = 0 .. p - 1
             /\ \A i \in 0 .. p - 1 : t.slots[i] = Null
BY DEF NewStruct, IsRecord

LEMMA PointerFields ==
  \A n : /\ IsPointer(Text(n), n, "text") /\ IsPointer(Bytes(n), n, "data")
         /\ IsPointer(List(n), n, "list") /\ IsPointer(Struct(n), n, "struct")
BY DEF IsPointer, Text, Bytes, List, Struct, Field

(* A pointer is read in the slot where it is.                              *)
LEMMA ReadSlot ==
  ASSUME NEW s, NEW f, NEW n, NEW type, NEW c, n \in DOMAIN s.slots,
         IsPointer(f, n, type), s.slots[n] = Pointee(type, c)
  PROVE  /\ Content(s, f) = c
         /\ type = "struct" => Sub(s, f) = c
<1>1. GetPointer(s, f) = Pointee(type, c)
  BY DEF GetPointer, Fits, Pointee, IsPointer
<1> QED BY <1>1 DEF Content, Sub, Pointee

LEMMA ReadNull ==
  ASSUME NEW s, NEW f, NEW n, NEW type, n \in DOMAIN s.slots,
         IsPointer(f, n, type), s.slots[n] = Null
  PROVE  Content(s, f) = <<>>
BY DEF Content, GetPointer, Fits, Null, Pointee, IsPointer

LEMMA ReadZero ==
  ASSUME NEW s, s.bits = {}, NEW f PROVE GetNumber(s, f) = {}
BY DEF GetNumber

AuthOf(account_tag, tunnel_secret) ==
  Put(Put(New(TunnelAuthBuilder), TunnelAuthBuilder, "account_tag", account_tag),
      TunnelAuthBuilder, "tunnel_secret", tunnel_secret)

InfoOf(client_id) ==
  Put(Put(Put(Put(New(ClientInfoBuilder), ClientInfoBuilder, "client_id", client_id),
              ClientInfoBuilder, "features", Features),
          ClientInfoBuilder, "version", Version),
      ClientInfoBuilder, "arch", Arch)

OptionsOf(info) ==
  Put(Put(New(ConnectionOptionsBuilder), ConnectionOptionsBuilder,
          "num_previous_attempts", {}),
      ConnectionOptionsBuilder, "client", info)

ParamsOf(auth, tunnel_id, opts) ==
  Put(Put(Put(Put(New(RegisterConnectionParamsBuilder), RegisterConnectionParamsBuilder,
                  "auth", auth),
              RegisterConnectionParamsBuilder, "tunnel_id", tunnel_id),
          RegisterConnectionParamsBuilder, "conn_index", {}),
      RegisterConnectionParamsBuilder, "options", opts)

LEMMA FilledParams ==
  ASSUME NEW a, NEW s, NEW t, NEW c
  PROVE  FillParams(a, s, t, c) = ParamsOf(AuthOf(a, s), t, OptionsOf(InfoOf(c)))
BY DEF FillParams, ParamsOf, AuthOf, OptionsOf, InfoOf

LEMMA AuthReads ==
  ASSUME NEW account_tag, NEW tunnel_secret
  PROVE  LET auth == AuthOf(account_tag, tunnel_secret)
         IN  /\ Content(auth, TunnelAuthReader.account_tag) = account_tag
             /\ Content(auth, TunnelAuthReader.tunnel_secret) = tunnel_secret
<1> DEFINE b == TunnelAuthBuilder
           s0 == New(b)
           s1 == Put(s0, b, "account_tag", account_tag)
           s2 == Put(s1, b, "tunnel_secret", tunnel_secret)
<1>1. /\ b.words = 0 /\ b.slots = 2
      /\ b.fields["account_tag"] = Text(0) /\ b.fields["tunnel_secret"] = Bytes(1)
      /\ TunnelAuthReader.account_tag = Text(0) /\ TunnelAuthReader.tunnel_secret = Bytes(1)
  BY DEF TunnelAuthBuilder, TunnelAuthReader, Builder
<1>0. /\ IsPointer(b.fields["account_tag"], 0, "text")
      /\ IsPointer(b.fields["tunnel_secret"], 1, "data")
      /\ IsPointer(Text(0), 0, "text")
      /\ IsPointer(Bytes(1), 1, "data")
  BY <1>1, PointerFields
<1>2. /\ IsRecord(s0) /\ DOMAIN s0.slots = 0 .. 1
      /\ 0 \in DOMAIN s0.slots /\ 1 \in DOMAIN s0.slots
  BY <1>1, NewIsEmpty DEF New
<1>3. /\ IsRecord(s1) /\ DOMAIN s1.slots = 0 .. 1
      /\ 0 \in DOMAIN s1.slots /\ 1 \in DOMAIN s1.slots
      /\ s1.slots[0] = Pointee("text", account_tag)
  BY <1>0, <1>1, <1>2, PutPointer DEF Put, IsPointer
<1>4. /\ DOMAIN s2.slots = 0 .. 1
      /\ 0 \in DOMAIN s2.slots /\ 1 \in DOMAIN s2.slots
      /\ s2.slots[0] = Pointee("text", account_tag)
      /\ s2.slots[1] = Pointee("data", tunnel_secret)
  BY <1>0, <1>1, <1>3, PutPointer DEF Put, IsPointer
<1>5. AuthOf(account_tag, tunnel_secret) = s2
  BY DEF AuthOf
<1>6. Content(s2, Text(0)) = account_tag /\ Content(s2, Bytes(1)) = tunnel_secret
  BY <1>0, <1>1, <1>4, ReadSlot
<1> QED BY <1>1, <1>5, <1>6

LEMMA InfoReads ==
  ASSUME NEW client_id
  PROVE  LET info == InfoOf(client_id)
         IN  /\ Content(info, ClientInfoReader.client_id) = client_id
             /\ Content(info, ClientInfoReader.features) = Features
             /\ Content(info, ClientInfoReader.version) = Version
             /\ Content(info, ClientInfoReader.arch) = Arch
<1> DEFINE b == ClientInfoBuilder
           s0 == New(b)
           s1 == Put(s0, b, "client_id", client_id)
           s2 == Put(s1, b, "features", Features)
           s3 == Put(s2, b, "version", Version)
           s4 == Put(s3, b, "arch", Arch)
<1>1. /\ b.words = 0 /\ b.slots = 4
      /\ b.fields["client_id"] = Bytes(0) /\ b.fields["features"] = List(1)
      /\ b.fields["version"] = Text(2) /\ b.fields["arch"] = Text(3)
      /\ ClientInfoReader.client_id = Bytes(0) /\ ClientInfoReader.features = List(1)
      /\ ClientInfoReader.version = Text(2) /\ ClientInfoReader.arch = Text(3)
  BY DEF ClientInfoBuilder, ClientInfoReader, Builder
<1>0. /\ IsPointer(b.fields["client_id"], 0, "data")
      /\ IsPointer(b.fields["features"], 1, "list")
      /\ IsPointer(b.fields["version"], 2, "text")
      /\ IsPointer(b.fields["arch"], 3, "text")
      /\ IsPointer(Bytes(0), 0, "data")
      /\ IsPointer(List(1), 1, "list")
      /\ IsPointer(Text(2), 2, "text")
      /\ IsPointer(Text(3), 3, "text")
  BY <1>1, PointerFields
<1>2. /\ IsRecord(s0) /\ DOMAIN s0.slots = 0 .. 3
      /\ 0 \in DOMAIN s0.slots /\ 1 \in DOMAIN s0.slots /\ 2 \in DOMAIN s0.slots /\ 3 \in DOMAIN s0.slots
  BY <1>1, NewIsEmpty DEF New
<1>3. /\ IsRecord(s1) /\ DOMAIN s1.slots = 0 .. 3
      /\ 0 \in DOMAIN s1.slots /\ 1 \in DOMAIN s1.slots /\ 2 \in DOMAIN s1.slots /\ 3 \in DOMAIN s1.slots
      /\ s1.slots[0] = Pointee("data", client_id)
  BY <1>0, <1>1, <1>2, PutPointer DEF Put, IsPointer
<1>4. /\ IsRecord(s2) /\ DOMAIN s2.slots = 0 .. 3
      /\ 0 \in DOMAIN s2.slots /\ 1 \in DOMAIN s2.slots /\ 2 \in DOMAIN s2.slots /\ 3 \in DOMAIN s2.slots
      /\ s2.slots[0] = Pointee("data", client_id)
      /\ s2.slots[1] = Pointee("list", Features)
  BY <1>0, <1>1, <1>3, PutPointer DEF Put, IsPointer
<1>5. /\ IsRecord(s3) /\ DOMAIN s3.slots = 0 .. 3
      /\ 0 \in DOMAIN s3.slots /\ 1 \in DOMAIN s3.slots /\ 2 \in DOMAIN s3.slots /\ 3 \in DOMAIN s3.slots
      /\ s3.slots[0] = Pointee("data", client_id)
      /\ s3.slots[1] = Pointee("list", Features)
      /\ s3.slots[2] = Pointee("text", Version)
  BY <1>0, <1>1, <1>4, PutPointer DEF Put, IsPointer
<1>6. /\ DOMAIN s4.slots = 0 .. 3
      /\ 0 \in DOMAIN s4.slots /\ 1 \in DOMAIN s4.slots /\ 2 \in DOMAIN s4.slots /\ 3 \in DOMAIN s4.slots
      /\ s4.slots[0] = Pointee("data", client_id)
      /\ s4.slots[1] = Pointee("list", Features)
      /\ s4.slots[2] = Pointee("text", Version)
      /\ s4.slots[3] = Pointee("text", Arch)
  BY <1>0, <1>1, <1>5, PutPointer DEF Put, IsPointer
<1>7. InfoOf(client_id) = s4
  BY DEF InfoOf
<1>8. /\ Content(s4, Bytes(0)) = client_id /\ Content(s4, List(1)) = Features
      /\ Content(s4, Text(2)) = Version /\ Content(s4, Text(3)) = Arch
  BY <1>0, <1>1, <1>6, ReadSlot
<1> QED BY <1>1, <1>7, <1>8

LEMMA OptionsRead ==
  ASSUME NEW info
  PROVE  LET opts == OptionsOf(info)
         IN  /\ Sub(opts, ConnectionOptionsReader.client) = info
             /\ Content(opts, ConnectionOptionsReader.origin_local_ip) = <<>>
             /\ opts.bits = {}
<1> DEFINE b == ConnectionOptionsBuilder
           s0 == New(b)
           s1 == Put(s0, b, "num_previous_attempts", {})
           s2 == Put(s1, b, "client", info)
<1>1. /\ b.words = 1 /\ b.slots = 2
      /\ b.fields["client"] = Struct(0) /\ b.fields["num_previous_attempts"] = U8(2)
      /\ ConnectionOptionsReader.client = Struct(0)
      /\ ConnectionOptionsReader.origin_local_ip = Bytes(1)
  BY DEF ConnectionOptionsBuilder, ConnectionOptionsReader, Builder
<1>0. /\ IsPointer(b.fields["client"], 0, "struct")
      /\ IsPointer(Struct(0), 0, "struct")
      /\ IsPointer(Bytes(1), 1, "data")
  BY <1>1, PointerFields
<1>2. /\ IsRecord(s0) /\ DOMAIN s0.slots = 0 .. 1 /\ s0.bits = {}
      /\ 0 \in DOMAIN s0.slots /\ 1 \in DOMAIN s0.slots
      /\ s0.slots[1] = Null
  BY <1>1, NewIsEmpty DEF New
<1>3. s1 = s0
  <2>1. U8(2).section = "data" /\ U8(2).tag = NoTag
    BY DEF U8, Field
  <2> QED BY <1>1, <1>2, <2>1, PutZero DEF Put
<1>4. /\ DOMAIN s2.slots = 0 .. 1 /\ s2.bits = {}
      /\ 0 \in DOMAIN s2.slots /\ 1 \in DOMAIN s2.slots
      /\ s2.slots[0] = Pointee("struct", info) /\ s2.slots[1] = Null
  BY <1>0, <1>1, <1>2, <1>3, PutPointer DEF Put, IsPointer
<1>5. OptionsOf(info) = s2
  BY DEF OptionsOf
<1>6. Sub(s2, Struct(0)) = info /\ Content(s2, Bytes(1)) = <<>>
  BY <1>0, <1>1, <1>4, ReadSlot, ReadNull
<1> QED BY <1>1, <1>4, <1>5, <1>6

LEMMA ParamsRead ==
  ASSUME NEW auth, NEW tunnel_id, NEW opts
  PROVE  LET params == ParamsOf(auth, tunnel_id, opts)
         IN  /\ Sub(params, RegisterConnectionParamsReader.auth) = auth
             /\ Content(params, RegisterConnectionParamsReader.tunnel_id) = tunnel_id
             /\ Sub(params, RegisterConnectionParamsReader.options) = opts
             /\ params.bits = {}
<1> DEFINE b == RegisterConnectionParamsBuilder
           s0 == New(b)
           s1 == Put(s0, b, "auth", auth)
           s2 == Put(s1, b, "tunnel_id", tunnel_id)
           s3 == Put(s2, b, "conn_index", {})
           s4 == Put(s3, b, "options", opts)
           R == RegisterConnectionParamsReader
<1>1. /\ b.words = 1 /\ b.slots = 3
      /\ b.fields["auth"] = Struct(0) /\ b.fields["tunnel_id"] = Bytes(1)
      /\ b.fields["conn_index"] = U8(0) /\ b.fields["options"] = Struct(2)
      /\ R.auth = Struct(0) /\ R.tunnel_id = Bytes(1) /\ R.options = Struct(2)
  BY DEF RegisterConnectionParamsBuilder, RegisterConnectionParamsReader, Builder
<1>0. /\ IsPointer(b.fields["auth"], 0, "struct")
      /\ IsPointer(b.fields["tunnel_id"], 1, "data")
      /\ IsPointer(b.fields["options"], 2, "struct")
      /\ IsPointer(Struct(0), 0, "struct")
      /\ IsPointer(Bytes(1), 1, "data")
      /\ IsPointer(Struct(2), 2, "struct")
  BY <1>1, PointerFields
<1>2. /\ IsRecord(s0) /\ DOMAIN s0.slots = 0 .. 2 /\ s0.bits = {}
      /\ 0 \in DOMAIN s0.slots /\ 1 \in DOMAIN s0.slots /\ 2 \in DOMAIN s0.slots
  BY <1>1, NewIsEmpty DEF New
<1>3. /\ IsRecord(s1) /\ DOMAIN s1.slots = 0 .. 2 /\ s1.bits = {}
      /\ 0 \in DOMAIN s1.slots /\ 1 \in DOMAIN s1.slots /\ 2 \in DOMAIN s1.slots
      /\ s1.slots[0] = Pointee("struct", auth)
  BY <1>0, <1>1, <1>2, PutPointer DEF Put, IsPointer
<1>4. /\ IsRecord(s2) /\ DOMAIN s2.slots = 0 .. 2 /\ s2.bits = {}
      /\ 0 \in DOMAIN s2.slots /\ 1 \in DOMAIN s2.slots /\ 2 \in DOMAIN s2.slots
      /\ s2.slots[0] = Pointee("struct", auth) /\ s2.slots[1] = Pointee("data", tunnel_id)
  BY <1>0, <1>1, <1>3, PutPointer DEF Put, IsPointer
<1>5. s3 = s2
  <2>1. U8(0).section = "data" /\ U8(0).tag = NoTag
    BY DEF U8, Field
  <2> QED BY <1>1, <1>4, <2>1, PutZero DEF Put
<1>6. /\ DOMAIN s4.slots = 0 .. 2 /\ s4.bits = {}
      /\ 0 \in DOMAIN s4.slots /\ 1 \in DOMAIN s4.slots /\ 2 \in DOMAIN s4.slots
      /\ s4.slots[0] = Pointee("struct", auth) /\ s4.slots[1] = Pointee("data", tunnel_id)
      /\ s4.slots[2] = Pointee("struct", opts)
  BY <1>0, <1>1, <1>4, <1>5, PutPointer DEF Put, IsPointer
<1>7. ParamsOf(auth, tunnel_id, opts) = s4
  BY DEF ParamsOf
<1>8. /\ Sub(s4, Struct(0)) = auth /\ Content(s4, Bytes(1)) = tunnel_id
      /\ Sub(s4, Struct(2)) = opts
  BY <1>0, <1>1, <1>6, ReadSlot
<1> QED BY <1>1, <1>6, <1>7, <1>8

(* What the client fills in is what an edge reads.                         *)
LEMMA EdgeReadsParams ==
  ASSUME NEW a, NEW s, NEW t, NEW c
  PROVE  EdgeReads(FillParams(a, s, t, c)) =
           [account_tag |-> a, tunnel_secret |-> s, tunnel_id |-> t,
            conn_index |-> {}, replace_existing |-> {}, compression |-> {},
            attempts |-> {}, origin_local_ip |-> <<>>, client_id |-> c,
            features |-> Features, version |-> Version, arch |-> Arch]
<1> DEFINE params == ParamsOf(AuthOf(a, s), t, OptionsOf(InfoOf(c)))
<1>1. FillParams(a, s, t, c) = params
  BY FilledParams
<1>2. /\ Sub(params, RegisterConnectionParamsReader.auth) = AuthOf(a, s)
      /\ Content(params, RegisterConnectionParamsReader.tunnel_id) = t
      /\ Sub(params, RegisterConnectionParamsReader.options) = OptionsOf(InfoOf(c))
      /\ params.bits = {}
  BY ParamsRead
<1>3. /\ Sub(OptionsOf(InfoOf(c)), ConnectionOptionsReader.client) = InfoOf(c)
      /\ Content(OptionsOf(InfoOf(c)), ConnectionOptionsReader.origin_local_ip) = <<>>
      /\ OptionsOf(InfoOf(c)).bits = {}
  BY OptionsRead
<1>4. /\ GetNumber(params, RegisterConnectionParamsReader.conn_index) = {}
      /\ \A f : GetNumber(OptionsOf(InfoOf(c)), f) = {}
  BY <1>2, <1>3, ReadZero
<1>5. /\ Content(AuthOf(a, s), TunnelAuthReader.account_tag) = a
      /\ Content(AuthOf(a, s), TunnelAuthReader.tunnel_secret) = s
  BY AuthReads
<1>6. /\ Content(InfoOf(c), ClientInfoReader.client_id) = c
      /\ Content(InfoOf(c), ClientInfoReader.features) = Features
      /\ Content(InfoOf(c), ClientInfoReader.version) = Version
      /\ Content(InfoOf(c), ClientInfoReader.arch) = Arch
  BY InfoReads
<1> QED BY <1>1, <1>2, <1>3, <1>4, <1>5, <1>6 DEF EdgeReads

-----------------------------------------------------------------------------
(* A call waits only while the program is ready, and says what it does.    *)
CallInv ==
  call # NoCall =>
    /\ pc = "ready"
    /\ call = FillParams(Creds.a, SecretBytes(Creds.s), Creds.t, client)

LEMMA NextCall ==
  ASSUME CallInv, [Next]_vars PROVE CallInv'
<1>1. CASE StartNext /\ UNCHANGED <<call, reply, verdict, outcome>>
  <2>1. pc # "ready"
    BY <1>1 DEF StartNext, OtherCommand, Decode, LookForConfig, LoadConfig, LookupAny,
                EditConfig
  <2> QED BY <1>1, <2>1 DEF CallInv
<1>2. CASE ControlStream
  <2>1. UNCHANGED startVars
    BY <1>2 DEF ControlStream
  <2>2. Creds' = Creds /\ pc' = pc /\ client' = client
    BY <2>1 DEF startVars, Creds
  <2> QED BY <1>2, <2>2 DEF ControlStream, CallInv
<1>3. CASE HandleReply
  BY <1>3 DEF HandleReply, CallInv
<1>4. CASE EdgeAccepts \/ EdgeRejects \/ EdgeBreaks
  BY <1>4 DEF EdgeAccepts, EdgeRejects, EdgeBreaks, Answered, CallInv, startVars, Creds
<1>5. CASE UNCHANGED vars
  BY <1>5 DEF vars, startVars, CallInv, Creds
<1> QED BY <1>1, <1>2, <1>3, <1>4, <1>5 DEF Next

(* In every call an edge reads what the token says, zero and nothing       *)
(* elsewhere, and in every call of a run the same (rpc_register).          *)
THEOREM CallsSayWhatIsMeant == Spec => []EdgeReadsCreds
<1>1. Init => CallInv
  BY DEF Init, CallInv
<1>2. CallInv /\ [Next]_vars => CallInv'
  BY NextCall
<1>3. CallInv => EdgeReadsCreds
  BY EdgeReadsParams DEF CallInv, EdgeReadsCreds, Said
<1> QED BY <1>1, <1>2, <1>3, PTL DEF Spec

-----------------------------------------------------------------------------
(* What the client makes of an answer.                                     *)

LEMMA TagsDiffer ==
  /\ TagBits(0) # TagBits(1)
  /\ TagBits(2) # TagBits(0)
  /\ TagBits(2) # TagBits(1)
<1>1. 2^0 = 1 /\ 2^1 = 2
  BY SMT
<1>2. \A n \in 0 .. 2 : /\ 0 \in TagBits(n) <=> n % 2 = 1
                        /\ 1 \in TagBits(n) <=> (n \div 2) % 2 = 1
  BY <1>1 DEF TagBits
<1>3. /\ 0 \notin TagBits(0) /\ 0 \in TagBits(1)
      /\ 1 \in TagBits(2) /\ 1 \notin TagBits(0) /\ 1 \notin TagBits(1)
  BY <1>2
<1> QED BY <1>3

(* The number in the place of the tag is read as it was written.           *)
LEMMA TagRead ==
  ASSUME NEW w \in 1 .. 2, NEW p, NEW tag
  PROVE  LET s == SetNumber(NewStruct(w, p), TagField, TagBits(tag))
         IN  /\ IsRecord(s) /\ s.words = w /\ DOMAIN s.slots = 0 .. p - 1
             /\ GetNumber(s, TagField) = TagBits(tag)
<1> DEFINE s == SetNumber(NewStruct(w, p), TagField, TagBits(tag))
<1>1. TagField.at = 0 /\ TagField.width = 16 /\ TagField.section = "data"
  BY DEF TagField, U16, Field
<1>2. /\ s.words = w /\ IsRecord(s) /\ DOMAIN s.slots = 0 .. p - 1
      /\ s.bits = {} \cup {0 + b : b \in TagBits(tag)}
  <2> DEFINE n == NewStruct(w, p)
             v == {TagField.at + b : b \in TagBits(tag)}
  <2>1. n = [words |-> w, bits |-> {}, slots |-> [i \in 0 .. p - 1 |-> Null]]
    BY DEF NewStruct
  <2>2. s = [n EXCEPT !.bits = (@ \ Span(TagField)) \cup v]
    BY DEF SetNumber
  <2>3. s = [words |-> w, bits |-> ({} \ Span(TagField)) \cup v,
             slots |-> [i \in 0 .. p - 1 |-> Null]]
    <3> HIDE DEF s, n, v
    <3> QED BY <2>1, <2>2
  <2>4. v = {0 + b : b \in TagBits(tag)}
    BY <1>1
  <2> HIDE DEF s, v, n
  <2> QED BY <2>3, <2>4 DEF IsRecord
<1>3. \A b \in 0 .. 15 : 0 + b \in s.bits <=> b \in TagBits(tag)
  BY <1>2 DEF TagBits
<1>4. Fits(s, TagField)
  BY <1>1, <1>2 DEF Fits
<1>5. GetNumber(s, TagField) = {b \in 0 .. 15 : 0 + b \in s.bits}
  BY <1>1, <1>4 DEF GetNumber
<1>6. TagBits(tag) \subseteq 0 .. 15
  BY DEF TagBits
<1> QED BY <1>2, <1>3, <1>5, <1>6

LEMMA ResponseReads ==
  ASSUME NEW tag, NEW member, NEW w \in 1 .. 2, NEW p \in 1 .. 2
  PROVE  LET r == Response(tag, member, w, p).content
         IN  /\ Response(tag, member, w, p) = Pointee("struct", r)
             /\ GetNumber(r, TagField) = TagBits(tag)
             /\ 0 \in DOMAIN r.slots /\ r.slots[0] = member
<1> DEFINE s == SetNumber(NewStruct(w, p), TagField, TagBits(tag))
           r == Set(s, Struct(0), member)
<1>1. IsRecord(s) /\ s.words = w /\ 0 \in DOMAIN s.slots /\ GetNumber(s, TagField) = TagBits(tag)
  BY TagRead
<1>2. IsPointer(Struct(0), 0, "struct")
  BY PointerFields
<1>3. /\ r.words = s.words /\ r.bits = s.bits /\ DOMAIN r.slots = DOMAIN s.slots
      /\ r.slots[0] = member
  BY <1>1, <1>2, PutPointer DEF IsPointer
<1>4. GetNumber(r, TagField) = GetNumber(s, TagField)
  <2>1. TagField.section = "data"
    BY DEF TagField, U16, Field
  <2> QED BY <1>3, <2>1 DEF GetNumber, Fits
<1>5. Response(tag, member, w, p) = Pointee("struct", r)
  BY DEF Response
<1>6. Pointee("struct", r).content = r
  BY DEF Pointee
<1> QED BY <1>1, <1>3, <1>4, <1>5, <1>6

LEMMA ResultsRead ==
  ASSUME NEW x
  PROVE  GetPointer(Results(x), RegisterConnectionResultsReader.result)
           = IF x.type \in {"null", "struct"} THEN x ELSE WrongType
<1> DEFINE s == NewStruct(0, 1)
           r == Set(s, Struct(0), x)
<1>1. IsRecord(s) /\ 0 \in DOMAIN s.slots
  BY NewIsEmpty
<1>2. IsPointer(Struct(0), 0, "struct")
  BY PointerFields
<1>3. 0 \in DOMAIN r.slots /\ r.slots[0] = x
  BY <1>1, <1>2, PutPointer DEF IsPointer
<1>4. Results(x) = r /\ RegisterConnectionResultsReader.result = Struct(0)
  BY DEF Results, RegisterConnectionResultsReader
<1> QED BY <1>2, <1>3, <1>4 DEF GetPointer, Fits, IsPointer

LEMMA UnionMembers ==
  LET error == ConnectionResponseReader.error
      details == ConnectionResponseReader.connection_details
  IN  /\ IsPointer([error EXCEPT !.tag = NoTag], 0, "struct") /\ error.tag = 0
      /\ IsPointer([details EXCEPT !.tag = NoTag], 0, "struct") /\ details.tag = 1
      /\ error.section = "pointers" /\ error.at = 0 /\ error.type = "struct"
      /\ details.section = "pointers" /\ details.at = 0 /\ details.type = "struct"
BY DEF ConnectionResponseReader, Member, Struct, Field, IsPointer, NoTag

(* A response of the edge is what its tag and its member make it.          *)
LEMMA ResponseResult ==
  ASSUME NEW tag \in 0 .. 2, NEW member, NEW w \in 1 .. 2, NEW p \in 1 .. 2
  PROVE  LET result == Result(Results(Response(tag, member, w, p)))
         IN  /\ tag # 1 => result.kind # "registered"
             /\ member.type \notin {"null", "struct"} => result.kind # "registered"
             /\ tag = 1 /\ member.type = "struct" =>
                  result = Registered(LET t == GetPointer(member.content,
                                                 ConnectionDetailsReader.location_name)
                                      IN  IF t = WrongType THEN <<"unknown">> ELSE t.content)
<1> DEFINE x == Response(tag, member, w, p)
           r == x.content
           results == Results(x)
           error == ConnectionResponseReader.error
           details == ConnectionResponseReader.connection_details
<1>1. /\ x = Pointee("struct", r) /\ x.type = "struct"
      /\ GetNumber(r, TagField) = TagBits(tag)
      /\ 0 \in DOMAIN r.slots /\ r.slots[0] = member
  BY ResponseReads DEF Pointee
<1>2. GetPointer(results, RegisterConnectionResultsReader.result) = x
  BY <1>1, ResultsRead
<1>3. Sub(results, RegisterConnectionResultsReader.result) = r /\ x # WrongType
  BY <1>1, <1>2 DEF Sub, WrongType, Pointee
<1>4. /\ IsPresent(r, error) <=> TagBits(tag) = TagBits(0)
      /\ IsPresent(r, details) <=> TagBits(tag) = TagBits(1)
  BY <1>1, UnionMembers DEF IsPresent, NoTag
<1>5. /\ IsPresent(r, error) <=> tag = 0
      /\ IsPresent(r, details) <=> tag = 1
  <2>1. CASE tag = 0
    BY <1>4, <2>1, TagsDiffer
  <2>2. CASE tag = 1
    BY <1>4, <2>2, TagsDiffer
  <2>3. CASE tag = 2
    BY <1>4, <2>3, TagsDiffer
  <2> QED BY <2>1, <2>2, <2>3
<1>6. GetPointer(r, details) = IF member.type \in {"null", "struct"} THEN member ELSE WrongType
  BY <1>1, UnionMembers DEF GetPointer, Fits
<1>7. Result(results) =
        IF tag = 0
        THEN IF GetPointer(r, error) = WrongType THEN Failed("error", <<>>)
             ELSE Failed("rejected", TextOf(r, error, ConnectionErrorReader.cause))
        ELSE IF tag # 1 THEN Failed("which", <<>>)
        ELSE IF GetPointer(r, details) = WrongType THEN Failed("details", <<>>)
        ELSE Registered(TextOf(r, details, ConnectionDetailsReader.location_name))
  BY <1>2, <1>3, <1>5 DEF Result
<1>8. \A text : /\ Failed("error", text).kind # "registered"
                /\ Failed("rejected", text).kind # "registered"
                /\ Failed("which", text).kind # "registered"
                /\ Failed("details", text).kind # "registered"
  BY DEF Failed
<1>9. tag # 1 => Result(results).kind # "registered"
  BY <1>7, <1>8
<1>10. member.type \notin {"null", "struct"} => Result(results).kind # "registered"
  BY <1>6, <1>7, <1>8
<1>11. ASSUME tag = 1, member.type = "struct"
       PROVE  Result(results) = Registered(TextOf(r, details, ConnectionDetailsReader.location_name))
              /\ Sub(r, details) = member.content
  <2>1. GetPointer(r, details) = member
    BY <1>6, <1>11
  <2>2. member # WrongType
    BY <1>11 DEF WrongType, Pointee
  <2> QED BY <1>7, <1>11, <2>1, <2>2 DEF Sub
<1> QED BY <1>9, <1>10, <1>11 DEF TextOf

(* The location in the details of an acceptance.                           *)
LEMMA LocationRead ==
  ASSUME NEW location, NEW slots \in 1 .. 3
  PROVE  LET member == Details(location, slots)
             t == GetPointer(member.content, ConnectionDetailsReader.location_name)
         IN  /\ member.type = "struct" /\ t # WrongType
             /\ t.content = IF slots < 2 THEN <<>> ELSE location
<1> DEFINE s == NewStruct(1, slots)
           name == ConnectionDetailsReader.location_name
<1>1. /\ IsRecord(s) /\ DOMAIN s.slots = 0 .. slots - 1
  BY NewIsEmpty
<1>2. name = Text(1) /\ IsPointer(Text(1), 1, "text")
  BY PointerFields DEF ConnectionDetailsReader
<1>3. CASE slots < 2
  <2>1. Details(location, slots) = Pointee("struct", s)
    BY <1>3 DEF Details
  <2>2. ~Fits(s, name)
    BY <1>1, <1>2, <1>3 DEF Fits, IsPointer
  <2> QED BY <1>3, <2>1, <2>2 DEF GetPointer, Null, WrongType, Pointee
<1>4. CASE ~(slots < 2)
  <2> DEFINE r == Set(s, Text(1), Pointee("text", location))
  <2>1. Details(location, slots) = Pointee("struct", r)
    BY <1>4 DEF Details
  <2>2. 1 \in DOMAIN s.slots
    BY <1>1, <1>4
  <2>3. 1 \in DOMAIN r.slots /\ r.slots[1] = Pointee("text", location)
    BY <1>1, <1>2, <2>2, PutPointer DEF IsPointer
  <2>4. GetPointer(r, name) = Pointee("text", location)
    BY <1>2, <2>3 DEF GetPointer, Fits, Pointee, IsPointer
  <2> QED BY <1>4, <2>1, <2>4 DEF WrongType, Pointee
<1> QED BY <1>3, <1>4

LEMMA AcceptanceResult ==
  ASSUME NEW location, NEW slots \in 1 .. 3
  PROVE  Result(Results(Response(1, Details(location, slots), 1, 1)))
           = Registered(IF slots < 2 THEN <<>> ELSE location)
<1> DEFINE member == Details(location, slots)
           results == Results(Response(1, member, 1, 1))
           text == IF slots < 2 THEN <<>> ELSE location
           t == GetPointer(member.content, ConnectionDetailsReader.location_name)
<1>1. member.type = "struct" /\ t # WrongType /\ t.content = text
  BY LocationRead
<1>2. 1 \in 0 .. 2 /\ 1 \in 1 .. 2
  OBVIOUS
<1>3. member.type = "struct" =>
        Result(results) = Registered(IF t = WrongType THEN <<"unknown">> ELSE t.content)
  BY <1>2, ResponseResult, Zenon
<1> HIDE DEF results, text, t, member
<1>4. Result(results) = Registered(text)
  BY <1>1, <1>3
<1> QED BY <1>4 DEF results, text, member

-----------------------------------------------------------------------------
(* What an outcome has to do with what the edge decided.                   *)
Sound(o) ==
  /\ o.kind = "registered" <=> verdict.kind = "accepted"
  /\ o.kind = "registered" => o.text = verdict.text /\ SecretDecodes(Creds.s)

(* What HandleReply is about to make of the reply.                         *)
OutcomeToBe ==
  IF reply.kind = "results" THEN Result(reply.results) ELSE Failed(reply.kind, <<>>)

AnswerInv ==
  /\ Creds.s.bytes # <<>>
  /\ reply # NoReply => call # NoCall /\ Sound(OutcomeToBe)
  /\ call = NoCall => Sound(outcome)

LEMMA StartAnswers ==
  ASSUME Init PROVE AnswerInv
<1>1. Creds.s.bytes # <<>>
  BY RegistrationAssumption DEF Init, StartInit, Creds
<1>2. Sound(outcome)
  BY DEF Init, Sound, Pending, NoVerdict
<1> QED BY <1>1, <1>2 DEF Init, AnswerInv

LEMMA UnchangedAnswers ==
  ASSUME AnswerInv, args' = args, UNCHANGED <<call, reply, verdict, outcome>>
  PROVE  AnswerInv'
BY DEF AnswerInv, Sound, OutcomeToBe, Creds

LEMMA ControlStreamAnswers ==
  ASSUME AnswerInv, ControlStream PROVE AnswerInv'
<1>1. /\ args' = args /\ reply = NoReply /\ reply' = NoReply
      /\ verdict' = verdict /\ verdict.kind # "accepted"
  BY DEF ControlStream, AnswerInv, startVars, Sound
<1>2. outcome'.kind # "registered"
  BY DEF ControlStream, Failed, Pending
<1> QED BY <1>1, <1>2 DEF AnswerInv, Sound, Creds

LEMMA HandleReplyAnswers ==
  ASSUME AnswerInv, HandleReply PROVE AnswerInv'
<1>1. /\ args' = args /\ verdict' = verdict /\ reply' = NoReply
      /\ outcome' = OutcomeToBe /\ Sound(OutcomeToBe)
  BY DEF HandleReply, AnswerInv, startVars, OutcomeToBe
<1> QED BY <1>1 DEF AnswerInv, Sound, Creds

(* Only a secret that decodes is what the edge has to read.                *)
LEMMA EdgeAcceptsAnswers ==
  ASSUME AnswerInv, CallInv, EdgeAccepts PROVE AnswerInv'
<1>1. /\ args' = args /\ call' = call /\ call # NoCall
      /\ EdgeReads(call).tunnel_secret = Creds.s.bytes
  BY DEF EdgeAccepts, Waiting, Answered, startVars
<1>2. SecretDecodes(Creds.s)
  <2>1. EdgeReads(call).tunnel_secret = SecretBytes(Creds.s)
    BY <1>1, EdgeReadsParams DEF CallInv
  <2> QED BY <1>1, <2>1 DEF SecretBytes, AnswerInv
<1>3. PICK location \in Locations, slots \in 1 .. 3 :
        Answered("accepted", IF slots < 2 THEN <<>> ELSE location,
                 Results(Response(1, Details(location, slots), 1, 1)))
  BY DEF EdgeAccepts
<1> DEFINE results == Results(Response(1, Details(location, slots), 1, 1))
           text == IF slots < 2 THEN <<>> ELSE location
<1>4. /\ reply' = [kind |-> "results", results |-> results]
      /\ verdict' = [kind |-> "accepted", text |-> text]
  BY <1>3 DEF Answered
<1>5. Result(results) = Registered(text)
  BY AcceptanceResult
<1> HIDE DEF results, text
<1>6. OutcomeToBe' = Registered(text)
  BY <1>4, <1>5 DEF OutcomeToBe
<1>7. Sound(OutcomeToBe)'
  BY <1>1, <1>2, <1>4, <1>6 DEF Sound, Registered, Creds
<1> QED BY <1>1, <1>7 DEF AnswerInv, Creds

(* An answer that is no acceptance.                                        *)
LEMMA OtherAnswers ==
  ASSUME AnswerInv, Waiting, NEW kind, NEW text, NEW results, kind # "accepted",
         Answered(kind, text, results), Result(results).kind # "registered"
  PROVE  AnswerInv'
<1>1. /\ args' = args /\ call' = call /\ call # NoCall
      /\ reply' = [kind |-> "results", results |-> results]
      /\ verdict' = [kind |-> kind, text |-> text]
  BY DEF Waiting, Answered, startVars
<1>2. Sound(OutcomeToBe)'
  BY <1>1 DEF Sound, OutcomeToBe
<1> QED BY <1>1, <1>2 DEF AnswerInv, Creds

LEMMA NotRegistered ==
  ASSUME NEW tag \in 0 .. 2, NEW member, NEW w \in 1 .. 2, NEW p \in 1 .. 2,
         tag # 1 \/ member.type \notin {"null", "struct"}
  PROVE  Result(Results(Response(tag, member, w, p))).kind # "registered"
BY ResponseResult, Zenon

LEMMA NoStructResults ==
  /\ Result(Results(NoStruct)).kind # "registered"
  /\ Result(Results(Null)).kind # "registered"
<1>1. GetPointer(Results(NoStruct), RegisterConnectionResultsReader.result) = WrongType
  BY ResultsRead DEF NoStruct, Pointee
<1>2. Result(Results(NoStruct)).kind # "registered"
  BY <1>1 DEF Result, Failed
<1>3. GetPointer(Results(Null), RegisterConnectionResultsReader.result) = Null
  BY ResultsRead DEF Null, Pointee
<1>4. Sub(Results(Null), RegisterConnectionResultsReader.result) = NewStruct(0, 0)
  BY <1>3 DEF Sub, Null, Pointee
<1>5. GetNumber(NewStruct(0, 0), TagField) = {}
  BY NewIsEmpty, ReadZero
<1>6. ~IsPresent(NewStruct(0, 0), ConnectionResponseReader.connection_details)
  <2>1. 0 \in TagBits(1)
    <3>1. 2^0 = 1
      BY SMT
    <3> QED BY <3>1 DEF TagBits
  <2> QED BY <1>5, <2>1, UnionMembers DEF IsPresent, NoTag
<1>7. GetPointer(Results(Null), RegisterConnectionResultsReader.result) # WrongType
  BY <1>3 DEF Null, WrongType, Pointee
<1> QED BY <1>2, <1>4, <1>6, <1>7 DEF Result, Failed

LEMMA EdgeRejectsAnswers ==
  ASSUME AnswerInv, EdgeRejects PROVE AnswerInv'
<1>1. Waiting
  BY DEF EdgeRejects
<1>2. ASSUME NEW c \in Causes, NEW words \in 1 .. 2, NEW slots \in 1 .. 2,
             Answered("rejected", c, Results(Response(0, Error(c), words, slots)))
      PROVE  AnswerInv'
  <2>1. Result(Results(Response(0, Error(c), words, slots))).kind # "registered"
    BY NotRegistered
  <2> QED BY <1>1, <1>2, <2>1, OtherAnswers
<1>3. CASE \/ Answered("rejected", <<>>, Results(Response(0, Null, 1, 1)))
           \/ Answered("unknown", <<>>, Results(Response(2, Null, 1, 1)))
  <2>1. /\ Result(Results(Response(0, Null, 1, 1))).kind # "registered"
        /\ Result(Results(Response(2, Null, 1, 1))).kind # "registered"
    BY NotRegistered
  <2> QED BY <1>1, <1>3, <2>1, OtherAnswers
<1>4. ASSUME NEW tag \in 0 .. 1,
             Answered("malformed", <<>>, Results(Response(tag, NoStruct, 1, 1)))
      PROVE  AnswerInv'
  <2>1. NoStruct.type \notin {"null", "struct"}
    BY DEF NoStruct, Pointee
  <2>2. Result(Results(Response(tag, NoStruct, 1, 1))).kind # "registered"
    BY <2>1, NotRegistered
  <2> QED BY <1>1, <1>4, <2>2, OtherAnswers
<1>5. CASE \/ Answered("malformed", <<>>, Results(NoStruct))
           \/ Answered("empty", <<>>, Results(Null))
  BY <1>1, <1>5, NoStructResults, OtherAnswers
<1> QED BY <1>2, <1>3, <1>4, <1>5 DEF EdgeRejects

LEMMA EdgeBreaksAnswers ==
  ASSUME AnswerInv, EdgeBreaks PROVE AnswerInv'
<1>1. PICK kind \in {"exception", "rpc_ended"} : reply' = [kind |-> kind]
  BY DEF EdgeBreaks
<1>2. args' = args /\ call' = call /\ call # NoCall /\ verdict' = NoVerdict
  BY DEF EdgeBreaks, Waiting, startVars
<1>3. Sound(OutcomeToBe)'
  BY <1>1, <1>2 DEF Sound, OutcomeToBe, Failed, NoVerdict
<1> QED BY <1>2, <1>3 DEF AnswerInv, Creds

LEMMA NextAnswers ==
  ASSUME AnswerInv, CallInv, [Next]_vars PROVE AnswerInv'
<1>1. CASE StartNext /\ UNCHANGED <<call, reply, verdict, outcome>>
  <2>1. args' = args
    BY <1>1 DEF StartNext, OtherCommand, Decode, LookForConfig, LoadConfig, LookupAny,
                Lookup, EditConfig
  <2> QED BY <1>1, <2>1, UnchangedAnswers
<1>2. CASE UNCHANGED vars
  BY <1>2, UnchangedAnswers DEF vars, startVars
<1> QED BY <1>1, <1>2, ControlStreamAnswers, HandleReplyAnswers, EdgeAcceptsAnswers,
           EdgeRejectsAnswers, EdgeBreaksAnswers DEF Next

(* The program takes itself for registered exactly when the edge accepted  *)
(* the very call it made, at the place that the edge named, and with a     *)
(* secret that decodes, whatever else edges answer (rpc_register).         *)
THEOREM OnlyAcceptanceRegisters == Spec => []RegisteredMeansAccepted
<1>1. Init => AnswerInv /\ CallInv
  BY StartAnswers DEF Init, CallInv
<1>2. AnswerInv /\ CallInv /\ [Next]_vars => AnswerInv' /\ CallInv'
  BY NextAnswers, NextCall
<1>3. AnswerInv => RegisteredMeansAccepted
  BY DEF AnswerInv, Sound, RegisteredMeansAccepted
<1> QED BY <1>1, <1>2, <1>3, PTL DEF Spec

-----------------------------------------------------------------------------
(* The kinds of answers, verdicts and outcomes.                            *)
KindsOK ==
  /\ reply # NoReply => call # NoCall /\ reply.kind \in {"results", "exception", "rpc_ended"}
  /\ verdict.kind \in {"none", "accepted", "rejected", "unknown", "malformed", "empty"}
  /\ outcome.kind \in {"pending", "registered", "bad_uuid", "get_result", "error",
                       "rejected", "which", "details", "exception", "rpc_ended"}

LEMMA ResultKind ==
  ASSUME NEW results
  PROVE  Result(results).kind \in
           {"registered", "get_result", "error", "rejected", "which", "details"}
<1>1. \A why, text : Failed(why, text).kind = why /\ Registered(text).kind = "registered"
  BY DEF Failed, Registered
<1> QED BY <1>1 DEF Result

LEMMA AnsweredKinds ==
  ASSUME KindsOK, Waiting, NEW kind, NEW text, NEW results, Answered(kind, text, results),
         kind \in {"accepted", "rejected", "unknown", "malformed", "empty"}
  PROVE  KindsOK'
BY DEF KindsOK, Waiting, Answered

LEMMA NextKinds ==
  ASSUME KindsOK, [Next]_vars PROVE KindsOK'
<1>1. CASE UNCHANGED <<call, reply, verdict, outcome>>
  BY <1>1 DEF KindsOK
<1>2. CASE ControlStream
  BY <1>2 DEF ControlStream, KindsOK, Failed, Pending
<1>3. CASE HandleReply
  <2>1. reply.kind \in {"results", "exception", "rpc_ended"}
    BY <1>3 DEF HandleReply, KindsOK
  <2>2. CASE reply.kind = "results"
    <3>1. outcome' = Result(reply.results)
      BY <1>3, <2>2 DEF HandleReply
    <3> QED BY <1>3, <3>1, ResultKind DEF HandleReply, KindsOK
  <2>3. CASE reply.kind # "results"
    BY <1>3, <2>1, <2>3 DEF HandleReply, KindsOK, Failed
  <2> QED BY <2>2, <2>3
<1>4. CASE EdgeAccepts
  <2>1. Waiting
    BY <1>4 DEF EdgeAccepts
  <2>2. \E text, results : Answered("accepted", text, results)
    BY <1>4 DEF EdgeAccepts
  <2> QED BY <2>1, <2>2, AnsweredKinds
<1>5. CASE EdgeRejects
  <2>1. Waiting
    BY <1>5 DEF EdgeRejects
  <2>2. \E kind \in {"rejected", "unknown", "malformed", "empty"} : \E text, results :
          Answered(kind, text, results)
    BY <1>5 DEF EdgeRejects
  <2> QED BY <2>1, <2>2, AnsweredKinds
<1>6. CASE EdgeBreaks
  BY <1>6 DEF EdgeBreaks, Waiting, KindsOK, NoVerdict
<1> QED BY <1>1, <1>2, <1>3, <1>4, <1>5, <1>6 DEF Next, vars

(* The variables keep their types; a call waits only at a program that is  *)
(* ready, and every answer is to one.                                      *)
THEOREM TypeCorrect == Spec => []TypeOK
<1>1. Init => SetUpInv /\ CallInv /\ KindsOK
  <2>1. Init => CallInv
    BY DEF Init, CallInv
  <2>2. Init => KindsOK
    BY DEF Init, KindsOK, NoVerdict, Pending
  <2> QED BY <2>1, <2>2, StartsSetUp DEF Init
<1>2. SetUpInv /\ CallInv /\ KindsOK /\ [Next]_vars => SetUpInv' /\ CallInv' /\ KindsOK'
  BY NextSetUp, NextCall, NextKinds
<1>3. SetUpInv /\ CallInv /\ KindsOK => TypeOK
  <2>1. SetUpInv /\ CallInv => (call # NoCall => pc = "ready" /\ client # NoClient)
    BY StartupAssumption DEF SetUpInv, AddrInv, CallInv
  <2>2. KindsOK => reply.kind \in {"none", "results", "exception", "rpc_ended"}
    BY DEF KindsOK, NoReply
  <2> QED BY <2>1, <2>2 DEF TypeOK, SetUpInv, KindsOK
<1> QED BY <1>1, <1>2, <1>3, PTL DEF Spec

-----------------------------------------------------------------------------
(* The code beside the generated one (capnp_params.rs, capnp_rpc.rs).      *)

PutAt(s, f, content) == Set(s, f, Pointee(f.type, content))

(* capnp_params.rs fills in the same struct.                               *)
LEMMA FillersAgree ==
  ASSUME NEW a, NEW s, NEW t, NEW c
  PROVE  FillRegisterConnection(a, s, t, c) = FillParams(a, s, t, c)
<1> DEFINE auth == PutAt(PutAt(NewStruct(0, 2), Text(0), a), Bytes(1), s)
           info == PutAt(PutAt(PutAt(PutAt(NewStruct(0, 4), Bytes(0), c),
                                     List(1), Features), Text(2), Version), Text(3), Arch)
           opts(o) == PutAt(o, Struct(0), info)
           params(p) == PutAt(PutAt(PutAt(p, Struct(0), auth), Bytes(1), t),
                              Struct(2), opts(NewStruct(1, 2)))
<1>1. AuthOf(a, s) = auth
  BY DEF AuthOf, PutAt, Put, New, TunnelAuthBuilder, Builder
<1>2. InfoOf(c) = info
  BY DEF InfoOf, PutAt, Put, New, ClientInfoBuilder, Builder
<1>3. \A n, w, p : PutAt(NewStruct(w, p), U8(n), {}) = NewStruct(w, p)
  <2>1. \A n : U8(n).section = "data" /\ U8(n).tag = NoTag
    BY DEF U8, Field
  <2> QED BY <2>1, NewIsEmpty, PutZero DEF PutAt
<1> HIDE DEF auth, info
<1>4. OptionsOf(InfoOf(c)) = opts(NewStruct(1, 2))
  <2>1. OptionsOf(InfoOf(c)) = opts(PutAt(NewStruct(1, 2), U8(2), {}))
    BY <1>2 DEF OptionsOf, PutAt, Put, New, ConnectionOptionsBuilder, Builder
  <2> QED BY <1>3, <2>1
<1> DEFINE p2 == PutAt(PutAt(NewStruct(1, 3), Struct(0), auth), Bytes(1), t)
<1>5. PutAt(p2, U8(0), {}) = p2
  <2> DEFINE s0 == NewStruct(1, 3)
             s1 == PutAt(s0, Struct(0), auth)
  <2>1. IsRecord(s0) /\ s0.bits = {} /\ 0 \in DOMAIN s0.slots /\ 1 \in DOMAIN s0.slots
    BY NewIsEmpty
  <2>2. IsPointer(Struct(0), 0, "struct") /\ IsPointer(Bytes(1), 1, "data")
    BY PointerFields
  <2>3. IsRecord(s1) /\ s1.bits = {} /\ 1 \in DOMAIN s1.slots
    BY <2>1, <2>2, PutPointer DEF PutAt, IsPointer
  <2>4. IsRecord(p2) /\ p2.bits = {}
    BY <2>2, <2>3, PutPointer DEF PutAt, IsPointer
  <2>5. U8(0).section = "data" /\ U8(0).tag = NoTag
    BY DEF U8, Field
  <2> HIDE DEF p2
  <2> QED BY <2>4, <2>5, PutZero DEF PutAt
<1>6. FillParams(a, s, t, c) = params(NewStruct(1, 3))
  <2> DEFINE o == OptionsOf(InfoOf(c))
  <2>1. ParamsOf(auth, t, o) = PutAt(PutAt(p2, U8(0), {}), Struct(2), o)
    BY DEF ParamsOf, PutAt, Put, New, RegisterConnectionParamsBuilder, Builder
  <2> QED BY <1>1, <1>4, <1>5, <2>1, FilledParams
<1>7. FillRegisterConnection(a, s, t, c) = params(NewStruct(1, 3))
  <2>1. FillRegisterConnection(a, s, t, c)
          = PutAt(PutAt(PutAt(PutAt(NewStruct(1, 3), U8(0), {}), Struct(0), auth),
                        Bytes(1), t),
                  Struct(2), opts(PutAt(NewStruct(1, 2), U8(4), {})))
    BY DEF FillRegisterConnection, PutAt, auth, info
  <2> QED BY <1>3, <2>1
<1> QED BY <1>6, <1>7

(* Induction over the naturals, for a set in place of a predicate.         *)
LEMMA SetInduction ==
  ASSUME NEW S, 0 \in S, \A n \in Nat : n \in S => n + 1 \in S
  PROVE  \A n \in Nat : n \in S
<1> DEFINE R == OpToRel(<, Nat)
<1> DEFINE T == Nat \ S
<1> SUFFICES ASSUME T # {} PROVE FALSE
  OBVIOUS
<1>1. IsWellFoundedOn(R, Nat)
  BY NatLessThanWellFounded DEF R
<1>2. PICK m \in T : \A k \in T : ~(<<k, m>> \in R)
  <2> HIDE DEF R
  <2>1. T \subseteq Nat
    OBVIOUS
  <2> QED BY <1>1, <2>1, WFMin
<1>3. m \in Nat /\ m # 0
  OBVIOUS
<1>4. m - 1 \in Nat /\ m - 1 < m /\ (m - 1) + 1 = m
  BY <1>3
<1>5. m - 1 \notin T
  BY <1>2, <1>3, <1>4 DEF OpToRel
<1> QED BY <1>3, <1>4, <1>5

-----------------------------------------------------------------------------
(* Segments.                                                               *)

LEMMA Over ==
  ASSUME NEW f, NEW g
  PROVE  /\ DOMAIN (f ## g) = DOMAIN f \cup DOMAIN g
         /\ \A w \in DOMAIN f : (f ## g)[w] = f[w]
         /\ \A w \in DOMAIN g : w \notin DOMAIN f => (f ## g)[w] = g[w]
<1>1. (f ## g) = Laid(f, g)
  BY DEF ##
<1>2. DOMAIN Laid(f, g) = DOMAIN f \cup DOMAIN g
  BY DEF Laid
<1>3. \A w \in DOMAIN f : Laid(f, g)[w] = f[w]
  BY DEF Laid
<1>4. \A w \in DOMAIN g : w \notin DOMAIN f => Laid(f, g)[w] = g[w]
  BY DEF Laid
<1> QED BY <1>1, <1>2, <1>3, <1>4

LEMMA One ==
  ASSUME NEW w, NEW v PROVE DOMAIN Word(w, v) = {w} /\ Word(w, v)[w] = v
BY DEF Word

LEMMA SizeOf ==
  ASSUME NEW seg, NEW n \in Nat, DOMAIN seg = 0 .. n - 1
  PROVE  /\ Size(seg) = n
         /\ \A w \in Nat : /\ DOMAIN At(w, seg) = w .. w + n - 1
                           /\ \A i \in 0 .. n - 1 : At(w, seg)[w + i] = seg[i]
<1>1. Size(seg) = n
  <2>1. Cardinality(0 .. n - 1) = n
    BY FS_Interval
  <2> QED BY <2>1 DEF Size
<1> QED BY <1>1 DEF At

LEMMA BlankWords ==
  ASSUME NEW n \in Nat
  PROVE  DOMAIN Blank(n) = 0 .. n - 1 /\ \A w \in 0 .. n - 1 : Blank(n)[w] = Zero
BY DEF Blank

(* The words of a text lie where they are put.                             *)
LEMMA PlacedText ==
  ASSUME NEW w \in Nat, NEW text, Len(text) \in Nat
  PROVE  /\ DataWords(text) \in Nat
         /\ DOMAIN At(w, Bytes8(text)) = w .. w + DataWords(text) - 1
         /\ \A i \in 0 .. DataWords(text) - 1 : At(w, Bytes8(text))[w + i] = Bytes8(text)[i]
<1>1. DataWords(text) \in Nat
  BY DEF DataWords
<1>2. DOMAIN Bytes8(text) = 0 .. DataWords(text) - 1
  BY DEF Bytes8
<1> QED BY <1>1, <1>2, SizeOf

LEMMA WordsOf ==
  ASSUME NEW text, Len(text) \in Nat
  PROVE  /\ TextWords(text) \in Nat \ {0} /\ DataWords(text) \in Nat
         /\ DataWords(text) <= TextWords(text)
         /\ \A k \in 1 .. Len(text) : (k - 1) \div 8 \in 0 .. DataWords(text) - 1
BY DEF TextWords, DataWords

-----------------------------------------------------------------------------
(* The places of the texts of a list.                                      *)

IsPlaces(f, m, first, texts) ==
  f = [i \in 1 .. m |-> IF i = 1 THEN first ELSE f[i - 1] + TextWords(texts[i - 1])]

LEMMA PlacesExist ==
  ASSUME NEW first, NEW texts, NEW m \in Nat
  PROVE  \E f : IsPlaces(f, m, first, texts)
<1> DEFINE S == {n \in Nat : \E f : IsPlaces(f, n, first, texts)}
<1>1. 0 \in S
  <2> DEFINE g == [i \in 1 .. 0 |-> first]
  <2>1. IsPlaces(g, 0, first, texts)
    BY DEF IsPlaces
  <2> QED BY <2>1
<1>2. ASSUME NEW n \in Nat, n \in S PROVE n + 1 \in S
  <2>1. PICK f : IsPlaces(f, n, first, texts)
    BY <1>2
  <2> DEFINE g == [i \in 1 .. n + 1 |->
                     IF i = 1 THEN first ELSE f[i - 1] + TextWords(texts[i - 1])]
  <2>2. \A i \in 1 .. n : g[i] = f[i]
    BY <2>1 DEF IsPlaces
  <2>3. \A i \in 1 .. n + 1 :
          g[i] = IF i = 1 THEN first ELSE g[i - 1] + TextWords(texts[i - 1])
    <3> SUFFICES ASSUME NEW i \in 1 .. n + 1, i # 1
                 PROVE  g[i] = g[i - 1] + TextWords(texts[i - 1])
      OBVIOUS
    <3>1. i - 1 \in 1 .. n
      OBVIOUS
    <3> QED BY <2>2, <3>1
  <2>4. g = [i \in 1 .. n + 1 |-> g[i]]
    OBVIOUS
  <2> HIDE DEF g
  <2>5. IsPlaces(g, n + 1, first, texts)
    BY <2>3, <2>4 DEF IsPlaces
  <2> QED BY <2>5
<1> HIDE DEF S
<1>3. \A n \in Nat : n \in S
  BY <1>1, <1>2, SetInduction
<1> QED BY <1>3 DEF S

LEMMA PlacesEquation ==
  ASSUME NEW first, NEW texts, Len(texts) \in Nat
  PROVE  IsPlaces(Places(first, texts), Len(texts) + 1, first, texts)
<1> DEFINE m == Len(texts) + 1
<1>1. \E f : f = [i \in 1 .. m |->
                    IF i = 1 THEN first ELSE f[i - 1] + TextWords(texts[i - 1])]
  <2>1. m \in Nat
    OBVIOUS
  <2> HIDE DEF m
  <2>2. \E f : IsPlaces(f, m, first, texts)
    BY <2>1, PlacesExist
  <2> QED BY <2>2 DEF IsPlaces
<1>2. Places(first, texts) =
        CHOOSE f : f = [i \in 1 .. m |->
                          IF i = 1 THEN first ELSE f[i - 1] + TextWords(texts[i - 1])]
  BY DEF Places
<1> HIDE DEF m
<1>3. LET p == Places(first, texts)
      IN  p = [i \in 1 .. m |-> IF i = 1 THEN first ELSE p[i - 1] + TextWords(texts[i - 1])]
  BY <1>1, <1>2
<1> QED BY <1>3 DEF IsPlaces, m

(* They do not overlap.                                                    *)
LEMMA PlacesApart ==
  ASSUME NEW first \in Nat, NEW texts, Len(texts) \in Nat,
         \A i \in 1 .. Len(texts) : Len(texts[i]) \in Nat
  PROVE  LET p == Places(first, texts)
         IN  /\ p[1] = first
             /\ \A i \in 1 .. Len(texts) + 1 : p[i] \in Nat /\ first <= p[i]
             /\ \A i \in 1 .. Len(texts) : p[i + 1] = p[i] + TextWords(texts[i])
             /\ \A j \in 1 .. Len(texts) + 1 : \A i \in 1 .. j - 1 :
                  p[i] + TextWords(texts[i]) <= p[j]
<1> DEFINE p == Places(first, texts)
           n == Len(texts)
<1>1. \A i \in 1 .. n + 1 : p[i] = IF i = 1 THEN first ELSE p[i - 1] + TextWords(texts[i - 1])
  BY PlacesEquation DEF IsPlaces
<1>2. \A i \in 1 .. n : TextWords(texts[i]) \in Nat
  BY WordsOf
<1> HIDE DEF p
<1>3. \A i \in 1 .. n : p[i + 1] = p[i] + TextWords(texts[i])
  <2> SUFFICES ASSUME NEW i \in 1 .. n PROVE p[i + 1] = p[i] + TextWords(texts[i])
    OBVIOUS
  <2>1. i + 1 \in 1 .. n + 1 /\ i + 1 # 1 /\ (i + 1) - 1 = i
    OBVIOUS
  <2> QED BY <1>1, <2>1
<1>4. p[1] = first
  <2>1. 1 \in 1 .. n + 1
    OBVIOUS
  <2> QED BY <1>1, <2>1
<1> DEFINE Q(j) == j \in 1 .. n + 1 =>
                     /\ p[j] \in Nat /\ first <= p[j]
                     /\ \A i \in 1 .. j - 1 : p[i] \in Nat /\ p[i] + TextWords(texts[i]) <= p[j]
           S == {j \in Nat : Q(j)}
<1>5. 0 \in S
  OBVIOUS
<1>6. ASSUME NEW j \in Nat, j \in S PROVE j + 1 \in S
  <2> SUFFICES ASSUME j + 1 \in 1 .. n + 1 PROVE Q(j + 1)
    OBVIOUS
  <2>1. CASE j = 0
    BY <1>4, <2>1
  <2>2. CASE j # 0
    <3>1. j \in 1 .. n
      BY <2>2
    <3>2. p[j + 1] = p[j] + TextWords(texts[j]) /\ TextWords(texts[j]) \in Nat
      BY <1>2, <1>3, <3>1
    <3>3. /\ p[j] \in Nat /\ first <= p[j]
          /\ \A i \in 1 .. j - 1 : p[i] \in Nat /\ p[i] + TextWords(texts[i]) <= p[j]
      BY <1>6, <3>1
    <3>4. p[j + 1] \in Nat /\ first <= p[j + 1]
      BY <3>2, <3>3
    <3>5. ASSUME NEW i \in 1 .. (j + 1) - 1
          PROVE  p[i] \in Nat /\ p[i] + TextWords(texts[i]) <= p[j + 1]
      <4>1. CASE i = j
        BY <3>2, <3>3, <4>1
      <4>2. CASE i # j
        <5>1. i \in 1 .. j - 1 /\ i \in 1 .. n
          BY <3>1, <4>2
        <5>2. p[i] \in Nat /\ p[i] + TextWords(texts[i]) <= p[j] /\ TextWords(texts[i]) \in Nat
          BY <1>2, <3>3, <5>1
        <5> QED BY <3>2, <3>3, <5>2
      <4> QED BY <4>1, <4>2
    <3> QED BY <3>4, <3>5
  <2> QED BY <2>1, <2>2
<1>7. \A j \in Nat : j \in S
  <2> HIDE DEF S
  <2> QED BY <1>5, <1>6, SetInduction
<1>8. \A j \in 1 .. n + 1 : Q(j)
  <2>1. \A j \in 1 .. n + 1 : j \in Nat
    OBVIOUS
  <2> QED BY <1>7, <2>1
<1> QED BY <1>3, <1>4, <1>8 DEF p

(* A word beside others.                                                   *)
Adds(h, f, w, v) ==
  DOMAIN h = DOMAIN f \cup {w} /\ h[w] = v /\ \A x \in DOMAIN f : h[x] = f[x]

LEMMA Beside ==
  ASSUME NEW f, NEW w, NEW v, w \notin DOMAIN f
  PROVE  Adds(f ## Word(w, v), f, w, v)
<1> DEFINE g == Word(w, v)
<1>1. DOMAIN g = {w} /\ g[w] = v
  BY One
<1> HIDE DEF g
<1>2. /\ DOMAIN (f ## g) = DOMAIN f \cup DOMAIN g
      /\ \A x \in DOMAIN f : (f ## g)[x] = f[x]
      /\ \A x \in DOMAIN g : x \notin DOMAIN f => (f ## g)[x] = g[x]
  BY Over
<1>3. Adds(f ## g, f, w, v)
  BY <1>1, <1>2 DEF Adds
<1> QED BY <1>3 DEF g

Lies(seg, w, text) == \A i \in 0 .. DataWords(text) - 1 : seg[w + i] = Bytes8(text)[i]

IsList(seg, w, target, elem, count) ==
  seg[w] = [kind |-> "list", offset |-> target - w - 1, elem |-> elem, count |-> count]

IsStruct(seg, w, target, words, slots) ==
  seg[w] = [kind |-> "struct", offset |-> target - w - 1, words |-> words, slots |-> slots]

-----------------------------------------------------------------------------
ParamPointers(tunnel_w, tunnel, account_w, account, secret_w, secret, client_id_w, feat_list_w, n, version_w, version, arch_w, arch) ==
     StructPtr(1, 4, 0, 2)
  ## DataPtr(2, tunnel_w, Len(tunnel))
  ## StructPtr(3, 6, 1, 2)
  ## DataPtr(4, account_w, Len(account) + 1)
  ## DataPtr(4 + 1, secret_w, Len(secret))
  ## StructPtr(6 + 1, 9, 0, 4)
  ## DataPtr(9, client_id_w, 16)
  ## ListPtr(9 + 1, feat_list_w, "pointer", n)
  ## DataPtr(9 + 2, version_w, Len(version) + 1)
  ## DataPtr(9 + 3, arch_w, Len(arch) + 1)

LEMMA PointersPlaced ==
  ASSUME NEW tunnel_w, NEW tunnel, NEW account_w, NEW account, NEW secret_w, NEW secret,
         NEW client_id_w, NEW feat_list_w, NEW n, NEW version_w, NEW version, NEW arch_w,
         NEW arch
  PROVE  LET p == ParamPointers(tunnel_w, tunnel, account_w, account, secret_w, secret,
                                client_id_w, feat_list_w, n, version_w, version, arch_w, arch)
         IN  /\ DOMAIN p = {1, 2, 3, 4, 5, 7, 9, 10, 11, 12}
             /\ IsStruct(p, 1, 4, 0, 2)
             /\ IsList(p, 2, tunnel_w, "byte", Len(tunnel))
             /\ IsStruct(p, 3, 6, 1, 2)
             /\ IsList(p, 4, account_w, "byte", Len(account) + 1)
             /\ IsList(p, 5, secret_w, "byte", Len(secret))
             /\ IsStruct(p, 7, 9, 0, 4)
             /\ IsList(p, 9, client_id_w, "byte", 16)
             /\ IsList(p, 10, feat_list_w, "pointer", n)
             /\ IsList(p, 11, version_w, "byte", Len(version) + 1)
             /\ IsList(p, 12, arch_w, "byte", Len(arch) + 1)
<1> DEFINE struct(w, target, words, slots) ==
             [kind |-> "struct", offset |-> target - w - 1, words |-> words, slots |-> slots]
           list(w, target, elem, count) ==
             [kind |-> "list", offset |-> target - w - 1, elem |-> elem, count |-> count]
           p1 == Word(1, struct(1, 4, 0, 2))
           p2 == p1 ## Word(2, list(2, tunnel_w, "byte", Len(tunnel)))
           p3 == p2 ## Word(3, struct(3, 6, 1, 2))
           p4 == p3 ## Word(4, list(4, account_w, "byte", Len(account) + 1))
           p5 == p4 ## Word(5, list(5, secret_w, "byte", Len(secret)))
           p6 == p5 ## Word(7, struct(7, 9, 0, 4))
           p7 == p6 ## Word(9, list(9, client_id_w, "byte", 16))
           p8 == p7 ## Word(10, list(10, feat_list_w, "pointer", n))
           p9 == p8 ## Word(11, list(11, version_w, "byte", Len(version) + 1))
           p10 == p9 ## Word(12, list(12, arch_w, "byte", Len(arch) + 1))
<1>0. ParamPointers(tunnel_w, tunnel, account_w, account, secret_w, secret, client_id_w,
                    feat_list_w, n, version_w, version, arch_w, arch) = p10
  <2>1. 4 + 1 = 5 /\ 6 + 1 = 7 /\ 9 + 1 = 10 /\ 9 + 2 = 11 /\ 9 + 3 = 12
    OBVIOUS
  <2> QED BY <2>1 DEF ParamPointers, StructPtr, DataPtr, ListPtr
<1> HIDE DEF struct, list
<1>1. DOMAIN p1 = {1} /\ p1[1] = struct(1, 4, 0, 2)
  BY One
<1> HIDE DEF p1
<1>2. Adds(p2, p1, 2, list(2, tunnel_w, "byte", Len(tunnel))) /\ DOMAIN p2 = {1, 2}
  <2>1. 2 \notin DOMAIN p1
    BY <1>1
  <2>2. Adds(p2, p1, 2, list(2, tunnel_w, "byte", Len(tunnel)))
    BY <2>1, Beside, Zenon
  <2> QED BY <1>1, <2>2 DEF Adds
<1> HIDE DEF p2
<1>3. Adds(p3, p2, 3, struct(3, 6, 1, 2)) /\ DOMAIN p3 = {1, 2, 3}
  <2>1. 3 \notin DOMAIN p2
    BY <1>2
  <2>2. Adds(p3, p2, 3, struct(3, 6, 1, 2))
    BY <2>1, Beside, Zenon
  <2> QED BY <1>2, <2>2 DEF Adds
<1> HIDE DEF p3
<1>4. Adds(p4, p3, 4, list(4, account_w, "byte", Len(account) + 1)) /\ DOMAIN p4 = {1, 2, 3, 4}
  <2>1. 4 \notin DOMAIN p3
    BY <1>3
  <2>2. Adds(p4, p3, 4, list(4, account_w, "byte", Len(account) + 1))
    BY <2>1, Beside, Zenon
  <2> QED BY <1>3, <2>2 DEF Adds
<1> HIDE DEF p4
<1>5. Adds(p5, p4, 5, list(5, secret_w, "byte", Len(secret))) /\ DOMAIN p5 = {1, 2, 3, 4, 5}
  <2>1. 5 \notin DOMAIN p4
    BY <1>4
  <2>2. Adds(p5, p4, 5, list(5, secret_w, "byte", Len(secret)))
    BY <2>1, Beside, Zenon
  <2> QED BY <1>4, <2>2 DEF Adds
<1> HIDE DEF p5
<1>6. Adds(p6, p5, 7, struct(7, 9, 0, 4)) /\ DOMAIN p6 = {1, 2, 3, 4, 5, 7}
  <2>1. 7 \notin DOMAIN p5
    BY <1>5
  <2>2. Adds(p6, p5, 7, struct(7, 9, 0, 4))
    BY <2>1, Beside, Zenon
  <2> QED BY <1>5, <2>2 DEF Adds
<1> HIDE DEF p6
<1>7. Adds(p7, p6, 9, list(9, client_id_w, "byte", 16)) /\ DOMAIN p7 = {1, 2, 3, 4, 5, 7, 9}
  <2>1. 9 \notin DOMAIN p6
    BY <1>6
  <2>2. Adds(p7, p6, 9, list(9, client_id_w, "byte", 16))
    BY <2>1, Beside, Zenon
  <2> QED BY <1>6, <2>2 DEF Adds
<1> HIDE DEF p7
<1>8. Adds(p8, p7, 10, list(10, feat_list_w, "pointer", n)) /\ DOMAIN p8 = {1, 2, 3, 4, 5, 7, 9, 10}
  <2>1. 10 \notin DOMAIN p7
    BY <1>7
  <2>2. Adds(p8, p7, 10, list(10, feat_list_w, "pointer", n))
    BY <2>1, Beside, Zenon
  <2> QED BY <1>7, <2>2 DEF Adds
<1> HIDE DEF p8
<1>9. Adds(p9, p8, 11, list(11, version_w, "byte", Len(version) + 1)) /\ DOMAIN p9 = {1, 2, 3, 4, 5, 7, 9, 10, 11}
  <2>1. 11 \notin DOMAIN p8
    BY <1>8
  <2>2. Adds(p9, p8, 11, list(11, version_w, "byte", Len(version) + 1))
    BY <2>1, Beside, Zenon
  <2> QED BY <1>8, <2>2 DEF Adds
<1> HIDE DEF p9
<1>10. Adds(p10, p9, 12, list(12, arch_w, "byte", Len(arch) + 1)) /\ DOMAIN p10 = {1, 2, 3, 4, 5, 7, 9, 10, 11, 12}
  <2>1. 12 \notin DOMAIN p9
    BY <1>9
  <2>2. Adds(p10, p9, 12, list(12, arch_w, "byte", Len(arch) + 1))
    BY <2>1, Beside, Zenon
  <2> QED BY <1>9, <2>2 DEF Adds
<1> HIDE DEF p10
<1>11. /\ p10[1] = struct(1, 4, 0, 2) /\ p10[3] = struct(3, 6, 1, 2)
       /\ p10[7] = struct(7, 9, 0, 4)
       /\ p10[2] = list(2, tunnel_w, "byte", Len(tunnel))
       /\ p10[4] = list(4, account_w, "byte", Len(account) + 1)
       /\ p10[5] = list(5, secret_w, "byte", Len(secret))
       /\ p10[9] = list(9, client_id_w, "byte", 16)
       /\ p10[10] = list(10, feat_list_w, "pointer", n)
       /\ p10[11] = list(11, version_w, "byte", Len(version) + 1)
       /\ p10[12] = list(12, arch_w, "byte", Len(arch) + 1)
  BY <1>1, <1>2, <1>3, <1>4, <1>5, <1>6, <1>7, <1>8, <1>9, <1>10 DEF Adds
<1> QED BY <1>0, <1>10, <1>11 DEF IsStruct, IsList, struct, list

Layered(p, e, x, m, b) == p ## e ## x ## m ## b

IsLayered(s, p, e, x, m, b) ==
  /\ DOMAIN s = DOMAIN p \cup DOMAIN e \cup DOMAIN x \cup DOMAIN m \cup DOMAIN b
  /\ \A w \in DOMAIN p : s[w] = p[w]
  /\ \A w \in DOMAIN e : w \notin DOMAIN p => s[w] = e[w]
  /\ \A w \in DOMAIN x : w \notin DOMAIN p \cup DOMAIN e => s[w] = x[w]
  /\ \A w \in DOMAIN m : w \notin DOMAIN p \cup DOMAIN e \cup DOMAIN x => s[w] = m[w]
  /\ \A w \in DOMAIN b : w \notin DOMAIN p \cup DOMAIN e \cup DOMAIN x \cup DOMAIN m
                           => s[w] = b[w]

LEMMA Layers ==
  ASSUME NEW p, NEW e, NEW x, NEW m, NEW b
  PROVE  IsLayered(Layered(p, e, x, m, b), p, e, x, m, b)
<1> DEFINE s1 == p ## e
           s2 == s1 ## x
           s3 == s2 ## m
           s4 == s3 ## b
<1>1. /\ DOMAIN s1 = DOMAIN p \cup DOMAIN e
      /\ \A w \in DOMAIN p : s1[w] = p[w]
      /\ \A w \in DOMAIN e : w \notin DOMAIN p => s1[w] = e[w]
  BY Over
<1> HIDE DEF s1
<1>2. /\ DOMAIN s2 = DOMAIN s1 \cup DOMAIN x
      /\ \A w \in DOMAIN s1 : s2[w] = s1[w]
      /\ \A w \in DOMAIN x : w \notin DOMAIN s1 => s2[w] = x[w]
  BY Over
<1> HIDE DEF s2
<1>3. /\ DOMAIN s3 = DOMAIN s2 \cup DOMAIN m
      /\ \A w \in DOMAIN s2 : s3[w] = s2[w]
      /\ \A w \in DOMAIN m : w \notin DOMAIN s2 => s3[w] = m[w]
  BY Over
<1> HIDE DEF s3
<1>4. /\ DOMAIN s4 = DOMAIN s3 \cup DOMAIN b
      /\ \A w \in DOMAIN s3 : s4[w] = s3[w]
      /\ \A w \in DOMAIN b : w \notin DOMAIN s3 => s4[w] = b[w]
  BY Over
<1> HIDE DEF s4
<1>5. /\ DOMAIN s4 = DOMAIN p \cup DOMAIN e \cup DOMAIN x \cup DOMAIN m \cup DOMAIN b
      /\ \A w \in DOMAIN p : s4[w] = p[w]
      /\ \A w \in DOMAIN e : w \notin DOMAIN p => s4[w] = e[w]
      /\ \A w \in DOMAIN x : w \notin DOMAIN p \cup DOMAIN e => s4[w] = x[w]
      /\ \A w \in DOMAIN m : w \notin DOMAIN p \cup DOMAIN e \cup DOMAIN x => s4[w] = m[w]
      /\ \A w \in DOMAIN b : w \notin DOMAIN p \cup DOMAIN e \cup DOMAIN x \cup DOMAIN m
                               => s4[w] = b[w]
  BY <1>1, <1>2, <1>3, <1>4
<1>6. Layered(p, e, x, m, b) = s4
  BY DEF Layered, s1, s2, s3, s4
<1> HIDE DEF s4
<1>7. IsLayered(s4, p, e, x, m, b)
  BY <1>5 DEF IsLayered
<1> QED BY <1>6, <1>7

(* The words of the parameters: pointers, texts, names, entries.           *)
Parted(P, E, X, M, first, last, n, size) ==
  /\ first \in Nat /\ last \in Nat /\ n \in Nat /\ size \in Nat
  /\ 13 <= first /\ first <= last /\ last + n <= size
  /\ P = {1, 2, 3, 4, 5, 7, 9, 10, 11, 12} /\ X \subseteq 13 .. first - 1
  /\ M = first .. last - 1 /\ E = last .. last + n - 1

Apart(P, E, X, M, size) ==
  /\ \A w \in E : w \notin P
  /\ \A w \in X : w \notin P /\ w \notin E
  /\ \A w \in M : w \notin P /\ w \notin E /\ w \notin X
  /\ \A w \in {0, 6, 8} : /\ w \notin P /\ w \notin E /\ w \notin X /\ w \notin M
                           /\ w \in 0 .. size - 1
  /\ P \cup E \cup X \cup M \cup 0 .. size - 1 = 0 .. size - 1
  /\ 13 <= size

LEMMA PartsApart ==
  ASSUME NEW P, NEW E, NEW X, NEW M, NEW first, NEW last, NEW n, NEW size,
         Parted(P, E, X, M, first, last, n, size)
  PROVE  Apart(P, E, X, M, size)
<1>1. P \subseteq 1 .. 12
  BY DEF Parted
<1>2. /\ first \in Nat /\ last \in Nat /\ n \in Nat /\ size \in Nat
      /\ 13 <= first /\ first <= last /\ last + n <= size /\ 13 <= size
  BY DEF Parted
<1>3. P \cup E \cup X \cup M \cup 0 .. size - 1 = 0 .. size - 1
  <2>1. P \subseteq 0 .. size - 1
    BY <1>1, <1>2
  <2>2. E \subseteq 0 .. size - 1
    BY <1>2 DEF Parted
  <2>3. X \subseteq 0 .. size - 1
    BY <1>2 DEF Parted
  <2>4. M \subseteq 0 .. size - 1
    BY <1>2 DEF Parted
  <2> QED BY <2>1, <2>2, <2>3, <2>4
<1>4. \A w \in P : w \in 1 .. 12
  BY <1>1
<1>5. \A w \in E : w \in Int /\ last <= w
  BY <1>2 DEF Parted
<1>6. \A w \in X : w \in Int /\ 13 <= w /\ w < first
  BY <1>2 DEF Parted
<1>7. \A w \in M : w \in Int /\ first <= w /\ w < last
  BY <1>2 DEF Parted
<1>8. \A w \in {0, 6, 8} : w \in Int /\ 0 <= w /\ w < 13 /\ w \notin P
  BY DEF Parted
<1>9. /\ \A w \in E : w \notin P
      /\ \A w \in X : w \notin P /\ w \notin E
      /\ \A w \in M : w \notin P /\ w \notin E /\ w \notin X
  BY <1>2, <1>4, <1>5, <1>6, <1>7
<1>10. \A w \in {0, 6, 8} : /\ w \notin P /\ w \notin E /\ w \notin X /\ w \notin M
                            /\ w \in 0 .. size - 1
  BY <1>2, <1>5, <1>6, <1>7, <1>8
<1> QED BY <1>2, <1>3, <1>9, <1>10 DEF Apart

(* A number that is zero is written over zeros.                            *)
LEMMA ZeroSet ==
  ASSUME NEW seg, 0 \in DOMAIN seg, seg[0] = Zero
  PROVE  LET s == SetU8(seg, 0, 0, {})
         IN  /\ DOMAIN s = DOMAIN seg
             /\ s[0].bits = {}
             /\ \A w \in DOMAIN seg : w # 0 => s[w] = seg[w]
<1>1. SetNumber(Zero, U8(0), {}).bits = {}
  <2>1. SetNumber(Zero, U8(0), {}) =
          [kind |-> "data", bits |-> ({} \ Span(U8(0))) \cup {U8(0).at + b : b \in {}}]
    BY DEF SetNumber, Zero, Numbers
  <2> QED BY <2>1
<1>2. SetU8(seg, 0, 0, {}) = [seg EXCEPT ![0] = SetNumber(seg[0], U8(0), {})]
  BY DEF SetU8
<1> QED BY <1>1, <1>2

LEMMA TextFacts ==
  ASSUME NEW t, IsText(t)
  PROVE  Len(t) \in Nat /\ DOMAIN t = 1 .. Len(t) /\ t = [i \in 1 .. Len(t) |-> t[i]]
BY DEF IsText

(* Words of a segment that another one has too, and a text in a segment.   *)
Extends(h, f) == DOMAIN f \subseteq DOMAIN h /\ \A x \in DOMAIN f : h[x] = f[x]
Has(seg, w, text) == w .. w + DataWords(text) - 1 \subseteq DOMAIN seg /\ Lies(seg, w, text)

LEMMA ExtendsOn ==
  ASSUME NEW f, NEW g, NEW h, Extends(h, g), Extends(g, f)
  PROVE  Extends(h, f)
BY DEF Extends

LEMMA StillHas ==
  ASSUME NEW f, NEW h, NEW w \in Nat, NEW text, Len(text) \in Nat, Extends(h, f),
         Has(f, w, text)
  PROVE  Has(h, w, text)
<1>1. DataWords(text) \in Nat
  BY WordsOf
<1>2. \A i \in 0 .. DataWords(text) - 1 : w + i \in w .. w + DataWords(text) - 1
  BY <1>1
<1> QED BY <1>2 DEF Extends, Has, Lies

LEMMA TextBehind ==
  ASSUME NEW f, NEW lo \in Nat, NEW w \in Nat, NEW text, Len(text) \in Nat,
         DOMAIN f \subseteq lo .. w - 1, lo <= w
  PROVE  LET h == f ## At(w, Bytes8(text))
         IN  /\ Extends(h, f) /\ Has(h, w, text)
             /\ \A last \in Nat : w + DataWords(text) <= last => DOMAIN h \subseteq lo .. last - 1
<1> DEFINE g == At(w, Bytes8(text))
           d == DataWords(text)
<1>1. /\ d \in Nat /\ DOMAIN g = w .. w + d - 1
      /\ \A i \in 0 .. d - 1 : g[w + i] = Bytes8(text)[i]
  BY PlacedText
<1> HIDE DEF g
<1>2. /\ DOMAIN (f ## g) = DOMAIN f \cup DOMAIN g
      /\ \A x \in DOMAIN f : (f ## g)[x] = f[x]
      /\ \A x \in DOMAIN g : x \notin DOMAIN f => (f ## g)[x] = g[x]
  BY Over
<1> HIDE DEF d
<1>3. Extends(f ## g, f)
  BY <1>2 DEF Extends
<1>4. \A i \in 0 .. d - 1 : w + i \in DOMAIN g /\ w + i \notin DOMAIN f
  BY <1>1
<1>5. Lies(f ## g, w, text)
  BY <1>1, <1>2, <1>4 DEF Lies, d
<1>6. Has(f ## g, w, text)
  BY <1>1, <1>2, <1>5 DEF Has, d
<1>7. \A last \in Nat : w + d <= last => DOMAIN (f ## g) \subseteq lo .. last - 1
  BY <1>1, <1>2
<1> QED BY <1>3, <1>6, <1>7 DEF g, d

(* Six texts one behind the other.                                         *)
Behind(w1, t1, w2, t2, w3, t3, w4, t4, w5, t5, w6, t6, last) ==
  /\ w1 \in Nat /\ w2 \in Nat /\ w3 \in Nat /\ w4 \in Nat /\ w5 \in Nat /\ w6 \in Nat
  /\ last \in Nat
  /\ w1 + DataWords(t1) <= w2 /\ w2 + DataWords(t2) <= w3 /\ w3 + DataWords(t3) <= w4
  /\ w4 + DataWords(t4) <= w5 /\ w5 + DataWords(t5) <= w6 /\ w6 + DataWords(t6) <= last

TextsAt(w1, t1, w2, t2, w3, t3, w4, t4, w5, t5, w6, t6) ==
     At(w1, Bytes8(t1)) ## At(w2, Bytes8(t2)) ## At(w3, Bytes8(t3))
  ## At(w4, Bytes8(t4)) ## At(w5, Bytes8(t5)) ## At(w6, Bytes8(t6))

LEMMA SixTexts ==
  ASSUME NEW w1, NEW t1, NEW w2, NEW t2, NEW w3, NEW t3, NEW w4, NEW t4, NEW w5, NEW t5,
         NEW w6, NEW t6, NEW last,
         Len(t1) \in Nat, Len(t2) \in Nat, Len(t3) \in Nat, Len(t4) \in Nat,
         Len(t5) \in Nat, Len(t6) \in Nat,
         Behind(w1, t1, w2, t2, w3, t3, w4, t4, w5, t5, w6, t6, last)
  PROVE  LET s == TextsAt(w1, t1, w2, t2, w3, t3, w4, t4, w5, t5, w6, t6)
         IN  /\ DOMAIN s \subseteq w1 .. last - 1
             /\ Has(s, w1, t1) /\ Has(s, w2, t2) /\ Has(s, w3, t3)
             /\ Has(s, w4, t4) /\ Has(s, w5, t5) /\ Has(s, w6, t6)
<1> DEFINE s1 == At(w1, Bytes8(t1))
           s2 == s1 ## At(w2, Bytes8(t2))
           s3 == s2 ## At(w3, Bytes8(t3))
           s4 == s3 ## At(w4, Bytes8(t4))
           s5 == s4 ## At(w5, Bytes8(t5))
           s6 == s5 ## At(w6, Bytes8(t6))
<1>0. /\ w1 \in Nat /\ w2 \in Nat /\ w3 \in Nat /\ w4 \in Nat /\ w5 \in Nat /\ w6 \in Nat
      /\ last \in Nat
      /\ w1 <= w2 /\ w1 <= w3 /\ w1 <= w4 /\ w1 <= w5 /\ w1 <= w6
      /\ w1 + DataWords(t1) <= w2 /\ w2 + DataWords(t2) <= w3 /\ w3 + DataWords(t3) <= w4
      /\ w4 + DataWords(t4) <= w5 /\ w5 + DataWords(t5) <= w6 /\ w6 + DataWords(t6) <= last
  <2>1. /\ DataWords(t1) \in Nat /\ DataWords(t2) \in Nat /\ DataWords(t3) \in Nat
        /\ DataWords(t4) \in Nat /\ DataWords(t5) \in Nat /\ DataWords(t6) \in Nat
    BY WordsOf
  <2> DEFINE d1 == DataWords(t1)
             d2 == DataWords(t2)
             d3 == DataWords(t3)
             d4 == DataWords(t4)
             d5 == DataWords(t5)
  <2>2. /\ d1 \in Nat /\ d2 \in Nat /\ d3 \in Nat /\ d4 \in Nat /\ d5 \in Nat
        /\ w1 \in Nat /\ w2 \in Nat /\ w3 \in Nat /\ w4 \in Nat /\ w5 \in Nat /\ w6 \in Nat
        /\ w1 + d1 <= w2 /\ w2 + d2 <= w3 /\ w3 + d3 <= w4 /\ w4 + d4 <= w5 /\ w5 + d5 <= w6
    BY <2>1 DEF Behind
  <2> HIDE DEF d1, d2, d3, d4, d5
  <2>3. w1 <= w2 /\ w1 <= w3 /\ w1 <= w4 /\ w1 <= w5 /\ w1 <= w6
    BY <2>2
  <2> QED BY <2>3 DEF Behind
<1>1. Has(s1, w1, t1) /\ DOMAIN s1 \subseteq w1 .. w2 - 1
  <2>1. /\ DataWords(t1) \in Nat /\ DOMAIN s1 = w1 .. w1 + DataWords(t1) - 1
        /\ \A i \in 0 .. DataWords(t1) - 1 : s1[w1 + i] = Bytes8(t1)[i]
    BY <1>0, PlacedText
  <2> HIDE DEF s1
  <2> QED BY <1>0, <2>1 DEF Has, Lies
<1> HIDE DEF s1
<1>2. Extends(s2, s1) /\ Has(s2, w2, t2) /\ DOMAIN s2 \subseteq w1 .. w3 - 1
  BY <1>0, <1>1, TextBehind, Zenon
<1> HIDE DEF s2
<1>3. Extends(s3, s2) /\ Has(s3, w3, t3) /\ DOMAIN s3 \subseteq w1 .. w4 - 1
  BY <1>0, <1>2, TextBehind, Zenon
<1> HIDE DEF s3
<1>4. Extends(s4, s3) /\ Has(s4, w4, t4) /\ DOMAIN s4 \subseteq w1 .. w5 - 1
  BY <1>0, <1>3, TextBehind, Zenon
<1> HIDE DEF s4
<1>5. Extends(s5, s4) /\ Has(s5, w5, t5) /\ DOMAIN s5 \subseteq w1 .. w6 - 1
  BY <1>0, <1>4, TextBehind, Zenon
<1> HIDE DEF s5
<1>6. Extends(s6, s5) /\ Has(s6, w6, t6) /\ DOMAIN s6 \subseteq w1 .. last - 1
  BY <1>0, <1>5, TextBehind, Zenon
<1> HIDE DEF s6
<1>7. Extends(s6, s4) /\ Extends(s6, s3) /\ Extends(s6, s2) /\ Extends(s6, s1)
  BY <1>2, <1>3, <1>4, <1>5, <1>6, ExtendsOn, Zenon
<1>8. /\ Has(s6, w1, t1) /\ Has(s6, w2, t2) /\ Has(s6, w3, t3) /\ Has(s6, w4, t4)
      /\ Has(s6, w5, t5)
  BY <1>0, <1>1, <1>2, <1>3, <1>4, <1>5, <1>6, <1>7, StillHas
<1>9. TextsAt(w1, t1, w2, t2, w3, t3, w4, t4, w5, t5, w6, t6) = s6
  BY DEF TextsAt, s1, s2, s3, s4, s5, s6
<1> QED BY <1>6, <1>8, <1>9

(* A pointer to bytes, and the text that they are.                         *)
Leads(seg, w, text, count) ==
  \E target \in Nat : IsList(seg, w, target, "byte", count) /\ Has(seg, target, text)

(* The words of the parameters: every pointer leads where it should.       *)
Holds(seg, n, account, secret, tunnel, client_id, version, arch, features) ==
  /\ n \in Nat /\ 13 <= n /\ DOMAIN seg = 0 .. n - 1
  /\ seg[0].bits = {} /\ seg[6] = Zero /\ seg[8] = Zero
  /\ IsStruct(seg, 1, 4, 0, 2) /\ IsStruct(seg, 3, 6, 1, 2) /\ IsStruct(seg, 7, 9, 0, 4)
  /\ Leads(seg, 2, tunnel, Len(tunnel))
  /\ Leads(seg, 4, account, Len(account) + 1)
  /\ Leads(seg, 5, secret, Len(secret))
  /\ Leads(seg, 9, client_id, 16)
  /\ Leads(seg, 11, version, Len(version) + 1)
  /\ Leads(seg, 12, arch, Len(arch) + 1)
  /\ \E e \in Nat : /\ IsList(seg, 10, e, "pointer", Len(features))
                    /\ \A i \in 1 .. Len(features) :
                         /\ e + i - 1 \in DOMAIN seg
                         /\ Leads(seg, e + i - 1, features[i], Len(features[i]) + 1)

FeatureNames(feat_w, last, n, features) ==
  [w \in feat_w[1] .. last - 1 |->
     LET i == CHOOSE j \in 1 .. n : w \in feat_w[j] .. feat_w[j + 1] - 1
         b == At(feat_w[i], Bytes8(features[i]))
     IN  IF w \in DOMAIN b THEN b[w] ELSE Zero]

LEMMA NamesLie ==
  ASSUME NEW first \in Nat, NEW features, Len(features) \in Nat,
         \A i \in 1 .. Len(features) : Len(features[i]) \in Nat
  PROVE  LET feat_w == Places(first, features)
             last == feat_w[Len(features) + 1]
             names == FeatureNames(feat_w, last, Len(features), features)
         IN  /\ last \in Nat /\ first <= last
             /\ DOMAIN names = first .. last - 1
             /\ \A i \in 1 .. Len(features) :
                  feat_w[i] \in Nat /\ Has(names, feat_w[i], features[i])
<1> DEFINE p == Places(first, features)
           n == Len(features)
           last == p[n + 1]
           names == FeatureNames(p, last, n, features)
<1>1. /\ p[1] = first
      /\ \A i \in 1 .. n + 1 : p[i] \in Nat /\ first <= p[i]
      /\ \A i \in 1 .. n : p[i + 1] = p[i] + TextWords(features[i])
      /\ \A j \in 1 .. n + 1 : \A i \in 1 .. j - 1 : p[i] + TextWords(features[i]) <= p[j]
  BY PlacesApart
<1>2. \A i \in 1 .. n : /\ TextWords(features[i]) \in Nat /\ DataWords(features[i]) \in Nat
                        /\ DataWords(features[i]) <= TextWords(features[i])
  BY WordsOf
<1> HIDE DEF p
<1>3. n + 1 \in 1 .. n + 1
  OBVIOUS
<1>4. DOMAIN names = first .. last - 1
  BY <1>1 DEF FeatureNames
<1>5. ASSUME NEW i \in 1 .. n
      PROVE  p[i] \in Nat /\ Has(names, p[i], features[i])
  <2> DEFINE d == DataWords(features[i])
             b == At(p[i], Bytes8(features[i]))
  <2>0. i \in 1 .. n + 1 /\ i + 1 \in 1 .. n + 1
    OBVIOUS
  <2>1. /\ p[i] \in Nat /\ p[i + 1] \in Nat /\ d \in Nat /\ first <= p[i] /\ p[i] + d <= p[i + 1]
        /\ TextWords(features[i]) \in Nat
    BY <1>1, <1>2, <2>0
  <2>2. p[i + 1] <= last
    <3>1. CASE i = n
      BY <2>1, <3>1
    <3>2. CASE i # n
      <4>1. i + 1 \in 1 .. (n + 1) - 1 /\ i + 1 \in 1 .. n
        BY <3>2
      <4>2. p[i + 1] + TextWords(features[i + 1]) <= last
        BY <1>1, <1>3, <4>1
      <4>3. TextWords(features[i + 1]) \in Nat /\ last \in Nat
        BY <1>1, <1>2, <1>3, <4>1
      <4> QED BY <2>1, <4>2, <4>3
    <3> QED BY <3>1, <3>2
  <2>3. /\ DOMAIN b = p[i] .. p[i] + d - 1
        /\ \A k \in 0 .. d - 1 : b[p[i] + k] = Bytes8(features[i])[k]
    BY <2>1, PlacedText
  <2>4. ASSUME NEW k \in 0 .. d - 1
        PROVE  names[p[i] + k] = b[p[i] + k]
    <3> DEFINE w == p[i] + k
               Q(j) == w \in p[j] .. p[j + 1] - 1
               c == CHOOSE j \in 1 .. n : Q(j)
    <3>1. w \in Int /\ p[i] <= w /\ w < p[i] + d /\ w \in first .. last - 1
      <4>1. last \in Nat
        BY <1>1, <1>3
      <4>2. d \in Nat /\ k \in 0 .. d - 1 /\ p[i] \in Nat /\ p[i + 1] \in Nat
            /\ first <= p[i] /\ p[i] + d <= p[i + 1] /\ p[i + 1] <= last
        BY <2>1, <2>2
      <4> HIDE DEF d, last
      <4> QED BY <4>1, <4>2
    <3>2. Q(i)
      BY <2>1, <3>1
    <3>3. ASSUME NEW j \in 1 .. n, Q(j) PROVE j = i
      <4>0. /\ j \in 1 .. n + 1 /\ j + 1 \in 1 .. n + 1 /\ p[j] \in Nat /\ p[j + 1] \in Nat
            /\ p[j] <= w /\ w < p[j + 1]
        <5>1. j \in 1 .. n + 1 /\ j + 1 \in 1 .. n + 1
          OBVIOUS
        <5> QED BY <1>1, <3>1, <3>3, <5>1
      <4>1. CASE j < i
        <5>1. j \in 1 .. i - 1
          BY <4>1
        <5>2. p[j] + TextWords(features[j]) <= p[i] /\ p[j + 1] = p[j] + TextWords(features[j])
          BY <1>1, <2>0, <5>1
        <5>3. p[j + 1] <= p[i]
          BY <5>2
        <5> QED BY <2>1, <3>1, <4>0, <5>3
      <4>2. CASE i < j
        <5>1. i \in 1 .. j - 1
          BY <4>2
        <5>2. p[i] + TextWords(features[i]) <= p[j] /\ d <= TextWords(features[i])
          BY <1>1, <1>2, <4>0, <5>1
        <5> HIDE DEF d, w
        <5> QED BY <2>1, <3>1, <4>0, <5>2
      <4> QED BY <4>1, <4>2
    <3> HIDE DEF Q
    <3>4. c = i
      BY <3>2, <3>3
    <3>5. names[w] = LET b2 == At(p[c], Bytes8(features[c]))
                     IN  IF w \in DOMAIN b2 THEN b2[w] ELSE Zero
      BY <3>1, <1>1 DEF FeatureNames, Q
    <3>6. w \in DOMAIN b
      BY <2>1, <2>3, <3>1
    <3> HIDE DEF c, w, names
    <3>7. names[w] = b[w]
      BY <3>4, <3>5, <3>6
    <3> QED BY <3>7 DEF w
  <2> HIDE DEF b
  <2>5. p[i] .. p[i] + d - 1 \subseteq DOMAIN names
    <3>1. last \in Nat
      BY <1>1, <1>3
    <3> HIDE DEF names, last, d
    <3> QED BY <1>4, <2>1, <2>2, <3>1
  <2> HIDE DEF names
  <2>6. Lies(names, p[i], features[i])
    BY <2>3, <2>4 DEF Lies
  <2> QED BY <2>1, <2>5, <2>6 DEF Has
<1>6. last \in Nat /\ first <= last
  BY <1>1, <1>3
<1> QED BY <1>4, <1>5, <1>6 DEF p

FeatureEntries(feat_w, last, n, features) ==
  [w \in last .. last + n - 1 |->
     LET i == w - last + 1 IN DataPtr(w, feat_w[i], Len(features[i]) + 1)[w]]

LEMMA EntriesLead ==
  ASSUME NEW feat_w, NEW last \in Nat, NEW n \in Nat, NEW features
  PROVE  LET entries == FeatureEntries(feat_w, last, n, features)
         IN  /\ DOMAIN entries = last .. last + n - 1
             /\ \A i \in 1 .. n :
                  IsList(entries, last + i - 1, feat_w[i], "byte", Len(features[i]) + 1)
<1> DEFINE entries == FeatureEntries(feat_w, last, n, features)
<1>1. DOMAIN entries = last .. last + n - 1
  BY DEF FeatureEntries
<1>2. ASSUME NEW i \in 1 .. n
      PROVE  IsList(entries, last + i - 1, feat_w[i], "byte", Len(features[i]) + 1)
  <2> DEFINE w == last + i - 1
  <2>1. w \in last .. last + n - 1 /\ w - last + 1 = i
    OBVIOUS
  <2>2. entries[w] = DataPtr(w, feat_w[w - last + 1], Len(features[w - last + 1]) + 1)[w]
    BY <2>1 DEF FeatureEntries
  <2>3. entries[w] = DataPtr(w, feat_w[i], Len(features[i]) + 1)[w]
    BY <2>1, <2>2
  <2> HIDE DEF w
  <2>4. entries[w] = [kind |-> "list", offset |-> feat_w[i] - w - 1, elem |-> "byte",
                      count |-> Len(features[i]) + 1]
    BY <2>3 DEF DataPtr, ListPtr, Word
  <2>5. IsList(entries, w, feat_w[i], "byte", Len(features[i]) + 1)
    BY <2>4 DEF IsList
  <2> QED BY <2>5 DEF w
<1> QED BY <1>1, <1>2

(* What encode_register_connection puts together holds the parameters.     *)
Encoded(account, secret, tunnel, client_id, version, arch, features) ==
  \E seg, n :
    /\ Holds(seg, n, account, secret, tunnel, client_id, version, arch, features)
    /\ EncodeRegisterConnection(account, secret, tunnel, {}, client_id, version, arch,
                                features) = Finish(seg, 0, 1, 3)

LEMMA EncodedHolds ==
  ASSUME NEW account, NEW secret, NEW tunnel, NEW client_id, NEW version, NEW arch,
         NEW features, Len(account) \in Nat, Len(secret) \in Nat, Len(tunnel) \in Nat,
         Len(client_id) \in Nat, Len(version) \in Nat, Len(arch) \in Nat,
         Len(features) \in Nat, \A i \in 1 .. Len(features) : Len(features[i]) \in Nat
  PROVE  Encoded(account, secret, tunnel, client_id, version, arch, features)
<1> DEFINE account_w == 13
           secret_w == account_w + TextWords(account)
           tunnel_w == secret_w + DataWords(secret)
           client_id_w == tunnel_w + DataWords(tunnel)
           version_w == client_id_w + DataWords(client_id)
           arch_w == version_w + TextWords(version)
           first == arch_w + TextWords(arch)
           feat_w == Places(first, features)
           n == Len(features)
           last == feat_w[n + 1]
           p == ParamPointers(tunnel_w, tunnel, account_w, account, secret_w, secret,
                              client_id_w, last, n, version_w, version, arch_w, arch)
           e == FeatureEntries(feat_w, last, n, features)
           x == TextsAt(account_w, account, secret_w, secret, tunnel_w, tunnel, client_id_w,
                        client_id, version_w, version, arch_w, arch)
           m == FeatureNames(feat_w, last, n, features)
           size == last + (IF n = 0 THEN 1 ELSE n)
           b == Blank(size)
           t == Layered(p, e, x, m, b)
           seg == SetU8(t, 0, 0, {})
<1>1. EncodeRegisterConnection(account, secret, tunnel, {}, client_id, version, arch,
                               features) = Finish(seg, 0, 1, 3)
  BY DEF EncodeRegisterConnection, ParamPointers, FeatureEntries, FeatureNames, TextsAt,
         Layered
<1>2. /\ account_w \in Nat /\ secret_w \in Nat /\ tunnel_w \in Nat /\ client_id_w \in Nat
      /\ version_w \in Nat /\ arch_w \in Nat /\ first \in Nat /\ 13 <= first
      /\ Behind(account_w, account, secret_w, secret, tunnel_w, tunnel, client_id_w,
                client_id, version_w, version, arch_w, arch, first)
  <2> DEFINE a1 == TextWords(account)
             a2 == DataWords(secret)
             a3 == DataWords(tunnel)
             a4 == DataWords(client_id)
             a5 == TextWords(version)
             a6 == TextWords(arch)
             d1 == DataWords(account)
             d5 == DataWords(version)
             d6 == DataWords(arch)
  <2>1. /\ a1 \in Nat /\ a2 \in Nat /\ a3 \in Nat /\ a4 \in Nat /\ a5 \in Nat /\ a6 \in Nat
        /\ d1 \in Nat /\ d5 \in Nat /\ d6 \in Nat /\ d1 <= a1 /\ d5 <= a5 /\ d6 <= a6
    BY WordsOf
  <2> HIDE DEF a1, a2, a3, a4, a5, a6, d1, d5, d6
  <2>2. /\ 13 \in Nat /\ 13 + a1 \in Nat /\ 13 + a1 + a2 \in Nat /\ 13 + a1 + a2 + a3 \in Nat
        /\ 13 + a1 + a2 + a3 + a4 \in Nat /\ 13 + a1 + a2 + a3 + a4 + a5 \in Nat
        /\ 13 + a1 + a2 + a3 + a4 + a5 + a6 \in Nat /\ 13 <= 13 + a1 + a2 + a3 + a4 + a5 + a6
        /\ 13 + d1 <= 13 + a1
        /\ 13 + a1 + a2 <= 13 + a1 + a2
        /\ 13 + a1 + a2 + a3 <= 13 + a1 + a2 + a3
        /\ 13 + a1 + a2 + a3 + a4 <= 13 + a1 + a2 + a3 + a4
        /\ 13 + a1 + a2 + a3 + a4 + d5 <= 13 + a1 + a2 + a3 + a4 + a5
        /\ 13 + a1 + a2 + a3 + a4 + a5 + d6 <= 13 + a1 + a2 + a3 + a4 + a5 + a6
    BY <2>1
  <2> QED BY <2>2 DEF Behind, a1, a2, a3, a4, a5, a6, d1, d5, d6
<1> HIDE DEF account_w, secret_w, tunnel_w, client_id_w, version_w, arch_w, first
<1>3.  /\ DOMAIN x \subseteq account_w .. first - 1
      /\ Has(x, account_w, account) /\ Has(x, secret_w, secret) /\ Has(x, tunnel_w, tunnel)
      /\ Has(x, client_id_w, client_id) /\ Has(x, version_w, version) /\ Has(x, arch_w, arch)
  BY <1>2, SixTexts, Zenon
<1>4. /\ last \in Nat /\ first <= last /\ DOMAIN m = first .. last - 1
      /\ \A i \in 1 .. n : feat_w[i] \in Nat /\ Has(m, feat_w[i], features[i])
  BY <1>2, NamesLie
<1>5. /\ DOMAIN e = last .. last + n - 1
      /\ \A i \in 1 .. n : IsList(e, last + i - 1, feat_w[i], "byte", Len(features[i]) + 1)
  BY <1>4, EntriesLead
<1>6. /\ DOMAIN p = {1, 2, 3, 4, 5, 7, 9, 10, 11, 12}
      /\ IsStruct(p, 1, 4, 0, 2)
      /\ IsList(p, 2, tunnel_w, "byte", Len(tunnel))
      /\ IsStruct(p, 3, 6, 1, 2)
      /\ IsList(p, 4, account_w, "byte", Len(account) + 1)
      /\ IsList(p, 5, secret_w, "byte", Len(secret))
      /\ IsStruct(p, 7, 9, 0, 4)
      /\ IsList(p, 9, client_id_w, "byte", 16)
      /\ IsList(p, 10, last, "pointer", n)
      /\ IsList(p, 11, version_w, "byte", Len(version) + 1)
      /\ IsList(p, 12, arch_w, "byte", Len(arch) + 1)
  BY PointersPlaced, Zenon
<1> HIDE DEF feat_w, last
<1>7. /\ size \in Nat /\ last + n <= size /\ last <= size
      /\ DOMAIN b = 0 .. size - 1 /\ \A w \in 0 .. size - 1 : b[w] = Zero
  <2>1. size \in Nat /\ last + n <= size /\ last <= size
    BY <1>4
  <2> HIDE DEF size
  <2> QED BY <2>1, BlankWords
<1> HIDE DEF p, e, x, m, b, size
<1>8. IsLayered(t, p, e, x, m, b)
  BY Layers, Zenon
<1> HIDE DEF t
<1>9. 13 <= first /\ account_w = 13 /\ first \in Nat
  BY <1>2 DEF account_w
<1>10. Apart(DOMAIN p, DOMAIN e, DOMAIN x, DOMAIN m, size) /\ n \in Nat
  <2>1. Parted(DOMAIN p, DOMAIN e, DOMAIN x, DOMAIN m, first, last, n, size)
    BY <1>3, <1>4, <1>5, <1>6, <1>7, <1>9 DEF Parted
  <2> QED BY <2>1, PartsApart, Zenon DEF Parted
<1>11. /\ Extends(t, p) /\ Extends(t, e) /\ Extends(t, x) /\ Extends(t, m)
       /\ t[0] = Zero /\ t[6] = Zero /\ t[8] = Zero
  <2>1. Extends(t, p) /\ Extends(t, e) /\ Extends(t, x) /\ Extends(t, m)
    BY <1>8, <1>10 DEF Extends, IsLayered, Apart
  <2>2. \A w \in {0, 6, 8} : t[w] = b[w] /\ b[w] = Zero
    BY <1>7, <1>8, <1>10 DEF IsLayered, Apart
  <2>3. 0 \in {0, 6, 8} /\ 6 \in {0, 6, 8} /\ 8 \in {0, 6, 8}
    OBVIOUS
  <2> QED BY <2>1, <2>2, <2>3
<1>12. /\ DOMAIN seg = 0 .. size - 1 /\ seg[0].bits = {} /\ seg[6] = Zero /\ seg[8] = Zero
       /\ Extends(seg, p) /\ Extends(seg, e) /\ Extends(seg, x) /\ Extends(seg, m)
  <2>0. DOMAIN t = 0 .. size - 1
    BY <1>7, <1>8, <1>10 DEF IsLayered, Apart
  <2>1. 0 \in DOMAIN t /\ 6 \in DOMAIN t /\ 8 \in DOMAIN t
    BY <1>10, <2>0 DEF Apart
  <2>2. /\ DOMAIN seg = DOMAIN t /\ seg[0].bits = {}
        /\ \A w \in DOMAIN t : w # 0 => seg[w] = t[w]
    BY <1>11, <2>1, ZeroSet
  <2> HIDE DEF seg
  <2>4. Extends(seg, p) /\ Extends(seg, e) /\ Extends(seg, x) /\ Extends(seg, m)
    <3>1. 0 \notin DOMAIN p /\ 0 \notin DOMAIN e /\ 0 \notin DOMAIN x /\ 0 \notin DOMAIN m
      BY <1>10 DEF Apart
    <3> QED BY <3>1, <1>11, <2>2 DEF Extends
  <2> QED BY <1>11, <2>0, <2>1, <2>2, <2>4
<1> HIDE DEF seg
<1>13. /\ Has(seg, account_w, account) /\ Has(seg, secret_w, secret)
       /\ Has(seg, tunnel_w, tunnel) /\ Has(seg, client_id_w, client_id)
       /\ Has(seg, version_w, version) /\ Has(seg, arch_w, arch)
       /\ \A i \in 1 .. n : Has(seg, feat_w[i], features[i])
  BY <1>2, <1>3, <1>4, <1>12, StillHas
<1>14. Holds(seg, size, account, secret, tunnel, client_id, version, arch, features)
  <2>1. size \in Nat /\ 13 <= size
    BY <1>7, <1>10 DEF Apart
  <2>2. \A w \in DOMAIN p : seg[w] = p[w]
    BY <1>12 DEF Extends
  <2>3. \A w \in {1, 2, 3, 4, 5, 7, 9, 10, 11, 12} : seg[w] = p[w]
    BY <1>6, <2>2
  <2>4. IsStruct(seg, 1, 4, 0, 2) /\ IsStruct(seg, 3, 6, 1, 2) /\ IsStruct(seg, 7, 9, 0, 4)
    BY <1>6, <2>3 DEF IsStruct
  <2>5. /\ IsList(seg, 2, tunnel_w, "byte", Len(tunnel))
        /\ IsList(seg, 4, account_w, "byte", Len(account) + 1)
        /\ IsList(seg, 5, secret_w, "byte", Len(secret))
        /\ IsList(seg, 9, client_id_w, "byte", 16)
        /\ IsList(seg, 10, last, "pointer", n)
        /\ IsList(seg, 11, version_w, "byte", Len(version) + 1)
        /\ IsList(seg, 12, arch_w, "byte", Len(arch) + 1)
    BY <1>6, <2>3 DEF IsList
  <2>6. /\ Leads(seg, 2, tunnel, Len(tunnel))
        /\ Leads(seg, 4, account, Len(account) + 1)
        /\ Leads(seg, 5, secret, Len(secret))
        /\ Leads(seg, 9, client_id, 16)
        /\ Leads(seg, 11, version, Len(version) + 1)
        /\ Leads(seg, 12, arch, Len(arch) + 1)
    BY <1>2, <1>13, <2>5, Zenon DEF Leads
  <2>7. ASSUME NEW i \in 1 .. n
        PROVE  /\ last + i - 1 \in DOMAIN seg
               /\ Leads(seg, last + i - 1, features[i], Len(features[i]) + 1)
    <3>1. last + i - 1 \in DOMAIN e
      BY <1>4, <1>5
    <3>2. last + i - 1 \in DOMAIN seg /\ seg[last + i - 1] = e[last + i - 1]
      BY <1>12, <3>1 DEF Extends
    <3>3. IsList(seg, last + i - 1, feat_w[i], "byte", Len(features[i]) + 1)
      BY <1>5, <3>2 DEF IsList
    <3>4. feat_w[i] \in Nat /\ Has(seg, feat_w[i], features[i])
      BY <1>4, <1>13
    <3> QED BY <3>2, <3>3, <3>4, Zenon DEF Leads
  <2> QED BY <1>4, <1>12, <2>1, <2>4, <2>5, <2>6, <2>7, Zenon DEF Holds, n
<1> QED BY <1>1, <1>14 DEF Encoded

(* The words of a segment, moved by d.                                     *)
Copied(there, d, seg) == \A w \in DOMAIN seg : there[w + d] = seg[w]

LEMMA EighthsOf ==
  ASSUME NEW k \in Nat \ {0}
  PROVE  /\ ((k - 1) % 8) + 1 \in 1 .. 8
         /\ 8 * ((k - 1) \div 8) + (((k - 1) % 8) + 1) = k
OBVIOUS

LEMMA BytesRead ==
  ASSUME NEW there, NEW d \in Nat, NEW seg, NEW target \in Nat, NEW text, IsText(text),
         Has(seg, target, text), Copied(there, d, seg)
  PROVE  BytesAt(there, target + d, Len(text)) = text
<1>1. Len(text) \in Nat /\ text = [i \in 1 .. Len(text) |-> text[i]]
  BY TextFacts
<1> DEFINE read == BytesAt(there, target + d, Len(text))
           byte(k) == LET word == there[target + d + ((k - 1) \div 8)]
                      IN  IF word.kind = "bytes" THEN word.bytes[((k - 1) % 8) + 1] ELSE Nul
<1>2. read = [k \in 1 .. Len(text) |-> byte(k)]
  BY DEF BytesAt
<1>3. ASSUME NEW k \in 1 .. Len(text)
      PROVE  byte(k) = text[k]
  <2> DEFINE q == (k - 1) \div 8
             r == ((k - 1) % 8) + 1
             m == DataWords(text)
  <2>1. q \in 0 .. m - 1 /\ m \in Nat
    BY <1>1, WordsOf
  <2>2. r \in 1 .. 8 /\ 8 * q + r = k
    BY <1>1, EighthsOf
  <2>3. Bytes8(text)[q] = [kind |-> "bytes",
                           bytes |-> [j \in 1 .. 8 |-> IF 8 * q + j <= Len(text)
                                                       THEN text[8 * q + j] ELSE Nul]]
    <3> HIDE DEF q
    <3> QED BY <2>1 DEF Bytes8
  <2>4. k <= Len(text)
    BY <1>1
  <2> HIDE DEF q, r
  <2>5. Bytes8(text)[q].kind = "bytes" /\ Bytes8(text)[q].bytes[r] = text[k]
    BY <2>2, <2>3, <2>4
  <2> HIDE DEF m
  <2>6. target + q \in target .. target + m - 1 /\ (target + q) + d = target + d + q
    BY <2>1
  <2>7. seg[target + q] = Bytes8(text)[q] /\ target + q \in DOMAIN seg
    BY <2>1, <2>6 DEF Has, Lies, m
  <2>8. there[target + d + q] = Bytes8(text)[q]
    BY <2>6, <2>7 DEF Copied
  <2>9. byte(k) = LET word == there[target + d + q]
                  IN  IF word.kind = "bytes" THEN word.bytes[r] ELSE Nul
    BY DEF q, r
  <2> HIDE DEF byte
  <2> QED BY <2>5, <2>8, <2>9
<1> HIDE DEF byte, read
<1>4. read = [k \in 1 .. Len(text) |-> text[k]]
  BY <1>2, <1>3
<1> QED BY <1>1, <1>4 DEF read

LEMMA NoZero ==
  ASSUME NEW offset, NEW elem, NEW count
  PROVE  [kind |-> "list", offset |-> offset, elem |-> elem, count |-> count] # Zero
<1>1. Zero.kind = "data"
  BY DEF Zero, Numbers
<1> QED BY <1>1

LEMMA TextRead ==
  ASSUME NEW there, NEW d \in Nat, NEW seg, NEW w \in Nat, w \in DOMAIN seg, NEW text,
         NEW type, IsText(text), Copied(there, d, seg),
         Leads(seg, w, text, IF type = "text" THEN Len(text) + 1 ELSE Len(text))
  PROVE  ContentAt(there, w + d, type) = text
<1> DEFINE count == IF type = "text" THEN Len(text) + 1 ELSE Len(text)
<1>1. PICK target \in Nat : IsList(seg, w, target, "byte", count) /\ Has(seg, target, text)
  BY DEF Leads
<1>2. there[w + d] = [kind |-> "list", offset |-> target - w - 1, elem |-> "byte",
                      count |-> count]
  BY <1>1 DEF Copied, IsList
<1>3. there[w + d] # Zero
  BY <1>2, NoZero
<1>4. Target(there, w + d) = target + d
  <2>1. there[w + d].offset = target - w - 1
    BY <1>2
  <2> QED BY <2>1 DEF Target
<1>5. (IF type = "text" THEN there[w + d].count - 1 ELSE there[w + d].count) = Len(text)
  <2>1. there[w + d].count = count
    BY <1>2
  <2>2. Len(text) \in Nat
    BY TextFacts
  <2> QED BY <2>1, <2>2
<1> HIDE DEF count
<1>6. ContentAt(there, w + d, type) = BytesAt(there, target + d, Len(text))
  BY <1>3, <1>4, <1>5 DEF ContentAt
<1> QED BY <1>1, <1>6, BytesRead

LEMMA StructFollowed ==
  ASSUME NEW there, NEW d \in Nat, NEW seg, NEW w \in Nat, w \in DOMAIN seg,
         NEW target \in Nat, NEW words \in Nat, NEW slots, Copied(there, d, seg),
         IsStruct(seg, w, target, words, slots), NEW r, NEW f, r.ptrs + f.at = w + d
  PROVE  Follow(there, r, f) = StructAt(target + d, words)
<1>1. there[w + d] = [kind |-> "struct", offset |-> target - w - 1, words |-> words,
                      slots |-> slots]
  BY DEF Copied, IsStruct
<1>2. there[w + d].words = words /\ there[w + d].offset = target - w - 1
  BY <1>1
<1>3. Target(there, w + d) = target + d
  BY <1>2 DEF Target
<1> QED BY <1>2, <1>3 DEF Follow

LEMMA NothingRead ==
  ASSUME NEW there, NEW r, NEW f
  PROVE  /\ there[r.data + f.at \div 64].bits = {} => NumberIn(there, r, f) = {}
         /\ there[r.ptrs + f.at] = Zero => ContentIn(there, r, f) = <<>>
BY DEF NumberIn, ContentIn, ContentAt

(* What is read in the words of the parameters, wherever they begin.       *)
LEMMA HandReadsParams ==
  ASSUME NEW there, NEW d \in Nat, NEW seg, NEW n, NEW account, NEW secret, NEW tunnel,
         NEW client_id, NEW version, NEW arch, NEW features,
         Holds(seg, n, account, secret, tunnel, client_id, version, arch, features),
         Copied(there, d, seg),
         IsText(account), IsText(secret), IsText(tunnel), IsText(client_id),
         IsText(version), IsText(arch), IsText(features),
         \A i \in 1 .. Len(features) : IsText(features[i]), Len(client_id) = 16
  PROVE  HandReads(there, d) =
           [account_tag |-> account, tunnel_secret |-> secret, tunnel_id |-> tunnel,
            conn_index |-> {}, replace_existing |-> {}, compression |-> {},
            attempts |-> {}, origin_local_ip |-> <<>>, client_id |-> client_id,
            features |-> features, version |-> version, arch |-> arch]
<1> DEFINE params == StructAt(d, 1)
           auth == Follow(there, params, RegisterConnectionParamsReader.auth)
           opts == Follow(there, params, RegisterConnectionParamsReader.options)
           info == Follow(there, opts, ConnectionOptionsReader.client)
<1>1. /\ n \in Nat /\ 13 <= n /\ DOMAIN seg = 0 .. n - 1
      /\ \A w \in 0 .. 12 : w \in Nat /\ w \in DOMAIN seg /\ there[w + d] = seg[w]
  <2>1. n \in Nat /\ 13 <= n /\ DOMAIN seg = 0 .. n - 1
    BY DEF Holds
  <2>2. \A w \in 0 .. 12 : w \in Nat /\ w \in DOMAIN seg
    BY <2>1
  <2>3. \A w \in 0 .. 12 : there[w + d] = seg[w]
    BY <2>2 DEF Copied
  <2> QED BY <2>1, <2>2, <2>3
<1>2. /\ RegisterConnectionParamsReader.auth.at = 0
      /\ RegisterConnectionParamsReader.tunnel_id.at = 1
      /\ RegisterConnectionParamsReader.tunnel_id.type = "data"
      /\ RegisterConnectionParamsReader.options.at = 2
      /\ RegisterConnectionParamsReader.conn_index.at = 0
      /\ ConnectionOptionsReader.client.at = 0
      /\ ConnectionOptionsReader.origin_local_ip.at = 1
      /\ ConnectionOptionsReader.replace_existing.at = 0
      /\ ConnectionOptionsReader.compression_quality.at = 8
      /\ ConnectionOptionsReader.num_previous_attempts.at = 16
      /\ TunnelAuthReader.account_tag.at = 0 /\ TunnelAuthReader.account_tag.type = "text"
      /\ TunnelAuthReader.tunnel_secret.at = 1 /\ TunnelAuthReader.tunnel_secret.type = "data"
      /\ ClientInfoReader.client_id.at = 0 /\ ClientInfoReader.client_id.type = "data"
      /\ ClientInfoReader.features.at = 1
      /\ ClientInfoReader.version.at = 2 /\ ClientInfoReader.version.type = "text"
      /\ ClientInfoReader.arch.at = 3 /\ ClientInfoReader.arch.type = "text"
  BY DEF RegisterConnectionParamsReader, ConnectionOptionsReader, TunnelAuthReader,
         ClientInfoReader, Text, Bytes, Struct, List, U8, Bool, Field
<1>3. params.data = d /\ params.ptrs = 1 + d
  BY DEF StructAt
<1>4. IsStruct(seg, 1, 4, 0, 2) /\ IsStruct(seg, 3, 6, 1, 2) /\ IsStruct(seg, 7, 9, 0, 4)
  BY DEF Holds
<1>5. auth = StructAt(4 + d, 0)
  <2>1. params.ptrs + RegisterConnectionParamsReader.auth.at = 1 + d
    BY <1>2, <1>3
  <2>2. 1 \in Nat /\ 1 \in DOMAIN seg /\ 4 \in Nat /\ 0 \in Nat
    BY <1>1
  <2> HIDE DEF params
  <2> QED BY <1>4, <2>1, <2>2, StructFollowed
<1>6. opts = StructAt(6 + d, 1)
  <2>1. params.ptrs + RegisterConnectionParamsReader.options.at = 3 + d
    BY <1>2, <1>3
  <2>2. 3 \in Nat /\ 3 \in DOMAIN seg /\ 6 \in Nat /\ 1 \in Nat
    BY <1>1
  <2> HIDE DEF params
  <2> QED BY <1>4, <2>1, <2>2, StructFollowed
<1>7. auth.ptrs = 4 + d /\ opts.data = 6 + d /\ opts.ptrs = 7 + d
  BY <1>5, <1>6 DEF StructAt
<1> HIDE DEF params, auth, opts
<1>8. info = StructAt(9 + d, 0)
  <2>1. opts.ptrs + ConnectionOptionsReader.client.at = 7 + d
    BY <1>2, <1>7
  <2>2. 7 \in Nat /\ 7 \in DOMAIN seg /\ 9 \in Nat /\ 0 \in Nat
    BY <1>1
  <2> QED BY <1>4, <2>1, <2>2, StructFollowed
<1>9. info.ptrs = 9 + d
  BY <1>8 DEF StructAt
<1> HIDE DEF info
<1>10. /\ ContentAt(there, 4 + d, "text") = account
       /\ ContentAt(there, 5 + d, "data") = secret
       /\ ContentAt(there, 2 + d, "data") = tunnel
       /\ ContentAt(there, 9 + d, "data") = client_id
       /\ ContentAt(there, 11 + d, "text") = version
       /\ ContentAt(there, 12 + d, "text") = arch
  <2>1. /\ Leads(seg, 2, tunnel, Len(tunnel)) /\ Leads(seg, 4, account, Len(account) + 1)
        /\ Leads(seg, 5, secret, Len(secret)) /\ Leads(seg, 9, client_id, Len(client_id))
        /\ Leads(seg, 11, version, Len(version) + 1) /\ Leads(seg, 12, arch, Len(arch) + 1)
    BY DEF Holds
  <2>2. \A w \in {2, 4, 5, 9, 11, 12} : w \in Nat /\ w \in DOMAIN seg
    <3>1. \A w \in {2, 4, 5, 9, 11, 12} : w \in 0 .. 12
      OBVIOUS
    <3> QED BY <1>1, <3>1
  <2>3. "data" # "text"
    OBVIOUS
  <2>4. ASSUME NEW w \in {2, 4, 5, 9, 11, 12}, NEW text, IsText(text),
               Leads(seg, w, text, Len(text) + 1)
        PROVE  ContentAt(there, w + d, "text") = text
    BY <2>2, <2>4, TextRead
  <2>5. ASSUME NEW w \in {2, 4, 5, 9, 11, 12}, NEW text, IsText(text),
               Leads(seg, w, text, Len(text))
        PROVE  ContentAt(there, w + d, "data") = text
    BY <2>2, <2>3, <2>5, TextRead
  <2> QED BY <2>1, <2>4, <2>5
<1>11. TextsIn(there, info, ClientInfoReader.features) = features
  <2>1. PICK e \in Nat :
          /\ IsList(seg, 10, e, "pointer", Len(features))
          /\ \A i \in 1 .. Len(features) :
               /\ e + i - 1 \in DOMAIN seg
               /\ Leads(seg, e + i - 1, features[i], Len(features[i]) + 1)
    BY DEF Holds
  <2>2. there[10 + d] = [kind |-> "list", offset |-> e - 10 - 1, elem |-> "pointer",
                         count |-> Len(features)]
    <3>1. 10 \in 0 .. 12
      OBVIOUS
    <3> QED BY <1>1, <2>1, <3>1 DEF IsList
  <2>3. there[10 + d].count = Len(features) /\ there[10 + d].offset = e - 10 - 1
    BY <2>2
  <2>4. Target(there, 10 + d) = e + d
    BY <2>3 DEF Target
  <2>5. info.ptrs + ClientInfoReader.features.at = 10 + d
    BY <1>2, <1>9
  <2>6. TextsIn(there, info, ClientInfoReader.features)
          = [i \in 1 .. Len(features) |-> ContentAt(there, e + d + i - 1, "text")]
    BY <2>3, <2>4, <2>5 DEF TextsIn
  <2>7. Len(features) \in Nat /\ features = [i \in 1 .. Len(features) |-> features[i]]
    BY TextFacts
  <2>8. ASSUME NEW i \in 1 .. Len(features)
        PROVE  ContentAt(there, e + d + i - 1, "text") = features[i]
    <3>1. e + i - 1 \in Nat /\ (e + i - 1) + d = e + d + i - 1
      BY <2>7
    <3>2. ContentAt(there, (e + i - 1) + d, "text") = features[i]
      BY <2>1, <3>1, TextRead
    <3> QED BY <3>1, <3>2
  <2> QED BY <2>6, <2>7, <2>8
<1>12. /\ there[0 + d].bits = {} /\ there[6 + d] = Zero /\ there[8 + d] = Zero
       /\ there[6 + d].bits = {}
  <2>1. seg[0].bits = {} /\ seg[6] = Zero /\ seg[8] = Zero /\ Zero.bits = {}
    BY DEF Holds, Zero, Numbers
  <2>2. 0 \in 0 .. 12 /\ 6 \in 0 .. 12 /\ 8 \in 0 .. 12
    OBVIOUS
  <2> QED BY <1>1, <2>1, <2>2
<1>13. /\ NumberIn(there, params, RegisterConnectionParamsReader.conn_index) = {}
       /\ NumberIn(there, opts, ConnectionOptionsReader.replace_existing) = {}
       /\ NumberIn(there, opts, ConnectionOptionsReader.compression_quality) = {}
       /\ NumberIn(there, opts, ConnectionOptionsReader.num_previous_attempts) = {}
  <2>1. 0 \div 64 = 0 /\ 8 \div 64 = 0 /\ 16 \div 64 = 0
    OBVIOUS
  <2>2. /\ params.data + RegisterConnectionParamsReader.conn_index.at \div 64 = 0 + d
        /\ opts.data + ConnectionOptionsReader.replace_existing.at \div 64 = 6 + d
        /\ opts.data + ConnectionOptionsReader.compression_quality.at \div 64 = 6 + d
        /\ opts.data + ConnectionOptionsReader.num_previous_attempts.at \div 64 = 6 + d
    BY <1>2, <1>3, <1>7, <2>1
  <2> QED BY <1>12, <2>2, NothingRead
<1>14. ContentIn(there, opts, ConnectionOptionsReader.origin_local_ip) = <<>>
  <2>1. opts.ptrs + ConnectionOptionsReader.origin_local_ip.at = 8 + d
    BY <1>2, <1>7
  <2> QED BY <1>12, <2>1, NothingRead
<1>15. /\ ContentIn(there, auth, TunnelAuthReader.account_tag) = account
       /\ ContentIn(there, auth, TunnelAuthReader.tunnel_secret) = secret
       /\ ContentIn(there, params, RegisterConnectionParamsReader.tunnel_id) = tunnel
       /\ ContentIn(there, info, ClientInfoReader.client_id) = client_id
       /\ ContentIn(there, info, ClientInfoReader.version) = version
       /\ ContentIn(there, info, ClientInfoReader.arch) = arch
  <2>1. /\ auth.ptrs + TunnelAuthReader.account_tag.at = 4 + d
        /\ auth.ptrs + TunnelAuthReader.tunnel_secret.at = 5 + d
        /\ params.ptrs + RegisterConnectionParamsReader.tunnel_id.at = 2 + d
        /\ info.ptrs + ClientInfoReader.client_id.at = 9 + d
        /\ info.ptrs + ClientInfoReader.version.at = 11 + d
        /\ info.ptrs + ClientInfoReader.arch.at = 12 + d
    BY <1>2, <1>3, <1>7, <1>9
  <2> QED BY <1>2, <1>10, <2>1 DEF ContentIn
<1> QED BY <1>11, <1>13, <1>14, <1>15 DEF HandReads, params, auth, opts, info

(* A frame is its segment one word later, behind the root pointer, which   *)
(* leads to itself.                                                        *)
IsFrame(f, seg, n, words, slots) ==
  /\ DOMAIN f = 0 .. n /\ Size(f) = n + 1
  /\ Copied(f, 1, seg)
  /\ f[0] = [kind |-> "struct", offset |-> 0 - 1, words |-> words, slots |-> slots]
  /\ Target(f, 0) = 0

LEMMA Finished ==
  ASSUME NEW seg, NEW n \in Nat, DOMAIN seg = 0 .. n - 1, NEW words, NEW slots
  PROVE  IsFrame(Finish(seg, 0, words, slots), seg, n, words, slots)
<1> DEFINE body == At(1, seg)
           root == [kind |-> "struct", offset |-> 0 - 1, words |-> words, slots |-> slots]
           f == body ## Word(0, root)
<1>1. DOMAIN body = 1 .. n /\ \A i \in 0 .. n - 1 : body[1 + i] = seg[i]
  <2>1. 1 \in Nat /\ 1 .. 1 + n - 1 = 1 .. n
    OBVIOUS
  <2> QED BY <2>1, SizeOf
<1> HIDE DEF body
<1>2. Adds(f, body, 0, root)
  <2>1. 0 \notin DOMAIN body
    BY <1>1
  <2> HIDE DEF root
  <2> QED BY <2>1, Beside, Zenon
<1>3. DOMAIN f = 0 .. n /\ f[0] = root /\ \A w \in 1 .. n : f[w] = body[w]
  <2>1. DOMAIN f = 1 .. n \cup {0} /\ f[0] = root /\ \A w \in 1 .. n : f[w] = body[w]
    BY <1>1, <1>2 DEF Adds
  <2>2. 1 .. n \cup {0} = 0 .. n
    OBVIOUS
  <2> QED BY <2>1, <2>2
<1> HIDE DEF f
<1>4. Copied(f, 1, seg)
  <2> SUFFICES ASSUME NEW w \in 0 .. n - 1 PROVE f[w + 1] = seg[w]
    BY DEF Copied
  <2>1. w + 1 \in 1 .. n /\ w + 1 = 1 + w
    OBVIOUS
  <2> QED BY <1>1, <1>3, <2>1
<1>5. Size(f) = n + 1
  <2>1. n + 1 \in Nat /\ DOMAIN f = 0 .. (n + 1) - 1
    BY <1>3
  <2> QED BY <2>1, SizeOf
<1>6. Target(f, 0) = 0
  <2>1. f[0].offset = 0 - 1
    BY <1>3
  <2> QED BY <2>1 DEF Target
<1>7. Finish(seg, 0, words, slots) = f
  BY DEF Finish, f, body, root
<1>8. IsFrame(f, seg, n, words, slots)
  BY <1>3, <1>4, <1>5, <1>6 DEF IsFrame, root
<1> QED BY <1>7, <1>8

LEMMA Stripped ==
  ASSUME NEW seg, NEW n \in Nat, DOMAIN seg = 0 .. n - 1, NEW words, NEW slots
  PROVE  LET s == StripFraming(Finish(seg, 0, words, slots))
         IN  DOMAIN s = 0 .. n - 1 /\ Copied(s, 0, seg)
<1> DEFINE f == Finish(seg, 0, words, slots)
           s == StripFraming(f)
<1>1. Size(f) = n + 1 /\ Copied(f, 1, seg)
  BY Finished DEF IsFrame
<1> HIDE DEF f
<1>2. s = [w \in 0 .. n - 1 |-> f[w + 1]]
  <2>1. (n + 1) - 2 = n - 1
    OBVIOUS
  <2> QED BY <1>1, <2>1 DEF StripFraming
<1>3. \A w \in 0 .. n - 1 : s[w] = seg[w]
  BY <1>1, <1>2 DEF Copied
<1>4. \A w \in 0 .. n - 1 : w + 0 = w
  OBVIOUS
<1> QED BY <1>2, <1>3, <1>4 DEF Copied, f

-----------------------------------------------------------------------------
(* Words that are written over.                                            *)
Only(h, f, over) == DOMAIN h = DOMAIN f /\ \A w \in DOMAIN f : w \notin over => h[w] = f[w]

LEMMA OnlyOne ==
  ASSUME NEW seg, NEW w, NEW byte, NEW bits
  PROVE  /\ Only(SetU16(seg, w, byte, bits), seg, {w})
         /\ Only(SetU32(seg, w, byte, bits), seg, {w})
BY DEF SetU16, SetU32, Only

LEMMA OnlyMore ==
  ASSUME NEW f, NEW g, NEW h, NEW a, NEW b, Only(h, g, a), Only(g, f, b)
  PROVE  Only(h, f, a \cup b)
BY DEF Only

LEMMA NumberWritten ==
  ASSUME NEW seg, NEW w, w \in DOMAIN seg, NEW byte, NEW bits
  PROVE  /\ SetU16(seg, w, byte, bits)[w] = SetNumber(seg[w], U16(byte \div 2), bits)
         /\ SetU32(seg, w, byte, bits)[w] = SetNumber(seg[w], I32(byte \div 4), bits)
BY DEF SetU16, SetU32

(* The number of the question, and then that of the method beside it.      *)
LEMMA MethodWritten ==
  LET word == SetNumber(SetNumber(Zero, I32(0), {0}), U16(2), TagBits(0))
  IN  {b \in 0 .. 15 : 32 + b \in word.bits} = TagBits(0)
<1> DEFINE first == SetNumber(Zero, I32(0), {0})
           word == SetNumber(first, U16(2), TagBits(0))
<1>1. I32(0).at = 0 /\ I32(0).width = 32 /\ U16(2).at = 32 /\ U16(2).width = 16
  BY DEF I32, U16, Field
<1>2. first = [kind |-> "data", bits |-> ({} \ Span(I32(0))) \cup {0 + b : b \in {0}}]
  BY <1>1 DEF SetNumber, Zero, Numbers
<1>3. first.bits = {0}
  BY <1>2
<1>4. word.bits = ({0} \ Span(U16(2))) \cup {32 + b : b \in TagBits(0)}
  <2> HIDE DEF first
  <2> QED BY <1>1, <1>2, <1>3 DEF SetNumber
<1>5. TagBits(0) \subseteq 0 .. 15
  BY DEF TagBits
<1> HIDE DEF word
<1>6. \A b \in 0 .. 15 : 32 + b \in word.bits <=> b \in TagBits(0)
  BY <1>4, <1>5
<1>7. {b \in 0 .. 15 : 32 + b \in word.bits} = TagBits(0)
  BY <1>5, <1>6
<1> QED BY <1>7 DEF word

-----------------------------------------------------------------------------
(* The Call.                                                               *)

CallPointers(target, promised) ==
     StructPtr(1, 2, 3, 3)
  ## StructPtr(2 + 3, target, 1, 1)
  ## StructPtr(2 + 4, 8, 0, 2)
  ## StructPtr(8, 10, 1, 3)
  ## StructPtr(target + 1, promised, 1, 1)

CallWords(params, target, promised) ==
  CallPointers(target, promised) ## Word(2 + 1, [kind |-> "id", id |-> REGISTRATION_SERVER_ID])
    ## At(10, params) ## Blank(promised + 2)

Numbered(seg, question_id, target, promised) ==
  LET message == SetU16(seg, 0, 0, TagBits(2))
      question == SetU32(message, 2, 0, question_id)
      method == SetU16(question, 2, 4, TagBits(0))
      promise == SetU32(SetU16(method, target, 0, TagBits(1)), promised, 0, {})
  IN  SetU32(SetU16(promise, target, 0, TagBits(0)), target, 4, {})

LEMMA CallPointersPlaced ==
  ASSUME NEW target \in Nat, 10 <= target, NEW promised
  PROVE  LET p == CallPointers(target, promised)
         IN  /\ DOMAIN p = {1, 5, 6, 8, target + 1}
             /\ IsStruct(p, 1, 2, 3, 3) /\ IsStruct(p, 6, 8, 0, 2) /\ IsStruct(p, 8, 10, 1, 3)
<1> DEFINE struct(w, to, words, slots) ==
             [kind |-> "struct", offset |-> to - w - 1, words |-> words, slots |-> slots]
           p1 == Word(1, struct(1, 2, 3, 3))
           p2 == p1 ## Word(5, struct(5, target, 1, 1))
           p3 == p2 ## Word(6, struct(6, 8, 0, 2))
           p4 == p3 ## Word(8, struct(8, 10, 1, 3))
           p5 == p4 ## Word(target + 1, struct(target + 1, promised, 1, 1))
<1>0. CallPointers(target, promised) = p5
  <2>1. 2 + 3 = 5 /\ 2 + 4 = 6
    OBVIOUS
  <2> QED BY <2>1 DEF CallPointers, StructPtr
<1> HIDE DEF struct
<1>1. DOMAIN p1 = {1} /\ p1[1] = struct(1, 2, 3, 3)
  BY One
<1> HIDE DEF p1
<1>2. Adds(p2, p1, 5, struct(5, target, 1, 1)) /\ DOMAIN p2 = {1, 5}
  <2>1. 5 \notin DOMAIN p1
    BY <1>1
  <2>2. Adds(p2, p1, 5, struct(5, target, 1, 1))
    BY <2>1, Beside, Zenon
  <2> QED BY <1>1, <2>2 DEF Adds
<1> HIDE DEF p2
<1>3. Adds(p3, p2, 6, struct(6, 8, 0, 2)) /\ DOMAIN p3 = {1, 5, 6}
  <2>1. 6 \notin DOMAIN p2
    BY <1>2
  <2>2. Adds(p3, p2, 6, struct(6, 8, 0, 2))
    BY <2>1, Beside, Zenon
  <2> QED BY <1>2, <2>2 DEF Adds
<1> HIDE DEF p3
<1>4. Adds(p4, p3, 8, struct(8, 10, 1, 3)) /\ DOMAIN p4 = {1, 5, 6, 8}
  <2>1. 8 \notin DOMAIN p3
    BY <1>3
  <2>2. Adds(p4, p3, 8, struct(8, 10, 1, 3))
    BY <2>1, Beside, Zenon
  <2> QED BY <1>3, <2>2 DEF Adds
<1> HIDE DEF p4
<1>5. /\ Adds(p5, p4, target + 1, struct(target + 1, promised, 1, 1))
      /\ DOMAIN p5 = {1, 5, 6, 8, target + 1}
  <2>1. target + 1 \notin DOMAIN p4
    BY <1>4
  <2>2. Adds(p5, p4, target + 1, struct(target + 1, promised, 1, 1))
    BY <2>1, Beside, Zenon
  <2> QED BY <1>4, <2>2 DEF Adds
<1> HIDE DEF p5
<1>6. p5[1] = struct(1, 2, 3, 3) /\ p5[6] = struct(6, 8, 0, 2) /\ p5[8] = struct(8, 10, 1, 3)
  BY <1>1, <1>2, <1>3, <1>4, <1>5 DEF Adds
<1> QED BY <1>0, <1>5, <1>6 DEF IsStruct, struct

Sent(s, params, n) ==
  /\ DOMAIN s = 0 .. 13 + n
  /\ IsStruct(s, 1, 2, 3, 3) /\ IsStruct(s, 6, 8, 0, 2) /\ IsStruct(s, 8, 10, 1, 3)
  /\ s[2] = Zero /\ s[3] = [kind |-> "id", id |-> REGISTRATION_SERVER_ID]
  /\ \A w \in 0 .. n - 1 : s[10 + w] = params[w]

LEMMA CallWordsPlaced ==
  ASSUME NEW n \in Nat, NEW params, DOMAIN params = 0 .. n - 1
  PROVE  Sent(CallWords(params, 10 + n, 12 + n), params, n)
<1> DEFINE p == CallPointers(10 + n, 12 + n)
           id == [kind |-> "id", id |-> REGISTRATION_SERVER_ID]
           i == p ## Word(3, id)
           a == At(10, params)
           b == Blank(14 + n)
           ia == i ## a
           s == ia ## b
<1>0. CallWords(params, 10 + n, 12 + n) = s
  <2>1. 2 + 1 = 3 /\ (12 + n) + 2 = 14 + n
    OBVIOUS
  <2> QED BY <2>1 DEF CallWords
<1>1. /\ DOMAIN p = {1, 5, 6, 8, 11 + n}
      /\ IsStruct(p, 1, 2, 3, 3) /\ IsStruct(p, 6, 8, 0, 2) /\ IsStruct(p, 8, 10, 1, 3)
  <2>1. 10 + n \in Nat /\ 10 <= 10 + n /\ (10 + n) + 1 = 11 + n
    OBVIOUS
  <2> QED BY <2>1, CallPointersPlaced
<1> HIDE DEF p, id
<1>2. Adds(i, p, 3, id)
  <2>1. 3 \notin DOMAIN p
    BY <1>1
  <2> QED BY <2>1, Beside, Zenon
<1>3. /\ DOMAIN i = {1, 5, 6, 8, 11 + n} \cup {3} /\ i[3] = id
      /\ \A w \in {1, 5, 6, 8, 11 + n} : i[w] = p[w]
  BY <1>1, <1>2 DEF Adds
<1> HIDE DEF i
<1>4. DOMAIN a = 10 .. 9 + n /\ \A w \in 0 .. n - 1 : a[10 + w] = params[w]
  <2>1. 10 \in Nat /\ 10 .. 10 + n - 1 = 10 .. 9 + n
    OBVIOUS
  <2> QED BY <2>1, SizeOf
<1> HIDE DEF a
<1>5. DOMAIN b = 0 .. 13 + n /\ \A w \in 0 .. 13 + n : b[w] = Zero
  <2>1. 14 + n \in Nat /\ (14 + n) - 1 = 13 + n
    OBVIOUS
  <2> QED BY <2>1, BlankWords
<1> HIDE DEF b
<1>6. /\ DOMAIN ia = DOMAIN i \cup DOMAIN a
      /\ \A w \in DOMAIN i : ia[w] = i[w]
      /\ \A w \in DOMAIN a : w \notin DOMAIN i => ia[w] = a[w]
  BY Over
<1> HIDE DEF ia
<1>7. /\ DOMAIN s = DOMAIN ia \cup DOMAIN b
      /\ \A w \in DOMAIN ia : s[w] = ia[w]
      /\ \A w \in DOMAIN b : w \notin DOMAIN ia => s[w] = b[w]
  BY Over
<1> HIDE DEF s
<1>8. DOMAIN s = 0 .. 13 + n
  <2>1. DOMAIN i \subseteq 0 .. 13 + n
    BY <1>3
  <2>2. DOMAIN a \subseteq 0 .. 13 + n
    BY <1>4
  <2> QED BY <1>5, <1>6, <1>7, <2>1, <2>2
<1>9. \A w \in {1, 5, 6, 8, 11 + n} : s[w] = p[w]
  BY <1>3, <1>6, <1>7
<1>10. s[3] = id
  BY <1>3, <1>6, <1>7
<1>11. s[2] = Zero
  <2>1. 2 \notin DOMAIN i
    BY <1>3
  <2>2. 2 \notin DOMAIN a /\ 2 \in 0 .. 13 + n
    BY <1>4
  <2> QED BY <1>5, <1>6, <1>7, <2>1, <2>2
<1>12. ASSUME NEW w \in 0 .. n - 1 PROVE s[10 + w] = params[w]
  <2>1. 10 + w \in 10 .. 9 + n
    OBVIOUS
  <2>2. 10 + w \notin {1, 5, 6, 8, 11 + n} \cup {3}
    OBVIOUS
  <2> QED BY <1>3, <1>4, <1>6, <1>7, <2>1, <2>2
<1>13. IsStruct(s, 1, 2, 3, 3) /\ IsStruct(s, 6, 8, 0, 2) /\ IsStruct(s, 8, 10, 1, 3)
  <2>1. s[1] = p[1] /\ s[6] = p[6] /\ s[8] = p[8]
    BY <1>9
  <2> QED BY <1>1, <2>1 DEF IsStruct
<1>14. Sent(s, params, n)
  BY <1>8, <1>10, <1>11, <1>12, <1>13 DEF Sent, id
<1> QED BY <1>0, <1>14

LEMMA NumberedCall ==
  ASSUME NEW n \in Nat, NEW params, NEW seg, Sent(seg, params, n)
  PROVE  LET s == Numbered(seg, {0}, 10 + n, 12 + n)
         IN  /\ DOMAIN s = 0 .. 13 + n
             /\ IsStruct(s, 1, 2, 3, 3) /\ IsStruct(s, 6, 8, 0, 2) /\ IsStruct(s, 8, 10, 1, 3)
             /\ {b \in 0 .. 15 : 32 + b \in s[2].bits} = TagBits(0)
             /\ s[3] = [kind |-> "id", id |-> REGISTRATION_SERVER_ID]
             /\ \A w \in 0 .. n - 1 : s[10 + w] = params[w]
<1> DEFINE s1 == SetU16(seg, 0, 0, TagBits(2))
           s2 == SetU32(s1, 2, 0, {0})
           s3 == SetU16(s2, 2, 4, TagBits(0))
           s4 == SetU16(s3, 10 + n, 0, TagBits(1))
           s5 == SetU32(s4, 12 + n, 0, {})
           s6 == SetU16(s5, 10 + n, 0, TagBits(0))
           s7 == SetU32(s6, 10 + n, 4, {})
           over == {0, 2, 10 + n, 12 + n}
<1>0. Numbered(seg, {0}, 10 + n, 12 + n) = s7
  BY DEF Numbered
<1>1. /\ DOMAIN seg = 0 .. 13 + n /\ seg[2] = Zero
      /\ seg[3] = [kind |-> "id", id |-> REGISTRATION_SERVER_ID]
      /\ IsStruct(seg, 1, 2, 3, 3) /\ IsStruct(seg, 6, 8, 0, 2) /\ IsStruct(seg, 8, 10, 1, 3)
      /\ \A w \in 0 .. n - 1 : seg[10 + w] = params[w]
  BY DEF Sent
<1>2. Only(s1, seg, {0}) /\ Only(s2, s1, {2}) /\ Only(s3, s2, {2})
  BY OnlyOne
<1>3. Only(s4, s3, {10 + n}) /\ Only(s5, s4, {12 + n}) /\ Only(s6, s5, {10 + n})
      /\ Only(s7, s6, {10 + n})
  BY OnlyOne
<1>4. s3[2] = SetNumber(SetNumber(Zero, I32(0), {0}), U16(2), TagBits(0))
  <2>1. 2 \in DOMAIN seg /\ 2 \in DOMAIN s1 /\ 2 \in DOMAIN s2 /\ s1[2] = seg[2]
    <3>1. 2 \in 0 .. 13 + n
      OBVIOUS
    <3> QED BY <1>1, <1>2, <3>1 DEF Only
  <2>2. s2[2] = SetNumber(s1[2], I32(0 \div 4), {0})
    BY <2>1, NumberWritten
  <2>3. s3[2] = SetNumber(s2[2], U16(4 \div 2), TagBits(0))
    <3> HIDE DEF s2
    <3> QED BY <2>1, NumberWritten
  <2>4. 0 \div 4 = 0 /\ 4 \div 2 = 2
    OBVIOUS
  <2> QED BY <1>1, <2>1, <2>2, <2>3, <2>4
<1> HIDE DEF s1, s2, s3, s4, s5, s6, s7
<1>5. /\ DOMAIN s7 = 0 .. 13 + n
      /\ \A w \in 0 .. 13 + n : w # 10 + n /\ w # 12 + n => s7[w] = s3[w]
      /\ \A w \in 0 .. 13 + n : w # 0 /\ w # 2 => s3[w] = seg[w]
  <2>1. DOMAIN s3 = 0 .. 13 + n /\ \A w \in 0 .. 13 + n : w # 0 /\ w # 2 => s3[w] = seg[w]
    BY <1>1, <1>2 DEF Only
  <2>2. DOMAIN s7 = DOMAIN s3 /\ \A w \in DOMAIN s3 : w # 10 + n /\ w # 12 + n => s7[w] = s3[w]
    BY <1>3 DEF Only
  <2> QED BY <2>1, <2>2
<1>6. \A w \in 0 .. 13 + n : w \notin {0, 2, 10 + n, 12 + n} => s7[w] = seg[w]
  BY <1>5
<1>7. s7[1] = seg[1] /\ s7[3] = seg[3] /\ s7[6] = seg[6] /\ s7[8] = seg[8]
  <2>1. \A w \in {1, 3, 6, 8} : w \in 0 .. 13 + n /\ w \notin {0, 2, 10 + n, 12 + n}
    OBVIOUS
  <2> QED BY <1>6, <2>1
<1>8. s7[2] = s3[2]
  <2>1. 2 \in 0 .. 13 + n /\ 2 # 10 + n /\ 2 # 12 + n
    OBVIOUS
  <2> QED BY <1>5, <2>1
<1>9. /\ IsStruct(s7, 1, 2, 3, 3) /\ IsStruct(s7, 6, 8, 0, 2) /\ IsStruct(s7, 8, 10, 1, 3)
  BY <1>1, <1>7 DEF IsStruct
<1>10. \A w \in 0 .. n - 1 : s7[10 + w] = params[w]
  <2> SUFFICES ASSUME NEW w \in 0 .. n - 1 PROVE s7[10 + w] = params[w]
    OBVIOUS
  <2>1. 10 + w \in 0 .. 13 + n /\ 10 + w \notin {0, 2, 10 + n, 12 + n}
    OBVIOUS
  <2> QED BY <1>1, <1>6, <2>1
<1>11. {b \in 0 .. 15 : 32 + b \in s7[2].bits} = TagBits(0)
  BY <1>4, <1>8, MethodWritten
<1> QED BY <1>0, <1>1, <1>5, <1>7, <1>9, <1>10, <1>11

(* The call that build_call_msg makes of a frame: which method it calls,   *)
(* and where the words of the frame are.                                   *)
LEMMA CallBuilt ==
  ASSUME NEW n \in Nat, NEW seg, DOMAIN seg = 0 .. n - 1
  PROVE  LET message == BuildCall({0}, Finish(seg, 0, 1, 3))
         IN  /\ Target(message, 0) = 0
             /\ Copied(message, 11, seg)
             /\ CallParams(message).data = 11
             /\ CallMethod(message) = [interface |-> REGISTRATION_SERVER_ID,
                                       number |-> TagBits(0)]
<1> DEFINE params == StripFraming(Finish(seg, 0, 1, 3))
           message == BuildCall({0}, Finish(seg, 0, 1, 3))
           words == CallWords(params, 10 + n, 12 + n)
           s == Numbered(words, {0}, 10 + n, 12 + n)
<1>1. DOMAIN params = 0 .. n - 1 /\ \A w \in 0 .. n - 1 : params[w] = seg[w]
  <2>1. DOMAIN params = 0 .. n - 1 /\ Copied(params, 0, seg)
    BY Stripped
  <2> HIDE DEF params
  <2>2. \A w \in 0 .. n - 1 : w + 0 = w
    OBVIOUS
  <2> QED BY <2>1, <2>2 DEF Copied
<1>2. Size(params) = n
  <2> HIDE DEF params
  <2> QED BY <1>1, SizeOf
<1>3. message = Finish(s, 0, 1, 1)
  <2>1. BuildCall({0}, Finish(seg, 0, 1, 3))
          = Finish(Numbered(CallWords(params, 10 + Size(params), (10 + Size(params)) + 2),
                            {0}, 10 + Size(params), (10 + Size(params)) + 2), 0, 1, 1)
    BY DEF BuildCall, Numbered, CallWords, CallPointers
  <2>2. (10 + n) + 2 = 12 + n
    OBVIOUS
  <2> HIDE DEF params
  <2> QED BY <1>2, <2>1, <2>2
<1> HIDE DEF params
<1>4. Sent(words, params, n)
  BY <1>1, CallWordsPlaced
<1> HIDE DEF words
<1>5. /\ DOMAIN s = 0 .. 13 + n
      /\ IsStruct(s, 1, 2, 3, 3) /\ IsStruct(s, 6, 8, 0, 2) /\ IsStruct(s, 8, 10, 1, 3)
      /\ {b \in 0 .. 15 : 32 + b \in s[2].bits} = TagBits(0)
      /\ s[3] = [kind |-> "id", id |-> REGISTRATION_SERVER_ID]
      /\ \A w \in 0 .. n - 1 : s[10 + w] = params[w]
  BY <1>4, NumberedCall
<1> HIDE DEF s, message
<1>6. Copied(message, 1, s) /\ Target(message, 0) = 0
  <2> DEFINE m == 14 + n
  <2>1. m \in Nat /\ DOMAIN s = 0 .. m - 1
    BY <1>5
  <2> HIDE DEF m
  <2>2. IsFrame(Finish(s, 0, 1, 1), s, m, 1, 1)
    BY <2>1, Finished, Zenon
  <2> QED BY <1>3, <2>2 DEF IsFrame
<1>7. \A w \in 0 .. 8 : w \in Nat /\ w \in DOMAIN s
  BY <1>5
<1> DEFINE root == StructAt(1, 1)
           c == Follow(message, root, Struct(0))
           payload == Follow(message, c, Struct(1))
<1>8. \A k \in Nat : Struct(k).at = k
  BY DEF Struct, Field
<1>9. c = StructAt(3, 3)
  <2>1. root.ptrs = 2
    BY DEF StructAt
  <2>2. root.ptrs + Struct(0).at = 1 + 1
    BY <1>8, <2>1
  <2>3. 1 \in Nat /\ 1 \in DOMAIN s /\ 2 \in Nat /\ 3 \in Nat /\ 2 + 1 = 3
    BY <1>7
  <2> HIDE DEF root
  <2>4. c = StructAt(2 + 1, 3)
    BY <1>5, <1>6, <2>2, <2>3, StructFollowed
  <2> QED BY <2>3, <2>4
<1>10. c.data = 3 /\ c.ptrs = 6
  BY <1>9 DEF StructAt
<1> HIDE DEF c
<1>11. payload = StructAt(9, 0)
  <2>1. c.ptrs + Struct(1).at = 6 + 1
    BY <1>8, <1>10
  <2>2. 6 \in Nat /\ 6 \in DOMAIN s /\ 8 \in Nat /\ 0 \in Nat /\ 1 \in Nat /\ 8 + 1 = 9
    BY <1>7
  <2>3. payload = StructAt(8 + 1, 0)
    BY <1>5, <1>6, <2>1, <2>2, StructFollowed
  <2> QED BY <2>2, <2>3
<1>12. payload.ptrs = 9
  BY <1>11 DEF StructAt
<1> HIDE DEF payload
<1>13. Follow(message, payload, Struct(0)) = StructAt(11, 1)
  <2>1. payload.ptrs + Struct(0).at = 8 + 1
    BY <1>8, <1>12
  <2>2. 8 \in Nat /\ 8 \in DOMAIN s /\ 10 \in Nat /\ 1 \in Nat /\ 10 + 1 = 11
    BY <1>7
  <2>3. Follow(message, payload, Struct(0)) = StructAt(10 + 1, 1)
    BY <1>5, <1>6, <2>1, <2>2, StructFollowed
  <2> QED BY <2>2, <2>3
<1>14. CallParams(message).data = 11
  <2>1. CallParams(message) = StructAt(11, 1)
    BY <1>13 DEF CallParams, payload, c, root
  <2> QED BY <2>1 DEF StructAt
<1>15. message[3] = s[2] /\ message[4] = s[3]
  <2>1. 2 \in DOMAIN s /\ 3 \in DOMAIN s /\ 2 + 1 = 3 /\ 3 + 1 = 4
    BY <1>7
  <2> QED BY <1>6, <2>1 DEF Copied
<1>16. CallMethod(message) = [interface |-> REGISTRATION_SERVER_ID, number |-> TagBits(0)]
  <2>1. U16(2).at = 32 /\ U16(2).width = 16
    BY DEF U16, Field
  <2>2. 32 \div 64 = 0 /\ 32 % 64 = 32
    OBVIOUS
  <2>3. NumberIn(message, c, U16(2)) = {b \in 0 .. 15 : 32 + b \in message[3].bits}
    <3> DEFINE f == U16(2)
    <3>1. f.at \div 64 = 0 /\ f.at % 64 = 32 /\ f.width - 1 = 15 /\ c.data + 0 = 3
      BY <1>10, <2>1, <2>2
    <3> HIDE DEF f
    <3>2. NumberIn(message, c, f) = {b \in 0 .. 15 : 32 + b \in message[3].bits}
      BY <3>1 DEF NumberIn
    <3> QED BY <3>2 DEF f
  <2>4. message[c.data + 1].id = REGISTRATION_SERVER_ID
    <3>1. c.data + 1 = 4
      BY <1>10
    <3> QED BY <1>5, <1>15, <3>1
  <2>5. CallMethod(message) = [interface |-> message[c.data + 1].id,
                               number |-> NumberIn(message, c, U16(2))]
    BY DEF CallMethod, c, root
  <2> QED BY <1>5, <1>15, <2>3, <2>4, <2>5
<1>17. Copied(message, 11, seg)
  <2> SUFFICES ASSUME NEW w \in 0 .. n - 1 PROVE message[w + 11] = seg[w]
    BY DEF Copied
  <2>1. 10 + w \in DOMAIN s /\ (10 + w) + 1 = w + 11
    BY <1>5
  <2>2. message[w + 11] = s[10 + w]
    BY <1>6, <2>1 DEF Copied
  <2> QED BY <1>1, <1>5, <2>2
<1> QED BY <1>6, <1>14, <1>16, <1>17 DEF message

(* The root of the bootstrap leads to itself, too.                         *)
LEMMA BootstrapRoot ==
  ASSUME NEW question_id PROVE Target(BuildBootstrap(question_id), 0) = 0
<1> DEFINE p == StructPtr(1, 2, 1, 1)
           seg == p ## Blank(4)
           s1 == SetU16(seg, 0, 0, TagBits(8))
           s2 == SetU32(s1, 2, 0, question_id)
<1>1. DOMAIN p = {1}
  BY One DEF StructPtr
<1>2. DOMAIN Blank(4) = 0 .. 4 - 1
  BY BlankWords
<1> HIDE DEF p
<1>3. DOMAIN seg = 0 .. 4 - 1
  <2>1. DOMAIN seg = {1} \cup 0 .. 4 - 1
    <3> DEFINE b == Blank(4)
    <3>1. DOMAIN b = 0 .. 4 - 1
      BY <1>2
    <3> HIDE DEF b
    <3>2. DOMAIN (p ## b) = DOMAIN p \cup DOMAIN b
      BY Over
    <3>3. DOMAIN (p ## b) = {1} \cup 0 .. 4 - 1
      BY <1>1, <3>1, <3>2
    <3> QED BY <3>3 DEF b
  <2> HIDE DEF seg
  <2> QED BY <2>1
<1> HIDE DEF seg
<1>4. DOMAIN s2 = 0 .. 4 - 1
  <2>1. Only(s1, seg, {0})
    BY OnlyOne
  <2> HIDE DEF s1
  <2>2. Only(s2, s1, {2})
    BY OnlyOne
  <2> HIDE DEF s2
  <2> QED BY <1>3, <2>1, <2>2 DEF Only
<1>5. BuildBootstrap(question_id) = Finish(s2, 0, 1, 1)
  BY DEF BuildBootstrap, s2, s1, seg, p
<1> HIDE DEF s2
<1>6. IsFrame(Finish(s2, 0, 1, 1), s2, 4, 1, 1)
  <2>1. 4 \in Nat
    OBVIOUS
  <2> QED BY <1>4, <2>1, Finished, Zenon
<1>7. Target(Finish(s2, 0, 1, 1), 0) = 0
  BY <1>6 DEF IsFrame
<1> QED BY <1>5, <1>7

(* The texts of the token never change.                                    *)
TextInv == IsText(Creds.a) /\ IsText(Creds.s.bytes) /\ IsText(Creds.t)

LEMMA NextTexts ==
  ASSUME TextInv, [Next]_vars PROVE TextInv'
<1>1. args' = args
  BY DEF Next, StartNext, OtherCommand, Decode, LookForConfig, LoadConfig, LookupAny,
         Lookup, EditConfig, ControlStream, HandleReply, EdgeAccepts, EdgeRejects,
         EdgeBreaks, Answered, vars, startVars
<1> QED BY <1>1 DEF TextInv, Creds

LEMMA EncodersSaySame ==
  ASSUME NEW a, NEW s, NEW t, NEW c, IsText(a), IsText(s), IsText(t), IsText(c), Len(c) = 16
  PROVE  LET params == EncodeRegisterConnection(a, s, t, {}, c, Version, Arch, Features)
             message == BuildCall({0}, params)
             said == [account_tag |-> a, tunnel_secret |-> s, tunnel_id |-> t,
                      conn_index |-> {}, replace_existing |-> {}, compression |-> {},
                      attempts |-> {}, origin_local_ip |-> <<>>, client_id |-> c,
                      features |-> Features, version |-> Version, arch |-> Arch]
         IN  /\ HandReads(params, 1) = said
             /\ HandReads(message, CallParams(message).data) = said
             /\ CallMethod(message) = [interface |-> REGISTRATION_SERVER_ID,
                                       number |-> TagBits(0)]
             /\ Target(params, 0) = 0 /\ Target(message, 0) = 0
<1> DEFINE params == EncodeRegisterConnection(a, s, t, {}, c, Version, Arch, Features)
           message == BuildCall({0}, params)
           said == [account_tag |-> a, tunnel_secret |-> s, tunnel_id |-> t,
                    conn_index |-> {}, replace_existing |-> {}, compression |-> {},
                    attempts |-> {}, origin_local_ip |-> <<>>, client_id |-> c,
                    features |-> Features, version |-> Version, arch |-> Arch]
<1>1. /\ IsText(Version) /\ IsText(Arch) /\ IsText(Features)
      /\ \A i \in DOMAIN Features : IsText(Features[i])
  BY RegistrationAssumption
<1>2. DOMAIN Features = 1 .. Len(Features)
  BY <1>1, TextFacts
<1>3. \A i \in 1 .. Len(Features) : IsText(Features[i])
  BY <1>1, <1>2
<1>4. /\ Len(a) \in Nat /\ Len(s) \in Nat /\ Len(t) \in Nat /\ Len(c) \in Nat
      /\ Len(Version) \in Nat /\ Len(Arch) \in Nat /\ Len(Features) \in Nat
      /\ \A i \in 1 .. Len(Features) : Len(Features[i]) \in Nat
  BY <1>1, <1>3, TextFacts
<1>5. PICK seg, n : /\ Holds(seg, n, a, s, t, c, Version, Arch, Features)
                    /\ params = Finish(seg, 0, 1, 3)
  <2>1. Encoded(a, s, t, c, Version, Arch, Features)
    BY <1>4, EncodedHolds, Zenon
  <2> HIDE DEF params
  <2>2. params = EncodeRegisterConnection(a, s, t, {}, c, Version, Arch, Features)
    BY DEF params
  <2> QED BY <2>1, <2>2 DEF Encoded
<1>6. n \in Nat /\ DOMAIN seg = 0 .. n - 1
  BY <1>5 DEF Holds
<1> HIDE DEF params
<1>7. Copied(params, 1, seg) /\ Target(params, 0) = 0
  <2>1. IsFrame(params, seg, n, 1, 3)
    BY <1>5, <1>6, Finished
  <2> QED BY <2>1 DEF IsFrame
<1>8. /\ Copied(message, 11, seg) /\ CallParams(message).data = 11
      /\ Target(message, 0) = 0
      /\ CallMethod(message) = [interface |-> REGISTRATION_SERVER_ID,
                                number |-> TagBits(0)]
  BY <1>5, <1>6, CallBuilt
<1> HIDE DEF message
<1>9. \A there : \A d \in Nat : Copied(there, d, seg) => HandReads(there, d) = said
  BY <1>1, <1>3, <1>5, HandReadsParams
<1>10. HandReads(params, 1) = said
  BY <1>7, <1>9
<1>11. HandReads(message, CallParams(message).data) = said
  BY <1>8, <1>9
<1> QED BY <1>7, <1>8, <1>10, <1>11 DEF params, message

LEMMA EncodersHold ==
  ASSUME CallInv, TextInv, pc = "ready" => client \in Clients
  PROVE  EncodersAgree
<1> SUFFICES ASSUME call # NoCall PROVE EncodersAgree
  BY DEF EncodersAgree, CallMade
<1> DEFINE a == Creds.a
           s == SecretBytes(Creds.s)
           t == Creds.t
<1>1. IsText(<<>>)
  <2>1. DOMAIN <<>> = {}
    OBVIOUS
  <2> QED BY <2>1 DEF IsText
<1>2. IsText(a) /\ IsText(s) /\ IsText(t)
  BY <1>1 DEF TextInv, SecretBytes
<1>3. IsText(client) /\ Len(client) = 16
  BY RegistrationAssumption DEF CallInv
<1>4. Said = [account_tag |-> a, tunnel_secret |-> s, tunnel_id |-> t,
              conn_index |-> {}, replace_existing |-> {}, compression |-> {},
              attempts |-> {}, origin_local_ip |-> <<>>, client_id |-> client,
              features |-> Features, version |-> Version, arch |-> Arch]
  BY DEF Said
<1>5. EdgeReads(FillRegisterConnection(a, s, t, client)) = Said
  BY <1>4, FillersAgree, EdgeReadsParams
<1> HIDE DEF a, s, t
<1>6. LET params == EncodeRegisterConnection(a, s, t, {}, client, Version, Arch, Features)
          message == BuildCall({0}, params)
      IN  /\ HandReads(params, 1) = Said
          /\ HandReads(message, CallParams(message).data) = Said
          /\ CallMethod(message) = [interface |-> REGISTRATION_SERVER_ID,
                                    number |-> TagBits(0)]
  BY <1>2, <1>3, <1>4, EncodersSaySame, Zenon
<1>7. /\ RegistrationServer.id = REGISTRATION_SERVER_ID
      /\ RegistrationServer.requests.register_connection.number = 0
  BY DEF RegistrationServer, Request, REGISTRATION_SERVER_ID
<1>8. HandParams = EncodeRegisterConnection(a, s, t, {}, client, Version, Arch, Features)
  BY DEF HandParams, a, s, t
<1> QED BY <1>5, <1>6, <1>7, <1>8, Zenon DEF EncodersAgree, a, s, t

(* The root pointer of every message put together by hand leads to itself. *)
LEMMA RootsOfMessages ==
  ASSUME CallInv, TextInv, pc = "ready" => client \in Clients, CallMade
  PROVE  \A seg \in HandMessages : Target(seg, 0) = 0
<1> DEFINE a == Creds.a
           s == SecretBytes(Creds.s)
           t == Creds.t
<1>1. IsText(<<>>)
  <2>1. DOMAIN <<>> = {}
    OBVIOUS
  <2> QED BY <2>1 DEF IsText
<1>2. IsText(a) /\ IsText(s) /\ IsText(t)
  BY <1>1 DEF TextInv, SecretBytes
<1>3. IsText(client) /\ Len(client) = 16
  BY RegistrationAssumption DEF CallInv, CallMade
<1>4. HandParams = EncodeRegisterConnection(a, s, t, {}, client, Version, Arch, Features)
  BY DEF HandParams, a, s, t
<1> HIDE DEF a, s, t
<1>5. Target(HandParams, 0) = 0 /\ Target(BuildCall({0}, HandParams), 0) = 0
  BY <1>2, <1>3, <1>4, EncodersSaySame, Zenon
<1>6. Target(BuildBootstrap({}), 0) = 0
  BY BootstrapRoot
<1> QED BY <1>5, <1>6 DEF HandMessages

-----------------------------------------------------------------------------
(* Answers taken apart by hand.                                            *)

(* The struct of a response, as the edge fills it in.                      *)
Shaped(r, tag, member, w, p) ==
  /\ r.words = w /\ DOMAIN r.slots = 0 .. p - 1 /\ r.slots[0] = member
  /\ {b \in 0 .. 15 : b \in r.bits} = TagBits(tag)

LEMMA ResponseShape ==
  ASSUME NEW tag, NEW member, NEW w \in 1 .. 2, NEW p \in 1 .. 2
  PROVE  Shaped(Response(tag, member, w, p).content, tag, member, w, p)
<1> DEFINE s == SetNumber(NewStruct(w, p), TagField, TagBits(tag))
           r == Set(s, Struct(0), member)
<1>1. /\ IsRecord(s) /\ s.words = w /\ DOMAIN s.slots = 0 .. p - 1
      /\ GetNumber(s, TagField) = TagBits(tag)
  BY TagRead
<1>2. IsPointer(Struct(0), 0, "struct") /\ 0 \in 0 .. p - 1
  BY PointerFields
<1> HIDE DEF s
<1>3. /\ r.words = w /\ r.bits = s.bits /\ DOMAIN r.slots = 0 .. p - 1
      /\ r.slots[0] = member
  BY <1>1, <1>2, PutPointer DEF IsPointer
<1>4. Response(tag, member, w, p).content = r
  BY DEF Response, Pointee, s
<1> HIDE DEF r
<1>5. {b \in 0 .. 15 : b \in r.bits} = TagBits(tag)
  <2>1. TagField.at = 0 /\ TagField.width = 16 /\ TagField.section = "data"
    BY DEF TagField, U16, Field
  <2>2. Fits(s, TagField)
    BY <1>1, <2>1 DEF Fits
  <2>3. GetNumber(s, TagField) = {b \in 0 .. 15 : 0 + b \in s.bits}
    BY <2>1, <2>2 DEF GetNumber
  <2> QED BY <1>1, <1>3, <2>3
<1> QED BY <1>3, <1>4, <1>5 DEF Shaped

(* What the client finds behind the pointer of the results.                *)
LEMMA ResponseFound ==
  ASSUME NEW tag, NEW member, NEW w \in 1 .. 2, NEW p \in 1 .. 2
  PROVE  Sub(Results(Response(tag, member, w, p)), RegisterConnectionResultsReader.result)
           = Response(tag, member, w, p).content
<1> DEFINE x == Response(tag, member, w, p)
<1>1. x = Pointee("struct", x.content)
  BY ResponseReads
<1> HIDE DEF x
<1>2. x.type = "struct"
  BY <1>1 DEF Pointee
<1>3. GetPointer(Results(x), RegisterConnectionResultsReader.result) = x
  BY <1>2, ResultsRead
<1> QED BY <1>2, <1>3 DEF Sub, x

(* The first words of a response: where its data are, and the tag.         *)
Front(s) ==
  StructPtr(0, 1, s.words, SlotsOf(s)) ## At(1, DataOf(s))
    ## At(1, Blank(s.words + SlotsOf(s)))

Headed(h, s, w, p) ==
  /\ h[0] = [kind |-> "struct", offset |-> 0, words |-> w, slots |-> p]
  /\ h[1].bits = {b \in 0 .. 63 : b \in s.bits}

LEMMA HeadPlaced ==
  ASSUME NEW s, NEW w \in 1 .. 2, NEW p \in 1 .. 2, s.words = w, DOMAIN s.slots = 0 .. p - 1
  PROVE  Headed(Front(s), s, w, p) /\ DOMAIN Front(s) = 0 .. w + p
<1> DEFINE root == [kind |-> "struct", offset |-> 1 - 0 - 1, words |-> w, slots |-> p]
           r == Word(0, root)
           a == At(1, DataOf(s))
           b == At(1, Blank(w + p))
           ra == r ## a
           h == ra ## b
<1>0. SlotsOf(s) = p
  <2>1. p \in Nat
    OBVIOUS
  <2>2. Cardinality(0 .. p - 1) = p
    BY <2>1, FS_Interval
  <2> QED BY <2>2 DEF SlotsOf
<1>1. Front(s) = h
  BY <1>0 DEF Front, StructPtr
<1>2. DOMAIN r = {0} /\ r[0] = root
  BY One
<1> HIDE DEF r
<1>3. /\ DOMAIN DataOf(s) = 0 .. w - 1
      /\ DataOf(s)[0] = Numbers({k \in 0 .. 63 : k \in s.bits})
  <2>1. DataOf(s) = [i \in 0 .. w - 1 |-> Numbers({k \in 0 .. 63 : 64 * i + k \in s.bits})]
    BY DEF DataOf
  <2>2. 0 \in 0 .. w - 1
    OBVIOUS
  <2>3. \A k \in 0 .. 63 : 64 * 0 + k = k
    OBVIOUS
  <2>4. {k \in 0 .. 63 : 64 * 0 + k \in s.bits} = {k \in 0 .. 63 : k \in s.bits}
    BY <2>3
  <2> QED BY <2>1, <2>2, <2>4
<1>4. DOMAIN a = 1 .. w /\ a[1] = DataOf(s)[0]
  <2> DEFINE d == DataOf(s)
  <2>1. w \in Nat /\ 1 \in Nat /\ 1 .. 1 + w - 1 = 1 .. w /\ 0 \in 0 .. w - 1 /\ 1 + 0 = 1
    OBVIOUS
  <2>2. DOMAIN d = 0 .. w - 1
    BY <1>3
  <2> HIDE DEF d
  <2>3. \A v \in Nat : /\ DOMAIN At(v, d) = v .. v + w - 1
                        /\ \A i \in 0 .. w - 1 : At(v, d)[v + i] = d[i]
    <3>1. w \in Nat
      BY <2>1
    <3> QED BY <2>2, <3>1, SizeOf
  <2>4. DOMAIN At(1, d) = 1 .. 1 + w - 1
    BY Zenon, <2>1, <2>3
  <2>5. At(1, d)[1 + 0] = d[0]
    BY Zenon, <2>1, <2>3
  <2> QED BY <2>1, <2>4, <2>5 DEF d
<1> HIDE DEF a
<1>5. DOMAIN b = 1 .. w + p
  <2> DEFINE n == w + p
  <2>1. n \in Nat /\ 1 \in Nat /\ 1 .. 1 + n - 1 = 1 .. n
    OBVIOUS
  <2>2. DOMAIN Blank(n) = 0 .. n - 1
    BY <2>1, BlankWords
  <2> HIDE DEF n
  <2>3. \A v \in Nat : DOMAIN At(v, Blank(n)) = v .. v + n - 1
    BY <2>1, <2>2, SizeOf
  <2>4. DOMAIN At(1, Blank(n)) = 1 .. n
    BY Zenon, <2>1, <2>3
  <2> QED BY <2>4 DEF n
<1> HIDE DEF b
<1>6. /\ DOMAIN ra = DOMAIN r \cup DOMAIN a
      /\ \A x \in DOMAIN r : ra[x] = r[x]
      /\ \A x \in DOMAIN a : x \notin DOMAIN r => ra[x] = a[x]
  BY Over
<1> HIDE DEF ra
<1>7. /\ DOMAIN h = DOMAIN ra \cup DOMAIN b
      /\ \A x \in DOMAIN ra : h[x] = ra[x]
  BY Over
<1> HIDE DEF h
<1>8. DOMAIN h = 0 .. w + p
  <2>1. DOMAIN h = {0} \cup 1 .. w \cup 1 .. w + p
    BY <1>2, <1>4, <1>5, <1>6, <1>7
  <2> QED BY <2>1
<1>9. h[0] = root /\ h[1] = Numbers({k \in 0 .. 63 : k \in s.bits})
  <2>1. 1 \in 1 .. w
    OBVIOUS
  <2> HIDE DEF root
  <2> QED BY <1>2, <1>3, <1>4, <1>6, <1>7, <2>1
<1>10. root = [kind |-> "struct", offset |-> 0, words |-> w, slots |-> p]
  <2>1. 1 - 0 - 1 = 0
    OBVIOUS
  <2> QED BY <2>1
<1>11. h[1].bits = {k \in 0 .. 63 : k \in s.bits}
  BY <1>9 DEF Numbers
<1> QED BY <1>1, <1>8, <1>9, <1>10, <1>11 DEF Headed

LEMMA OverAbove ==
  ASSUME NEW f, NEW g, NEW w, w \in DOMAIN f
  PROVE  w \in DOMAIN (f ## g) /\ (f ## g)[w] = f[w]
<1> DEFINE h == f ## g
<1>1. /\ DOMAIN h = DOMAIN f \cup DOMAIN g
      /\ \A x \in DOMAIN f : h[x] = f[x]
      /\ \A x \in DOMAIN g : x \notin DOMAIN f => h[x] = g[x]
  BY Over
<1> HIDE DEF h
<1>2. w \in DOMAIN h /\ h[w] = f[w]
  BY <1>1
<1> QED BY <1>2 DEF h

LEMMA OverBelow ==
  ASSUME NEW f, NEW g, NEW w, w \in DOMAIN g, w \notin DOMAIN f
  PROVE  w \in DOMAIN (f ## g) /\ (f ## g)[w] = g[w]
<1> DEFINE h == f ## g
<1>1. /\ DOMAIN h = DOMAIN f \cup DOMAIN g
      /\ \A x \in DOMAIN f : h[x] = f[x]
      /\ \A x \in DOMAIN g : x \notin DOMAIN f => h[x] = g[x]
  BY Over
<1> HIDE DEF h
<1>2. w \in DOMAIN h /\ h[w] = g[w]
  BY <1>1
<1> QED BY <1>2 DEF h

(* The tag that is found in a segment that begins in that way.             *)
LEMMA TagFound ==
  ASSUME NEW framed, NEW s, NEW w \in 1 .. 2, NEW p \in 1 .. 2, NEW tag,
         Headed(framed, s, w, p), Shaped(s, tag, s.slots[0], w, p)
  PROVE  GetNumber([words |-> 1, bits |-> framed[1].bits], TagField) = TagBits(tag)
<1>0. /\ framed[1].bits = {b \in 0 .. 63 : b \in s.bits}
      /\ {b \in 0 .. 15 : b \in s.bits} = TagBits(tag)
  BY DEF Headed, Shaped
<1>1. TagField.at = 0 /\ TagField.width = 16 /\ TagField.section = "data"
  BY DEF TagField, U16, Field
<1> DEFINE word == [words |-> 1, bits |-> framed[1].bits]
<1>2. word.words = 1 /\ word.bits = framed[1].bits
  OBVIOUS
<1> HIDE DEF word
<1>3. GetNumber(word, TagField) = {b \in 0 .. 15 : 0 + b \in word.bits}
  <2>1. Fits(word, TagField)
    BY <1>1, <1>2 DEF Fits
  <2> QED BY <1>1, <2>1 DEF GetNumber
<1>4. \A b \in 0 .. 15 : 0 + b \in word.bits <=> b \in s.bits
  BY <1>0, <1>2
<1>5. GetNumber(word, TagField) = TagBits(tag)
  BY <1>0, <1>3, <1>4
<1> QED BY <1>5 DEF word

(* An answer with another tag than that of an acceptance is none.          *)
LEMMA OthersDecoded ==
  ASSUME NEW tag \in {0, 2}, NEW member, NEW w \in 1 .. 2, NEW p \in 1 .. 2
  PROVE  ~DecodeConnectionResponse(WriteResponse(Response(tag, member, w, p).content)).ok
<1> DEFINE r == Response(tag, member, w, p).content
           framed == WriteResponse(r)
           front == Front(r)
<1>1. /\ r.words = w /\ DOMAIN r.slots = 0 .. p - 1 /\ r.slots[0] = member
      /\ {b \in 0 .. 15 : b \in r.bits} = TagBits(tag)
  <2>1. Shaped(r, tag, member, w, p)
    BY ResponseShape
  <2> HIDE DEF r
  <2> QED BY <2>1 DEF Shaped
<1> HIDE DEF r
<1>2. Headed(front, r, w, p) /\ DOMAIN front = 0 .. w + p
  BY <1>1, HeadPlaced
<1>3. framed[0] = front[0] /\ framed[1] = front[1]
  <2>1. CASE member.type # "struct"
    <3>1. framed = front
      BY <1>1, <2>1 DEF WriteResponse, Front
    <3> QED BY <3>1
  <2>2. CASE member.type = "struct"
    <3> DEFINE body == 1 + w + SlotsOf(r)
               ptr == StructPtr(1 + w, body, member.content.words, SlotsOf(member.content))
               pf == ptr ## front
               text == WriteText(member.content, body)
    <3>1. framed = pf ## text
      BY <1>1, <2>2 DEF WriteResponse, Front
    <3>2. DOMAIN ptr = {1 + w}
      BY One DEF StructPtr
    <3> HIDE DEF ptr, text
    <3>3. 0 \notin DOMAIN ptr /\ 1 \notin DOMAIN ptr
      BY <3>2
    <3>4. 0 \in DOMAIN front /\ 1 \in DOMAIN front
      BY <1>2
    <3> HIDE DEF front
    <3>5. 0 \in DOMAIN pf /\ 1 \in DOMAIN pf /\ pf[0] = front[0] /\ pf[1] = front[1]
      BY <3>3, <3>4, OverBelow
    <3> HIDE DEF pf
    <3>6. \A x \in DOMAIN pf : (pf ## text)[x] = pf[x]
      BY Over
    <3> HIDE DEF framed
    <3> QED BY <3>1, <3>5, <3>6
  <2> QED BY <2>1, <2>2
<1> HIDE DEF framed, front
<1>4. /\ GetNumber([words |-> 1, bits |-> framed[1].bits], TagField) = TagBits(tag)
      /\ 1 + framed[0].offset = 1
  <2>1. Headed(framed, r, w, p) /\ Shaped(r, tag, r.slots[0], w, p)
    BY <1>1, <1>2, <1>3 DEF Headed, Shaped
  <2>2. GetNumber([words |-> 1, bits |-> framed[1].bits], TagField) = TagBits(tag)
    BY <2>1, TagFound
  <2>3. framed[0].offset = 0
    BY <1>2, <1>3 DEF Headed
  <2> QED BY <2>2, <2>3
<1>5. TagBits(tag) # TagBits(1)
  BY TagsDiffer
<1>6. \A why : Failure(why).ok = FALSE
  BY DEF Failure
<1>7. ~DecodeConnectionResponse(framed).ok
  BY <1>4, <1>5, <1>6 DEF DecodeConnectionResponse
<1> QED BY <1>7 DEF framed, r

-----------------------------------------------------------------------------
(* An acceptance taken apart.                                              *)

LEMMA OverFinite ==
  ASSUME NEW f, NEW g, IsFiniteSet(DOMAIN f), IsFiniteSet(DOMAIN g)
  PROVE  IsFiniteSet(DOMAIN (f ## g))
<1>1. DOMAIN (f ## g) = DOMAIN f \cup DOMAIN g
  BY Over
<1> QED BY <1>1, FS_Union

LEMMA WordFinite ==
  ASSUME NEW w, NEW v PROVE IsFiniteSet(DOMAIN Word(w, v))
<1>1. DOMAIN Word(w, v) = {w}
  BY One
<1> QED BY <1>1, FS_Singleton

LEMMA AtFinite ==
  ASSUME NEW w \in Nat, NEW seg, NEW n \in Nat, DOMAIN seg = 0 .. n - 1
  PROVE  IsFiniteSet(DOMAIN At(w, seg))
<1>1. DOMAIN At(w, seg) = w .. w + n - 1
  BY SizeOf
<1>2. w \in Int /\ w + n - 1 \in Int
  OBVIOUS
<1> QED BY <1>1, <1>2, FS_Interval

LEMMA DetailsShape ==
  ASSUME NEW location, NEW slots \in 1 .. 3
  PROVE  LET s == Details(location, slots).content
             used == {i \in DOMAIN s.slots : s.slots[i].type = "text"}
         IN  /\ s.words = 1 /\ s.bits = {} /\ DOMAIN s.slots = 0 .. slots - 1
             /\ \/ used = {}
                \/ used = {1} /\ s.slots[1].content = location
<1> DEFINE n == NewStruct(1, slots)
           r == Set(n, Text(1), Pointee("text", location))
<1>1. /\ IsRecord(n) /\ n.words = 1 /\ n.bits = {} /\ DOMAIN n.slots = 0 .. slots - 1
      /\ \A i \in 0 .. slots - 1 : n.slots[i] = Null
  BY NewIsEmpty
<1> HIDE DEF n
<1>2. Null.type # "text" /\ Pointee("text", location).type = "text"
      /\ Pointee("text", location).content = location
  BY DEF Null, Pointee
<1>3. CASE slots < 2
  <2>1. Details(location, slots).content = n
    BY <1>3 DEF Details, Pointee, n
  <2>2. {i \in DOMAIN n.slots : n.slots[i].type = "text"} = {}
    BY <1>1, <1>2
  <2> QED BY <1>1, <2>1, <2>2
<1>4. CASE ~(slots < 2)
  <2>1. IsPointer(Text(1), 1, "text") /\ 1 \in 0 .. slots - 1
    BY <1>4, PointerFields
  <2>2. /\ r.words = 1 /\ r.bits = {} /\ DOMAIN r.slots = 0 .. slots - 1
        /\ r.slots[1] = Pointee("text", location)
        /\ \A i \in 0 .. slots - 1 : i # 1 => r.slots[i] = n.slots[i]
    BY <1>1, <2>1, PutPointer DEF IsPointer
  <2>3. Details(location, slots).content = r
    BY <1>4 DEF Details, Pointee, n
  <2> HIDE DEF r
  <2>4. \A i \in 0 .. slots - 1 : r.slots[i].type = "text" <=> i = 1
    BY <1>1, <1>2, <2>2
  <2>5. {i \in DOMAIN r.slots : r.slots[i].type = "text"} = {1}
    BY <2>1, <2>2, <2>4
  <2> QED BY <1>2, <2>2, <2>3, <2>5
<1> QED BY <1>3, <1>4

LEMMA DetailsWritten ==
  ASSUME NEW location, NEW slots \in 1 .. 3, IsText(location)
  PROVE  LET t == WriteText(Details(location, slots).content, 3)
         IN  IsFiniteSet(DOMAIN t) /\ 3 \in DOMAIN t /\ t[3] = Zero
<1> DEFINE s == Details(location, slots).content
           used == {i \in DOMAIN s.slots : s.slots[i].type = "text"}
           t == WriteText(s, 3)
           a == At(3, DataOf(s))
<1>1. /\ s.words = 1 /\ s.bits = {} /\ DOMAIN s.slots = 0 .. slots - 1
      /\ \/ used = {}
         \/ used = {1} /\ s.slots[1].content = location
  BY DetailsShape
<1> HIDE DEF s
<1>2. SlotsOf(s) = slots
  <2>1. Cardinality(0 .. slots - 1) = slots
    BY FS_Interval
  <2> QED BY <1>1, <2>1 DEF SlotsOf
<1>3. DOMAIN DataOf(s) = 0 .. 1 - 1 /\ DataOf(s)[0] = Zero
  <2>1. DataOf(s) = [w \in 0 .. 1 - 1 |-> Numbers({b \in 0 .. 63 : 64 * w + b \in {}})]
    BY <1>1 DEF DataOf
  <2>2. 0 \in 0 .. 1 - 1 /\ {b \in 0 .. 63 : 64 * 0 + b \in {}} = {}
    OBVIOUS
  <2> QED BY <2>1, <2>2 DEF Zero
<1>4. IsFiniteSet(DOMAIN a) /\ 3 \in DOMAIN a /\ a[3] = Zero
  <2> DEFINE d == DataOf(s)
  <2>1. DOMAIN d = 0 .. 1 - 1 /\ d[0] = Zero
    BY <1>3
  <2> HIDE DEF d
  <2>2. 1 \in Nat /\ 3 \in Nat /\ 0 \in 0 .. 1 - 1 /\ 3 + 0 = 3 /\ 3 \in 3 .. 3 + 1 - 1
    OBVIOUS
  <2>3. DOMAIN At(3, d) = 3 .. 3 + 1 - 1 /\ At(3, d)[3 + 0] = d[0]
    BY <2>1, <2>2, SizeOf
  <2>4. IsFiniteSet(DOMAIN At(3, d))
    BY <2>1, <2>2, AtFinite
  <2> QED BY <2>1, <2>2, <2>3, <2>4 DEF d
<1> HIDE DEF a
<1>5. \A n \in Nat : IsFiniteSet(DOMAIN At(3, Blank(n)))
  <2> SUFFICES ASSUME NEW n \in Nat PROVE IsFiniteSet(DOMAIN At(3, Blank(n)))
    OBVIOUS
  <2>1. DOMAIN Blank(n) = 0 .. n - 1
    BY BlankWords
  <2>2. 3 \in Nat
    OBVIOUS
  <2> QED BY <2>1, <2>2, AtFinite
<1> DEFINE Written == IsFiniteSet(DOMAIN t) /\ 3 \in DOMAIN t /\ t[3] = Zero
<1>6. ASSUME used = {} PROVE Written
  <2> DEFINE b == At(3, Blank(1 + slots))
  <2>1. t = a ## b
    BY <1>1, <1>2, <1>6 DEF WriteText, a
  <2>2. 1 + slots \in Nat
    OBVIOUS
  <2>3. IsFiniteSet(DOMAIN b)
    BY <1>5, <2>2
  <2> HIDE DEF b, t
  <2>4. IsFiniteSet(DOMAIN (a ## b))
    BY <1>4, <2>3, OverFinite
  <2>5. 3 \in DOMAIN (a ## b) /\ (a ## b)[3] = a[3]
    BY <1>4, OverAbove
  <2> QED BY <1>4, <2>1, <2>4, <2>5
<1>7. ASSUME used = {1}, s.slots[1].content = location PROVE Written
  <2> DEFINE after == 3 + 1 + slots
             ptr == DataPtr(3 + 1 + 1, after, Len(location) + 1)
             x == At(after, Bytes8(location))
             b == At(3, Blank(1 + slots + TextWords(location)))
             px == ptr ## x
             pxa == px ## a
  <2>0. (CHOOSE i \in used : TRUE) = 1
    BY <1>7
  <2>1. t = pxa ## b
    <3> HIDE DEF used
    <3>1. used # {}
      BY <1>7
    <3>2. t = IF used = {} THEN a ## At(3, Blank(s.words + SlotsOf(s)))
              ELSE DataPtr(3 + s.words + (CHOOSE i \in used : TRUE), 3 + s.words + SlotsOf(s),
                           Len(s.slots[CHOOSE i \in used : TRUE].content) + 1)
                   ## At(3 + s.words + SlotsOf(s),
                         Bytes8(s.slots[CHOOSE i \in used : TRUE].content))
                   ## a
                   ## At(3, Blank(s.words + SlotsOf(s)
                                  + TextWords(s.slots[CHOOSE i \in used : TRUE].content)))
      BY DEF WriteText, a, used
    <3> QED BY <1>1, <1>2, <1>7, <2>0, <3>1, <3>2
  <2>2. Len(location) \in Nat /\ TextWords(location) \in Nat /\ DataWords(location) \in Nat
    BY TextFacts, WordsOf
  <2>3. after \in Nat /\ 5 < after /\ 1 + slots + TextWords(location) \in Nat
    <3> DEFINE k == TextWords(location)
    <3>1. k \in Nat
      BY <2>2
    <3> HIDE DEF k
    <3>3. 2 <= slots
      <4>1. 1 \in 0 .. slots - 1
        BY <1>1, <1>7
      <4> QED BY <4>1
    <3>2. after \in Nat /\ 5 < after /\ 1 + slots + k \in Nat
      BY <3>1, <3>3
    <3> QED BY <3>2 DEF k
  <2>4. IsFiniteSet(DOMAIN b)
    BY <1>5, <2>3
  <2>5. DOMAIN ptr = {5} /\ IsFiniteSet(DOMAIN ptr)
    <3>1. 3 + 1 + 1 = 5
      OBVIOUS
    <3>2. DOMAIN ptr = {3 + 1 + 1}
      BY One DEF DataPtr, ListPtr
    <3> HIDE DEF ptr
    <3> QED BY <3>1, <3>2, FS_Singleton
  <2>6. DOMAIN x = after .. after + DataWords(location) - 1 /\ IsFiniteSet(DOMAIN x)
    <3>1. DOMAIN x = after .. after + DataWords(location) - 1
      BY <2>2, <2>3, PlacedText
    <3> DEFINE last == after + DataWords(location) - 1
    <3>2. after \in Int /\ last \in Int
      BY <2>2, <2>3
    <3> HIDE DEF x, last, after
    <3>3. IsFiniteSet(after .. last)
      BY <3>2, FS_Interval
    <3> QED BY <3>1, <3>3 DEF last
  <2>7. 3 \notin DOMAIN ptr /\ 3 \notin DOMAIN x
    <3>1. \A w \in after .. after + DataWords(location) - 1 : w # 3
      BY <2>2, <2>3
    <3> HIDE DEF x, ptr, after
    <3> QED BY <2>5, <2>6, <3>1
  <2> HIDE DEF ptr, x, b, after, used, t
  <2>8. IsFiniteSet(DOMAIN px) /\ 3 \notin DOMAIN px
    <3>1. DOMAIN px = DOMAIN ptr \cup DOMAIN x
      BY Over
    <3>2. IsFiniteSet(DOMAIN px)
      BY <2>5, <2>6, OverFinite
    <3> HIDE DEF px
    <3> QED BY <2>7, <3>1, <3>2
  <2> HIDE DEF px
  <2>9. IsFiniteSet(DOMAIN pxa) /\ 3 \in DOMAIN pxa /\ pxa[3] = Zero
    <3>1. IsFiniteSet(DOMAIN (px ## a))
      BY <1>4, <2>8, OverFinite
    <3>2. 3 \in DOMAIN (px ## a) /\ (px ## a)[3] = a[3]
      BY <1>4, <2>8, OverBelow
    <3> QED BY <1>4, <3>1, <3>2
  <2> HIDE DEF pxa
  <2>10. IsFiniteSet(DOMAIN (pxa ## b))
    BY <2>4, <2>9, OverFinite
  <2>11. 3 \in DOMAIN (pxa ## b) /\ (pxa ## b)[3] = pxa[3]
    BY <2>9, OverAbove
  <2> QED BY <2>1, <2>9, <2>10, <2>11
<1> QED BY <1>1, <1>6, <1>7 DEF s

LEMMA CountUpTo ==
  ASSUME NEW n \in Nat PROVE Cardinality(0 .. n - 1) = n /\ IsFiniteSet(0 .. n - 1)
<1>1. 0 \in Int /\ n - 1 \in Int
  OBVIOUS
<1> QED BY <1>1, FS_Interval

(* An acceptance is one, but the place is looked for where it is not.      *)
LEMMA AcceptanceDecoded ==
  ASSUME NEW location, NEW slots \in 1 .. 3, IsText(location)
  PROVE  DecodeConnectionResponse(
           WriteResponse(Response(1, Details(location, slots), 1, 1).content))
           = [ok |-> TRUE, text |-> <<>>]
<1> DEFINE member == Details(location, slots)
           r == Response(1, member, 1, 1).content
           framed == WriteResponse(r)
           front == Front(r)
           text == WriteText(member.content, 3)
<1>0. IsFiniteSet(DOMAIN text) /\ 3 \in DOMAIN text /\ text[3] = Zero
  BY DetailsWritten
<1>1. /\ member.type = "struct" /\ r.words = 1 /\ DOMAIN r.slots = 0 .. 1 - 1
      /\ r.slots[0] = member /\ {b \in 0 .. 15 : b \in r.bits} = TagBits(1)
  <2>1. member.type = "struct"
    BY LocationRead
  <2> HIDE DEF member
  <2>2. 1 \in 1 .. 2
    OBVIOUS
  <2>3. Shaped(r, 1, member, 1, 1)
    BY <2>2, ResponseShape
  <2> HIDE DEF r
  <2> QED BY <2>1, <2>3 DEF Shaped
<1> HIDE DEF member, text, r
<1>2. Headed(front, r, 1, 1) /\ DOMAIN front = 0 .. 1 + 1
  <2>1. 1 \in 1 .. 2
    OBVIOUS
  <2> QED BY <1>1, <2>1, HeadPlaced
<1>3. SlotsOf(r) = 1
  <2>1. Cardinality(0 .. 1 - 1) = 1
    <3>1. 1 \in Nat
      OBVIOUS
    <3> QED BY <3>1, CountUpTo, Zenon
  <2> QED BY <1>1, <2>1 DEF SlotsOf
<1> DEFINE ptr == StructPtr(2, 3, member.content.words, SlotsOf(member.content))
           pf == ptr ## front
<1>4. framed = pf ## text
  <2>1. 1 + 1 + 1 = 3 /\ 1 + 1 = 2
    OBVIOUS
  <2>2. framed = StructPtr(1 + r.words, 1 + r.words + SlotsOf(r), member.content.words,
                           SlotsOf(member.content))
                 ## front ## WriteText(member.content, 1 + r.words + SlotsOf(r))
    BY <1>1 DEF WriteResponse, Front
  <2> QED BY <1>1, <1>3, <2>1, <2>2 DEF text
<1>5. DOMAIN ptr = {2}
  BY One DEF StructPtr
<1>6. IsFiniteSet(DOMAIN ptr) /\ IsFiniteSet(DOMAIN front)
  <2>1. IsFiniteSet({2})
    BY FS_Singleton
  <2>2. IsFiniteSet(0 .. 3 - 1)
    <3>1. 3 \in Nat
      OBVIOUS
    <3> QED BY <3>1, CountUpTo, Zenon
  <2>3. 0 .. 3 - 1 = 0 .. 1 + 1
    OBVIOUS
  <2> HIDE DEF ptr, front
  <2> QED BY <1>2, <1>5, <2>1, <2>2, <2>3
<1> HIDE DEF ptr, front
<1>7. IsFiniteSet(DOMAIN pf) /\ DOMAIN pf = {0, 1, 2} /\ pf[0] = front[0] /\ pf[1] = front[1]
  <2>1. DOMAIN pf = DOMAIN ptr \cup DOMAIN front
    BY Over
  <2>2. IsFiniteSet(DOMAIN pf)
    BY <1>6, OverFinite
  <2>3. 0 \in DOMAIN front /\ 1 \in DOMAIN front /\ 0 \notin DOMAIN ptr /\ 1 \notin DOMAIN ptr
    BY <1>2, <1>5
  <2>4. pf[0] = front[0] /\ pf[1] = front[1]
    BY <2>3, OverBelow
  <2>5. {2} \cup 0 .. 1 + 1 = {0, 1, 2}
    OBVIOUS
  <2> HIDE DEF pf
  <2> QED BY <1>2, <1>5, <2>1, <2>2, <2>4, <2>5
<1> HIDE DEF pf, framed
<1>8. /\ IsFiniteSet(DOMAIN framed) /\ {0, 1, 2} \subseteq DOMAIN framed
      /\ framed[0] = front[0] /\ framed[1] = front[1] /\ framed[3] = Zero
      /\ 3 \in DOMAIN framed
  <2>1. IsFiniteSet(DOMAIN (pf ## text))
    BY <1>0, <1>7, OverFinite
  <2>2. DOMAIN (pf ## text) = DOMAIN pf \cup DOMAIN text
    BY Over
  <2>3. 0 \in DOMAIN pf /\ 1 \in DOMAIN pf /\ 3 \notin DOMAIN pf
    BY <1>7
  <2>4. (pf ## text)[0] = pf[0] /\ (pf ## text)[1] = pf[1]
    BY <2>3, OverAbove
  <2>5. 3 \in DOMAIN (pf ## text) /\ (pf ## text)[3] = text[3]
    BY <1>0, <2>3, OverBelow
  <2> QED BY <1>0, <1>4, <1>7, <2>1, <2>2, <2>4, <2>5
<1>9. Size(framed) \in Nat /\ 3 <= Size(framed)
  <2>1. Cardinality(0 .. 3 - 1) = 3
    <3>1. 3 \in Nat
      OBVIOUS
    <3> QED BY <3>1, CountUpTo, Zenon
  <2>2. {0, 1, 2} = 0 .. 3 - 1
    OBVIOUS
  <2>3. {0, 1, 2} \in SUBSET (DOMAIN framed)
    BY <1>8
  <2>4. Cardinality({0, 1, 2}) <= Cardinality(DOMAIN framed)
    BY <1>8, <2>3, FS_Subset
  <2>5. Cardinality(DOMAIN framed) \in Nat
    BY <1>8, FS_CardinalityType
  <2> QED BY <2>1, <2>2, <2>4, <2>5 DEF Size
<1>10. Headed(framed, r, 1, 1)
  BY <1>2, <1>8 DEF Headed
<1>11. GetNumber([words |-> 1, bits |-> framed[1].bits], TagField) = TagBits(1)
  <2>1. Shaped(r, 1, r.slots[0], 1, 1)
    BY <1>1 DEF Shaped
  <2>2. 1 \in 1 .. 2
    OBVIOUS
  <2> QED BY <1>10, <2>1, <2>2, TagFound
<1>12. /\ framed[0].kind = "struct" /\ framed[0].offset = 0
       /\ framed[0].words = 1 /\ framed[0].slots = 1
  BY <1>10 DEF Headed
<1>13. ReadTextPtr(framed, 3) = [ok |-> TRUE, text |-> <<>>]
  BY <1>8 DEF ReadTextPtr
<1>14. TagBits(1) # TagBits(0)
  BY TagsDiffer
<1>15. DecodeConnectionResponse(framed) = [ok |-> TRUE, text |-> <<>>]
  <2> DEFINE start == 1 + framed[0].offset
             tag == GetNumber([words |-> 1, bits |-> framed[start].bits], TagField)
             place == ReadTextPtr(framed, start + framed[0].words + 1)
  <2>1. start = 1 /\ start + framed[0].words + 1 = 3
    BY <1>12
  <2>2. ~(start + framed[0].words + framed[0].slots > Size(framed)) /\ ~(Size(framed) < 2)
    BY <1>9, <1>12
  <2>3. place.ok /\ place.text = <<>>
    BY <1>13, <2>1
  <2>4. tag = TagBits(1)
    BY <1>11, <2>1
  <2>5. DecodeConnectionResponse(framed)
          = IF Size(framed) < 2 THEN Failure("too short")
            ELSE IF framed[0].kind # "struct" THEN Failure("no struct")
            ELSE IF start + framed[0].words + framed[0].slots > Size(framed)
                 THEN Failure("out of bounds")
            ELSE IF tag = TagBits(0) THEN Failure("rejected")
            ELSE IF tag = TagBits(1)
            THEN [ok |-> TRUE, text |-> IF place.ok THEN place.text ELSE <<"unknown">>]
            ELSE Failure("unknown tag")
    BY DEF DecodeConnectionResponse
  <2> HIDE DEF tag, place, start
  <2> QED BY <1>12, <1>14, <2>2, <2>3, <2>4, <2>5
<1> QED BY <1>15 DEF framed, r, member

(* The answers that say something, as edges put them together.             *)
Accepts(results) ==
  \E location \in Locations, slots \in 1 .. 3 :
    results = Results(Response(1, Details(location, slots), 1, 1))
Refuses(results) ==
  \E tag \in {0, 2}, member \in {Null} \cup {Error(c) : c \in Causes},
     w \in 1 .. 2, p \in 1 .. 2 : results = Results(Response(tag, member, w, p))

ReplyInv ==
  reply.kind = "results" /\ verdict.kind \in {"accepted", "rejected", "unknown"} =>
    Accepts(reply.results) \/ Refuses(reply.results)

LEMMA AnsweredWith ==
  ASSUME NEW kind, NEW text, NEW results, Answered(kind, text, results),
         Accepts(results) \/ Refuses(results) \/ kind \in {"malformed", "empty"}
  PROVE  ReplyInv'
<1>1. reply'.results = results /\ verdict'.kind = kind
  BY DEF Answered
<1>2. Accepts(results) \/ Refuses(results) =>
        Accepts(reply.results)' \/ Refuses(reply.results)'
  BY <1>1 DEF Accepts, Refuses
<1> QED BY <1>1, <1>2 DEF ReplyInv

LEMMA NextReply ==
  ASSUME ReplyInv, [Next]_vars PROVE ReplyInv'
<1>1. CASE UNCHANGED <<reply, verdict>>
  BY <1>1 DEF ReplyInv, Accepts, Refuses
<1>2. CASE HandleReply \/ EdgeBreaks
  BY <1>2 DEF HandleReply, EdgeBreaks, ReplyInv, NoReply
<1>3. CASE EdgeAccepts
  <2>1. PICK location \in Locations, slots \in 1 .. 3 :
          Answered("accepted", IF slots < 2 THEN <<>> ELSE location,
                   Results(Response(1, Details(location, slots), 1, 1)))
    BY <1>3 DEF EdgeAccepts
  <2> DEFINE results == Results(Response(1, Details(location, slots), 1, 1))
  <2>2. Accepts(results)
    BY DEF Accepts
  <2> HIDE DEF results
  <2> QED BY <2>1, <2>2, AnsweredWith DEF results
<1>4. CASE EdgeRejects
  <2>1. ASSUME NEW c \in Causes, NEW words \in 1 .. 2, NEW slots \in 1 .. 2,
               Answered("rejected", c, Results(Response(0, Error(c), words, slots)))
        PROVE  ReplyInv'
    <3>1. Refuses(Results(Response(0, Error(c), words, slots)))
      BY DEF Refuses
    <3> QED BY <2>1, <3>1, AnsweredWith
  <2>2. CASE \/ Answered("rejected", <<>>, Results(Response(0, Null, 1, 1)))
             \/ Answered("unknown", <<>>, Results(Response(2, Null, 1, 1)))
    <3>1. 1 \in 1 .. 2
      OBVIOUS
    <3>2. /\ Refuses(Results(Response(0, Null, 1, 1)))
          /\ Refuses(Results(Response(2, Null, 1, 1)))
      BY <3>1 DEF Refuses
    <3> QED BY <2>2, <3>2, AnsweredWith
  <2>3. ASSUME NEW kind \in {"malformed", "empty"}, NEW results,
               Answered(kind, <<>>, results)
        PROVE  ReplyInv'
    BY <2>3, AnsweredWith
  <2> QED BY <1>4, <2>1, <2>2, <2>3 DEF EdgeRejects
<1> QED BY <1>1, <1>2, <1>3, <1>4 DEF Next, ControlStream, vars

LEMMA DecodersHold ==
  ASSUME ReplyInv
  PROVE  /\ DecodersAgree
         /\ reply.kind = "results" /\ verdict.kind = "accepted"
              => HandDecoded = [ok |-> TRUE, text |-> <<>>] \/ ~HandDecoded.ok
<1> DEFINE response == Sub(reply.results, RegisterConnectionResultsReader.result)
           result == Result(reply.results)
           Same == /\ HandDecoded.ok <=> result.kind = "registered"
                   /\ HandDecoded = [ok |-> TRUE, text |-> <<>>] \/ ~HandDecoded.ok
<1>0. HandDecoded = DecodeConnectionResponse(WriteResponse(response))
  BY DEF HandDecoded
<1>1. ASSUME Accepts(reply.results) PROVE Same
  <2>1. PICK location \in Locations, slots \in 1 .. 3 :
          reply.results = Results(Response(1, Details(location, slots), 1, 1))
    BY <1>1 DEF Accepts
  <2>2. IsText(location)
    BY RegistrationAssumption
  <2>3. 1 \in 1 .. 2
    OBVIOUS
  <2>4. response = Response(1, Details(location, slots), 1, 1).content
    BY <2>1, <2>3, ResponseFound
  <2> HIDE DEF response
  <2>5. HandDecoded = [ok |-> TRUE, text |-> <<>>]
    BY <1>0, <2>2, <2>4, AcceptanceDecoded
  <2>6. result = Registered(IF slots < 2 THEN <<>> ELSE location)
    BY <2>1, AcceptanceResult
  <2> HIDE DEF result
  <2> QED BY <2>5, <2>6 DEF Registered
<1>2. ASSUME Refuses(reply.results) PROVE Same
  <2>1. PICK tag \in {0, 2}, member \in {Null} \cup {Error(c) : c \in Causes},
             w \in 1 .. 2, p \in 1 .. 2 :
               reply.results = Results(Response(tag, member, w, p))
    BY <1>2 DEF Refuses
  <2>2. response = Response(tag, member, w, p).content
    BY <2>1, ResponseFound
  <2> HIDE DEF response
  <2>3. ~HandDecoded.ok
    BY <1>0, <2>2, OthersDecoded
  <2>4. result.kind # "registered"
    <3>1. tag \in 0 .. 2 /\ tag # 1
      OBVIOUS
    <3>2. Result(Results(Response(tag, member, w, p))).kind # "registered"
      BY <3>1, NotRegistered
    <3> QED BY <2>1, <3>2
  <2> HIDE DEF result
  <2> QED BY <2>3, <2>4
<1> HIDE DEF Same
<1>3. reply.kind = "results" /\ verdict.kind \in {"accepted", "rejected", "unknown"} => Same
  BY <1>1, <1>2 DEF ReplyInv
<1> QED BY <1>3 DEF Same, DecodersAgree

(* What the comparison of the hand-written code rests on.                  *)
HandInv == SetUpInv /\ CallInv /\ TextInv /\ ReplyInv

LEMMA HandInvHolds == Spec => []HandInv
<1>1. Init => HandInv
  <2>1. Init => CallInv
    BY DEF Init, CallInv
  <2>2. Init => TextInv
    BY RegistrationAssumption DEF Init, StartInit, TextInv, Creds
  <2>3. Init => ReplyInv
    BY DEF Init, ReplyInv, NoReply
  <2> QED BY <2>1, <2>2, <2>3, StartsSetUp DEF Init, HandInv
<1>2. HandInv /\ [Next]_vars => HandInv'
  BY NextSetUp, NextCall, NextTexts, NextReply DEF HandInv
<1> QED BY <1>1, <1>2, PTL DEF Spec

LEMMA ReadyHasClient == HandInv => (pc = "ready" => client \in Clients)
BY DEF HandInv, SetUpInv, AddrInv

(* Whatever the texts and their lengths, the ways to write the parameters  *)
(* by hand say what the generated builders say, the roots aside, and the   *)
(* decoder finds the acceptances that rpc_register finds, the places       *)
(* aside (capnp_params.rs, capnp_rpc.rs).                                  *)
THEOREM HandCodeSaysTheSame == Spec => []HandCodeAgrees
<1>1. HandInv => HandCodeAgrees
  BY ReadyHasClient, EncodersHold, DecodersHold DEF HandCodeAgrees, HandInv
<1> QED BY <1>1, HandInvHolds, PTL

(* Whatever the texts, the root pointer of each message put together by    *)
(* hand leads to itself: no reader finds the parameters, the call or the   *)
(* bootstrap behind it.  The comment above the pointer says that it leads  *)
(* to the root struct (write_struct_ptr_root, finish of capnp_rpc.rs).     *)
THEOREM RootsLeadToThemselves ==
  Spec => [](CallMade => \A seg \in HandMessages : Target(seg, 0) = 0)
<1>1. HandInv => (CallMade => \A seg \in HandMessages : Target(seg, 0) = 0)
  BY ReadyHasClient, RootsOfMessages DEF HandInv
<1> QED BY <1>1, HandInvHolds, PTL

(* However long the name of the place that an edge gives with its          *)
(* acceptance, decode_connection_response returns the empty text for it:   *)
(* it looks for the text one word behind its pointer (capnp_rpc.rs).       *)
THEOREM PlaceNeverDecoded ==
  Spec => [](reply.kind = "results" /\ verdict.kind = "accepted" /\ HandDecoded.ok
               => HandDecoded.text = <<>>)
<1>1. HandInv => (reply.kind = "results" /\ verdict.kind = "accepted" /\ HandDecoded.ok
                    => HandDecoded.text = <<>>)
  BY DecodersHold DEF HandInv
<1> QED BY <1>1, HandInvHolds, PTL
=============================================================================
