------------------------------ MODULE Startup ------------------------------
(***************************************************************************)
(* The program from its command line to the first connection: main, the    *)
(* start of run_tunnel in tunnel.rs, TokenCreds in config.rs,              *)
(* default_config_path in ingress.rs and resolve_edge_addrs in edge.rs.    *)
(* Other programs create, change and remove configuration files meanwhile, *)
(* and DNS answers what it likes.  What happens to the rules once they are *)
(* loaded is in Ingress, the connections themselves are in Tunnel.         *)
(***************************************************************************)
EXTENDS Integers, Sequences, FiniteSets

CONSTANTS
  Starts,     \* what the program may find: [args, home, files, edits]
  Clients,    \* the connector ids that Uuid::new_v4 may return
  Answers,    \* for each edge host: the sets of addresses DNS may give
  Fallback    \* the addresses that are built in

NoPath == "none"
NoClient == <<>>
Homes == {"home_yaml", "home_json"}
Paths == Homes \cup {"etc_yaml", "given"}
EdgeHosts == <<"region1", "region2">>

ASSUME StartupAssumption ==
  /\ \A s \in Starts :
       /\ s.home \in BOOLEAN
       /\ s.files \in [Paths -> {"absent", "sound", "unsound"}]
       /\ s.edits \in Nat
       /\ s.args.config \in Paths \cup {NoPath}
  /\ NoClient \notin Clients

VARIABLES
  args,    \* the command line: [command, token, config]
  home,    \* whether the user has a home directory
  pc,      \* where main is
  files,   \* what is at each path: "absent", "sound" or "unsound" rules
  looked,  \* how many default paths have been looked at
  path,    \* the configuration file in use
  heard,   \* what DNS answered for the edge hosts so far
  addrs,   \* the edge addresses
  client,  \* connector_id
  edits,   \* bound: changes to the files that may still happen
  missing, \* history: paths without a file at some moment before one was chosen
  cause    \* history: what the error that ended the program was about

startVars == <<args, home, pc, files, looked, path, heard, addrs, client, edits,
               missing, cause>>

StartInit ==
  /\ \E s \in Starts : args = s.args /\ home = s.home /\ files = s.files
                        /\ edits = s.edits
  /\ pc = "begin"
  /\ looked = 0
  /\ path = NoPath
  /\ heard = <<>>
  /\ addrs = {}
  /\ client = NoClient
  /\ missing = {p \in Paths : files[p] = "absent"}
  /\ cause = "none"

-----------------------------------------------------------------------------
(* Base64.  A text is in the alphabet of one engine or of both ("any"); it *)
(* ends in the padding its length calls for, lacks it, or needs none; and  *)
(* it may stand between blanks.                                            *)
STANDARD == [alphabet |-> "standard", pads |-> TRUE]
URL_SAFE == [alphabet |-> "url_safe", pads |-> TRUE]
URL_SAFE_NO_PAD == [alphabet |-> "url_safe", pads |-> FALSE]

Trim(text) == [text EXCEPT !.blanks = FALSE]

Decodes(engine, text) ==
  /\ text.alphabet \in {"any", engine.alphabet}
  /\ text.padding # "none_needed" => (text.padding = "present") = engine.pads
  /\ ~text.blanks

(* from_token: base64, and in it JSON with the three strings.              *)
FromToken(token) ==
  /\ \E engine \in {STANDARD, URL_SAFE, URL_SAFE_NO_PAD} :
       Decodes(engine, Trim(token.text))
  /\ token.json

(* secret_bytes, and what handle_control_stream makes of its errors.       *)
SecretDecodes(secret) ==
  /\ \E engine \in {STANDARD, URL_SAFE_NO_PAD} : Decodes(engine, secret.text)
  /\ Len(secret.bytes) >= 32

SecretBytes(secret) == IF SecretDecodes(secret) THEN secret.bytes ELSE <<>>

-----------------------------------------------------------------------------
Fails(why) == pc' = "failed" /\ cause' = why

(* The commands other than tunnel: run_proxy is StandaloneProxy.           *)
OtherCommand ==
  /\ pc = "begin"
  /\ args.command # "tunnel"
  /\ pc' = IF args.command = "proxy" THEN "proxy" ELSE "done"
  /\ UNCHANGED <<args, home, files, looked, path, heard, addrs, client, edits,
                 missing, cause>>

(* A configuration file that is given is taken unseen; otherwise the       *)
(* search for one begins.                                                  *)
Decode ==
  /\ pc = "begin"
  /\ args.command = "tunnel"
  /\ IF ~FromToken(args.token) THEN Fails("token")
     ELSE /\ pc' = IF args.config = NoPath THEN "search" ELSE "load"
          /\ UNCHANGED cause
  /\ path' = IF FromToken(args.token) THEN args.config ELSE NoPath
  /\ UNCHANGED <<args, home, files, looked, heard, addrs, client, edits, missing>>

DefaultPaths ==
  IF home THEN <<"home_yaml", "home_json", "etc_yaml">> ELSE <<"etc_yaml">>

(* Mutant: a file that would not load is skipped for a later one.          *)
LookForConfigMutant ==
  /\ pc = "search"
  /\ looked' = looked + 1
  /\ LET p == DefaultPaths[looked + 1]
     IN  IF files[p] = "sound"
         THEN path' = p /\ pc' = "load" /\ UNCHANGED cause
         ELSE /\ UNCHANGED path
              /\ IF looked' = Len(DefaultPaths) THEN Fails("no_config")
                 ELSE UNCHANGED <<pc, cause>>
  /\ UNCHANGED <<args, home, files, heard, addrs, client, edits, missing>>

(* One exists() of default_config_path; the files may change between two.  *)
LookForConfig ==
  /\ pc = "search"
  /\ looked' = looked + 1
  /\ IF files[DefaultPaths[looked']] # "absent"
     THEN /\ path' = DefaultPaths[looked']
          /\ pc' = "load"
          /\ UNCHANGED cause
     ELSE /\ UNCHANGED path
          /\ IF looked' = Len(DefaultPaths) THEN Fails("no_config")
             ELSE UNCHANGED <<pc, cause>>
  /\ UNCHANGED <<args, home, files, heard, addrs, client, edits, missing>>

(* load_from_file, and the reload task is started.                         *)
LoadConfig ==
  /\ pc = "load"
  /\ IF files[path] = "sound" THEN pc' = "resolve" /\ UNCHANGED cause
     ELSE Fails("config")
  /\ UNCHANGED <<args, home, files, looked, path, heard, addrs, client, edits,
                 missing>>

(* What run_tunnel does with the addresses it got.                         *)
Ready(found) ==
  /\ addrs' = found
  /\ IF found = {} THEN Fails("no_addresses") /\ UNCHANGED client
     ELSE pc' = "ready" /\ UNCHANGED cause /\ client' \in Clients

(* Mutant: an error of the resolver ends the search for addresses.         *)
LookupMutant(answer) ==
  /\ pc = "resolve"
  /\ heard' = Append(heard, answer)
  /\ LET found == addrs \cup answer
     IN  Ready(found)
  /\ UNCHANGED <<args, home, files, looked, path, edits, missing>>

(* One round of resolve_edge_addrs; an error of the resolver counts as no  *)
(* address.  Behind the last one come the addresses that are built in.     *)
Lookup(answer) ==
  /\ pc = "resolve"
  /\ heard' = Append(heard, answer)
  /\ LET found == addrs \cup answer
     IN  IF found # {} THEN Ready(found)
         ELSE IF Len(heard') = Len(EdgeHosts) THEN Ready(Fallback)
         ELSE UNCHANGED <<pc, addrs, client, cause>>
  /\ UNCHANGED <<args, home, files, looked, path, edits, missing>>

LookupAny ==
  /\ pc = "resolve"
  /\ \E answer \in Answers[EdgeHosts[Len(heard) + 1]] \cup {{}} : Lookup(answer)

(* Another program creates, changes or removes a file.                     *)
EditConfig ==
  /\ pc \in {"search", "load"}
  /\ edits > 0
  /\ \E p \in Paths, s \in {"absent", "sound", "unsound"} :
       files' = [files EXCEPT ![p] = s]
  /\ edits' = edits - 1
  /\ missing' = IF pc = "search" THEN missing \cup {p \in Paths : files'[p] = "absent"}
                ELSE missing
  /\ UNCHANGED <<args, home, pc, looked, path, heard, addrs, client, cause>>

StartNext ==
  \/ OtherCommand \/ Decode \/ LookForConfig \/ LoadConfig
  \/ LookupAny \/ EditConfig

(* main runs on, and the resolver answers or gives up.                     *)
StartFairness ==
  WF_startVars(OtherCommand \/ Decode \/ LookForConfig \/ LoadConfig \/ LookupAny)

-----------------------------------------------------------------------------
StartTypeOK ==
  /\ home \in BOOLEAN
  /\ pc \in {"begin", "search", "load", "resolve", "ready", "failed", "proxy", "done"}
  /\ files \in [Paths -> {"absent", "sound", "unsound"}]
  /\ looked \in 0 .. Len(DefaultPaths)
  /\ path \in Paths \cup {NoPath}
  /\ Len(heard) <= Len(EdgeHosts)
  /\ client \in Clients \cup {NoClient}
  /\ edits \in Nat
  /\ missing \in SUBSET Paths
  /\ cause \in {"none", "token", "no_config", "config", "no_addresses"}

(* The loop of run_tunnel takes the number of addresses as a modulus: the  *)
(* program is never ready without any.  They are all those of the first    *)
(* host that DNS knows addresses of, and the built-in ones only if it      *)
(* knows none of either host (resolve_edge_addrs, run_tunnel).             *)
AddressesUsable ==
  pc = "ready" =>
    /\ addrs # {}
    /\ \/ /\ addrs = heard[Len(heard)]
          /\ \A i \in 1 .. Len(heard) - 1 : heard[i] = {}
       \/ /\ addrs = Fallback
          /\ Len(heard) = Len(EdgeHosts)
          /\ \A i \in DOMAIN heard : heard[i] = {}

(* The rules come from a file that loaded: the one that is given, or else  *)
(* one of the paths the program looks at.  Whatever other programs do to   *)
(* the files meanwhile, none that was there all the time is passed over    *)
(* for a later one, sound or not (default_config_path, load_from_file).    *)
(* The order is that of the code: the comment of default_config_path knows *)
(* nothing of its second path, config.json.                                *)
PreferredFileUsed ==
  pc \in {"resolve", "ready"} =>
    /\ files[path] = "sound"
    /\ IF args.config # NoPath THEN path = args.config
       ELSE \E i \in DOMAIN DefaultPaths :
              /\ path = DefaultPaths[i]
              /\ \A j \in 1 .. i - 1 : DefaultPaths[j] \in missing

(* What a program that is ready has found.                                 *)
ReadyIsSetUp == AddressesUsable /\ PreferredFileUsed

(* The program has nothing to prefer to the file at p: it is given, or it  *)
(* is the first one there on the way of the search.                        *)
Prefers(p) ==
  IF args.config # NoPath THEN p = args.config
  ELSE \E i \in DOMAIN DefaultPaths :
         /\ p = DefaultPaths[i]
         /\ \A j \in 1 .. i - 1 : files[DefaultPaths[j]] = "absent"

(* With a token that decodes and a preferred file that stays sound the     *)
(* program gets ready, whatever becomes of the other files and whatever    *)
(* DNS does, if addresses are built in (main, run_tunnel,                  *)
(* resolve_edge_addrs).                                                    *)
GetsReady ==
  \A p \in Paths :
    [](/\ args.command = "tunnel" /\ FromToken(args.token) /\ Fallback # {}
       /\ Prefers(p) /\ files[p] = "sound")
      => <>(pc = "ready")
=============================================================================
