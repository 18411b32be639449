------------------------------ MODULE Ingress -------------------------------
(***************************************************************************)
(* The ingress table: proxied requests look their rule up under the read   *)
(* half of a tokio RwLock while a task reloads the configuration file and  *)
(* swaps the table under the write half.  Somebody edits the file          *)
(* meanwhile, and not atomically.                                          *)
(***************************************************************************)
EXTENDS IngressRules

CONSTANTS
  Tasks,      \* tasks that handle proxied requests
  Requests,   \* what they may ask for
  Chars,      \* the characters of paths
  Services,   \* the services of rules
  Cut,        \* a service whose text was cut short
  Configs     \* what the editor may write: sequences of rules

Labels == DOMAIN Lower
Rule == [hostname : Seq(Labels), path : Seq(Chars), service : Services \cup {Cut},
         first : {"hostname", "service"}]

ASSUME IngressAssumption ==
  /\ Cut \notin Services
  /\ Configs \in SUBSET Seq(Rule)
  /\ \A c \in Configs : \A i \in DOMAIN c : c[i].service # Cut

VARIABLES
  file,     \* the rules a read of the file parses to, <<>> if it does not
  table,    \* the rules behind the lock
  reload,   \* the reload task sleeps, or waits for the write lock
  loaded,   \* the rules it has read
  phase,    \* where the lookup of a task is
  req,      \* the request it looks up
  pos,      \* the rule it examines next
  chosen    \* what the last lookup returned, an Option: <<>> or <<rule>>

lookupVars == <<phase, req, pos, chosen>>
vars == <<file, table, reload, loaded, lookupVars>>

-----------------------------------------------------------------------------
(* What a read of the file may find while configuration c is being         *)
(* written.  What is cut off before the service of a rule does not parse.  *)
(* If the service is the first line of a rule, the rule parses without     *)
(* its hostname and path.                                                  *)
TornRules(r) ==
  IF r.first = "service"
  THEN {[r EXCEPT !.hostname = <<>>, !.path = <<>>, !.service = s]
          : s \in {r.service, Cut}} \cup {[r EXCEPT !.path = <<>>]}
  ELSE {[r EXCEPT !.service = Cut]}

Reads(c) ==
  {SubSeq(c, 1, n) : n \in 0 .. Len(c)}
  \cup UNION {{Append(SubSeq(c, 1, n - 1), r) : r \in TornRules(c[n])}
                : n \in 1 .. Len(c)}

Contents == UNION {Reads(c) : c \in Configs}

(* run_tunnel goes on only if the file it starts from is valid.            *)
Init ==
  /\ file \in {f \in Contents : Valid(f)}
  /\ table = file
  /\ reload = "sleep"
  /\ loaded = <<>>
  /\ phase = [t \in Tasks |-> "idle"]
  /\ req \in [Tasks -> Requests]
  /\ pos = [t \in Tasks |-> 1]
  /\ chosen = [t \in Tasks |-> <<>>]

TypeOK ==
  /\ file \in Seq(Rule) /\ table \in Seq(Rule) /\ loaded \in Seq(Rule)
  /\ reload \in {"sleep", "write"}
  /\ phase \in [Tasks -> {"idle", "lock", "scan", "done"}]
  /\ req \in [Tasks -> Requests]
  /\ pos \in [Tasks -> Nat]
  /\ chosen \in [Tasks -> Seq(Rule)]
  /\ \A t \in Tasks : Len(chosen[t]) <= 1

-----------------------------------------------------------------------------
(* The editor.                                                             *)
EditFile ==
  /\ file' \in Contents
  /\ UNCHANGED <<table, reload, loaded, lookupVars>>

(* The sleep of the reload task is over and the file loads.  If it does    *)
(* not, a warning is logged, the table stays and the task sleeps again.    *)
Load ==
  /\ reload = "sleep"
  /\ Valid(file)
  /\ loaded' = file
  /\ reload' = "write"
  /\ UNCHANGED <<file, table, lookupVars>>

(* Mutants: the table is swapped under the readers; a copy is swapped; the *)
(* write lock is kept after the swap.                                      *)
SwapUnlockedMutant ==
  /\ reload = "write"
  /\ table' = loaded
  /\ reload' = "sleep"
  /\ loaded' = <<>>
  /\ UNCHANGED <<file, lookupVars>>

SwapDroppedMutant ==
  /\ reload = "write"
  /\ reload' = "sleep"
  /\ loaded' = <<>>
  /\ UNCHANGED <<file, table, lookupVars>>

SwapHeldMutant ==
  /\ reload = "write"
  /\ \A t \in Tasks : phase[t] # "scan"
  /\ table' = loaded
  /\ UNCHANGED <<file, reload, loaded, lookupVars>>

(* The write lock is granted when no lookup holds the read lock.           *)
Swap ==
  /\ reload = "write"
  /\ \A t \in Tasks : phase[t] # "scan"
  /\ table' = loaded
  /\ reload' = "sleep"
  /\ loaded' = <<>>
  /\ UNCHANGED <<file, lookupVars>>

(* A proxied request comes in and resolve asks for the read lock.          *)
Request(t) ==
  /\ phase[t] \in {"idle", "done"}
  /\ phase' = [phase EXCEPT ![t] = "lock"]
  /\ \E q \in Requests : req' = [req EXCEPT ![t] = q]
  /\ chosen' = [chosen EXCEPT ![t] = <<>>]
  /\ UNCHANGED <<file, table, reload, loaded, pos>>

(* A waiting writer goes before new readers.                               *)
Lock(t) ==
  /\ phase[t] = "lock"
  /\ reload # "write"
  /\ phase' = [phase EXCEPT ![t] = "scan"]
  /\ pos' = [pos EXCEPT ![t] = 1]
  /\ UNCHANGED <<file, table, reload, loaded, req, chosen>>

(* Mutant: all the matches are collected.                                  *)
ExamineAllMutant(t) ==
  /\ phase[t] = "scan"
  /\ chosen' = [chosen EXCEPT ![t] =
                  IF Matches(table[pos[t]], req[t]) THEN Append(@, table[pos[t]]) ELSE @]
  /\ phase' = [phase EXCEPT ![t] = IF pos[t] >= Len(table) THEN "done" ELSE "scan"]
  /\ pos' = [pos EXCEPT ![t] = pos[t] + 1]
  /\ UNCHANGED <<file, table, reload, loaded, req>>

(* One step of the scan: at a match the rule is cloned; there, and when no *)
(* rule is left, the lock is released.                                     *)
Examine(t) ==
  /\ phase[t] = "scan"
  /\ LET hit == pos[t] \in DOMAIN table /\ Matches(table[pos[t]], req[t]) IN
     /\ chosen' = [chosen EXCEPT ![t] = IF hit THEN <<table[pos[t]]>> ELSE <<>>]
     /\ phase' = [phase EXCEPT ![t] =
                    IF hit \/ pos[t] >= Len(table) THEN "done" ELSE "scan"]
     /\ pos' = [pos EXCEPT ![t] = pos[t] + 1]
  /\ UNCHANGED <<file, table, reload, loaded, req>>

Next ==
  \/ EditFile \/ Load \/ Swap
  \/ \E t \in Tasks : Request(t) \/ Lock(t) \/ Examine(t)

Spec == Init /\ [][Next]_vars

(* The reload timer fires, the tasks are polled, and the queue of the lock *)
(* is first in, first out: a lookup that waits behind a reload is granted  *)
(* the lock before the next one.                                           *)
Fairness ==
  /\ WF_vars(Load) /\ WF_vars(Swap)
  /\ \A t \in Tasks : SF_vars(Lock(t)) /\ WF_vars(Examine(t))

FairSpec == Spec /\ Fairness

-----------------------------------------------------------------------------
(* resolve never returns None: a scan under way still has a matching rule  *)
(* ahead, so the 404 of handle_proxy_stream is never answered, whatever    *)
(* the reload task reads and whenever it swaps the table.                  *)
EveryRequestRouted ==
  \A t \in Tasks :
    /\ phase[t] = "scan" =>
         \E i \in pos[t] .. Len(table) : Matches(table[i], req[t])
    /\ phase[t] = "done" => chosen[t] # <<>>

(* A table loaded from a half-written file routes as the configuration     *)
(* that is being written would, except that the service of the rule may be *)
(* cut short, and except for a last rule that starts with its service line *)
(* and was read without the hostname that follows (validate_rules).        *)
SameRoute(c, q) ==
  \E i \in DOMAIN table :
    /\ IsFirstMatch(table, i, q)
    /\ \/ IsFirstMatch(c, i, q) /\ table[i].service \in {c[i].service, Cut}
       \/ i = Len(table) /\ table[i].first = "service"

TornReadSafe == \E c \in Configs : \A q \in Requests : SameRoute(c, q)

(* The lookup is atomic: each route is the first match in the table of one *)
(* moment, however the reload task and the scans interleave.               *)
Atomic == INSTANCE FirstMatchRouting WITH
  route <- [t \in Tasks |->
              IF phase[t] = "done" /\ chosen[t] # <<>>
              THEN <<req[t], chosen[t][1]>> ELSE <<>>]

RoutesAtomically == Atomic!Spec

(* A valid configuration that stays in the file is in use in the end       *)
(* (start_reload_task).                                                    *)
ConfigConverges ==
  \A c \in {c \in Configs : Valid(c)} : <>[](file = c) => <>[](table = c)

(* Every request gets its lookup, however often the file is reloaded.      *)
RequestResolved == \A t \in Tasks : phase[t] = "lock" ~> phase[t] = "done"
=============================================================================
