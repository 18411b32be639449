--------------------------- MODULE IngressProofs ----------------------------
(***************************************************************************)
(* Proofs about Ingress, for any configurations, requests and number of    *)
(* tasks: every request is routed, and the interleaved lookups and swaps   *)
(* implement the atomic routing of FirstMatchRouting.                      *)
(***************************************************************************)
EXTENDS Ingress, WellFoundedInduction, TLAPS

(* A non-empty set of numbers has a least element.                         *)
LEMMA LeastNat ==
  ASSUME NEW T \in SUBSET Nat, T # {}
  PROVE  \E m \in T : \A k \in T : m <= k
<1> DEFINE R == OpToRel(<, Nat)
<1>1. \E m \in T : \A k \in T : ~(<<k, m>> \in R)
  <2> HIDE DEF R
  <2>1. IsWellFoundedOn(R, Nat)
    BY NatLessThanWellFounded DEF R
  <2> QED BY <2>1, WFMin
<1>2. PICK m \in T : \A k \in T : ~(<<k, m>> \in R)
  BY <1>1
<1>3. \A k \in T : ~(k < m)
  BY <1>2 DEF OpToRel
<1> QED BY <1>3

(* In a valid table every request has a first match.                       *)
LEMMA ValidRoutes ==
  ASSUME NEW rules \in Seq(Rule), Valid(rules), NEW q
  PROVE  \E i \in DOMAIN rules : IsFirstMatch(rules, i, q)
<1> DEFINE T == {i \in DOMAIN rules : Matches(rules[i], q)}
<1>1. Len(rules) \in T
  BY DEF Valid, Last, Matches
<1>2. PICK m \in T : \A k \in T : m <= k
  <2>1. T \in SUBSET Nat /\ T # {}
    BY <1>1
  <2> QED BY <2>1, LeastNat
<1>3. \A j \in 1 .. m - 1 : ~Matches(rules[j], q)
  BY <1>2
<1> QED BY <1>2, <1>3 DEF IsFirstMatch

-----------------------------------------------------------------------------
(* Types.                                                                  *)

LEMMA ContentsType == Contents \in SUBSET Seq(Rule)
<1> SUFFICES ASSUME NEW c \in Configs, NEW f \in Reads(c)
             PROVE  f \in Seq(Rule)
  BY DEF Contents
<1>1. c \in Seq(Rule)
  BY IngressAssumption DEF Rule
<1>2. CASE \E n \in 0 .. Len(c) : f = SubSeq(c, 1, n)
  BY <1>1, <1>2
<1>3. CASE \E n \in 1 .. Len(c) : \E r \in TornRules(c[n]) : f = Append(SubSeq(c, 1, n - 1), r)
  <2>0. PICK n \in 1 .. Len(c) : \E r \in TornRules(c[n]) : f = Append(SubSeq(c, 1, n - 1), r)
    BY <1>3
  <2>1. PICK r \in TornRules(c[n]) : f = Append(SubSeq(c, 1, n - 1), r)
    BY <2>0
  <2>2. c[n] \in Rule
    BY <1>1
  <2>3. r \in Rule
    <3> DEFINE o == c[n]
    <3>1. o \in Rule /\ r \in TornRules(o)
      BY <2>1, <2>2
    <3> HIDE DEF o
    <3>2. \/ r = [o EXCEPT !.service = Cut]
          \/ r = [o EXCEPT !.path = <<>>]
          \/ r = [o EXCEPT !.hostname = <<>>, !.path = <<>>, !.service = o.service]
          \/ r = [o EXCEPT !.hostname = <<>>, !.path = <<>>, !.service = Cut]
      BY <3>1 DEF TornRules
    <3>3. <<>> \in Seq(Labels)
      OBVIOUS
    <3>4. <<>> \in Seq(Chars)
      OBVIOUS
    <3>5. /\ o.hostname \in Seq(Labels) /\ o.path \in Seq(Chars)
          /\ o.service \in Services \cup {Cut}
      BY <3>1 DEF Rule
    <3>6. \A h \in Seq(Labels), p \in Seq(Chars), s \in Services \cup {Cut} :
            [o EXCEPT !.hostname = h, !.path = p, !.service = s] \in Rule
      BY <3>1 DEF Rule
    <3>7. CASE r = [o EXCEPT !.service = Cut]
      BY <3>1, <3>7 DEF Rule
    <3>8. CASE r = [o EXCEPT !.path = <<>>]
      BY <3>1, <3>4, <3>8 DEF Rule
    <3>9. ASSUME NEW s \in Services \cup {Cut},
                 r = [o EXCEPT !.hostname = <<>>, !.path = <<>>, !.service = s]
          PROVE  r \in Rule
      BY <3>3, <3>4, <3>6, <3>9
    <3> QED BY <3>2, <3>5, <3>7, <3>8, <3>9
  <2> QED BY <1>1, <2>1, <2>3
<1> QED BY <1>2, <1>3 DEF Reads

LEMMA TypeStep ==
  ASSUME TypeOK, [Next]_vars
  PROVE  TypeOK'
<1> USE DEF TypeOK, lookupVars
<1>1. CASE EditFile
  BY <1>1, ContentsType DEF EditFile
<1>2. CASE Load
  BY <1>2 DEF Load
<1>3. CASE Swap
  BY <1>3 DEF Swap
<1>4. ASSUME NEW t \in Tasks, Request(t) PROVE TypeOK'
  BY <1>4 DEF Request
<1>5. ASSUME NEW t \in Tasks, Lock(t) PROVE TypeOK'
  BY <1>5 DEF Lock
<1>6. ASSUME NEW t \in Tasks, Examine(t) PROVE TypeOK'
  <2>1. phase' \in [Tasks -> {"idle", "lock", "scan", "done"}] /\ pos' \in [Tasks -> Nat]
    BY <1>6 DEF Examine
  <2>2. chosen' \in [Tasks -> Seq(Rule)] /\ \A u \in Tasks : Len(chosen'[u]) <= 1
    <3> DEFINE o == IF pos[t] \in DOMAIN table /\ Matches(table[pos[t]], req[t])
                    THEN <<table[pos[t]]>> ELSE <<>>
    <3>1. chosen' = [chosen EXCEPT ![t] = o]
      BY <1>6 DEF Examine
    <3>2. o \in Seq(Rule) /\ Len(o) <= 1
      OBVIOUS
    <3> HIDE DEF o
    <3> QED BY <3>1, <3>2
  <2> QED BY <1>6, <2>1, <2>2 DEF Examine
<1>7. CASE UNCHANGED vars
  BY <1>7 DEF vars
<1> QED BY <1>1, <1>2, <1>3, <1>4, <1>5, <1>6, <1>7 DEF Next

LEMMA TypeInit ==
  ASSUME Init
  PROVE  TypeOK
BY ContentsType DEF Init, TypeOK

(* Every variable keeps to its type; the result of a lookup is at most one *)
(* rule.                                                                   *)
THEOREM TypeCorrect == Spec => []TypeOK
<1>1. TypeOK /\ [Next]_vars => TypeOK'
  BY TypeStep
<1> QED BY TypeInit, <1>1, PTL DEF Spec

-----------------------------------------------------------------------------
(* Routing.                                                                *)

(* What is behind the lock, or waits to be, was read from the file and is  *)
(* valid.                                                                  *)
ValidContents == {f \in Contents : Valid(f)}

TableInv ==
  /\ file \in Contents
  /\ table \in ValidContents
  /\ reload = "write" => loaded \in ValidContents

(* A scan holds the lock, so no rule it has passed matches, and one is     *)
(* left; a lookup has a result exactly when it is over.                    *)
ScanInv ==
  \A t \in Tasks :
    /\ phase[t] = "scan" =>
         /\ pos[t] \in 1 .. Len(table)
         /\ \A j \in 1 .. pos[t] - 1 : ~Matches(table[j], req[t])
    /\ phase[t] = "done" <=> chosen[t] # <<>>

IInv == TypeOK /\ TableInv /\ ScanInv

(* The last rule of a valid table takes every request.                     *)
LEMMA CatchAll ==
  ASSUME TypeOK, TableInv, NEW q
  PROVE  Len(table) \in DOMAIN table /\ Matches(table[Len(table)], q)
BY DEF TypeOK, TableInv, ValidContents, Valid, Last, Matches

(* One step of a scan either finds the first match or has a rule left.     *)
LEMMA ExamineEffect ==
  ASSUME IInv, NEW t \in Tasks, Examine(t)
  PROVE  LET p == pos[t] IN
         \/ /\ IsFirstMatch(table, p, req[t])
            /\ chosen' = [chosen EXCEPT ![t] = <<table[p]>>]
            /\ phase' = [phase EXCEPT ![t] = "done"]
         \/ /\ p \in 1 .. Len(table) - 1 /\ ~Matches(table[p], req[t])
            /\ chosen' = [chosen EXCEPT ![t] = <<>>]
            /\ phase' = [phase EXCEPT ![t] = "scan"]
            /\ pos' = [pos EXCEPT ![t] = p + 1]
<1> DEFINE p == pos[t]
<1>1. p \in 1 .. Len(table) /\ p \in DOMAIN table
      /\ \A j \in 1 .. p - 1 : ~Matches(table[j], req[t])
  BY DEF IInv, ScanInv, Examine, TypeOK
<1>2. CASE Matches(table[p], req[t])
  BY <1>1, <1>2 DEF Examine, IsFirstMatch
<1>3. CASE ~Matches(table[p], req[t])
  <2>1. p # Len(table)
    BY <1>3, CatchAll DEF IInv
  <2>2. p \in 1 .. Len(table) - 1 /\ ~(p >= Len(table))
    BY <1>1, <2>1 DEF IInv, TypeOK
  <2> QED BY <1>3, <2>2 DEF Examine
<1> QED BY <1>2, <1>3

LEMMA IInvStep ==
  ASSUME IInv, [Next]_vars
  PROVE  IInv'
<1>0. TypeOK /\ TypeOK'
  BY TypeStep DEF IInv
<1>1. CASE EditFile
  BY <1>0, <1>1 DEF EditFile, IInv, TableInv, ScanInv, lookupVars
<1>2. CASE Load
  BY <1>0, <1>2 DEF Load, IInv, TableInv, ScanInv, ValidContents, lookupVars
<1>3. CASE Swap
  BY <1>0, <1>3 DEF Swap, IInv, TableInv, ScanInv, lookupVars
<1>4. ASSUME NEW t \in Tasks, Request(t) PROVE IInv'
  <2>1. TableInv'
    BY <1>4 DEF Request, IInv, TableInv
  <2>2. ScanInv'
    BY <1>0, <1>4 DEF Request, IInv, ScanInv, TypeOK
  <2> QED BY <1>0, <2>1, <2>2 DEF IInv
<1>5. ASSUME NEW t \in Tasks, Lock(t) PROVE IInv'
  <2>1. TableInv'
    BY <1>5 DEF Lock, IInv, TableInv
  <2>2. Len(table) \in Nat \ {0}
    BY <1>0 DEF IInv, TypeOK, TableInv, ValidContents, Valid
  <2>3. ScanInv'
    BY <1>0, <1>5, <2>2 DEF Lock, IInv, ScanInv, TypeOK
  <2> QED BY <1>0, <2>1, <2>3 DEF IInv
<1>6. ASSUME NEW t \in Tasks, Examine(t) PROVE IInv'
  <2>1. TableInv' /\ UNCHANGED <<table, req>>
    BY <1>6 DEF Examine, IInv, TableInv
  <2>2. \A u \in Tasks : u # t =>
          phase'[u] = phase[u] /\ pos'[u] = pos[u] /\ chosen'[u] = chosen[u]
    BY <1>0, <1>6 DEF Examine, TypeOK
  <2>3. \/ phase'[t] = "done" /\ chosen'[t] # <<>>
        \/ /\ phase'[t] = "scan" /\ chosen'[t] = <<>>
           /\ pos'[t] = pos[t] + 1 /\ pos[t] \in 1 .. Len(table) - 1
           /\ ~Matches(table[pos[t]], req[t])
    <3> DEFINE p == pos[t]
    <3>1. CASE /\ chosen' = [chosen EXCEPT ![t] = <<table[p]>>]
               /\ phase' = [phase EXCEPT ![t] = "done"]
      BY <1>0, <3>1 DEF TypeOK
    <3>2. CASE /\ p \in 1 .. Len(table) - 1 /\ ~Matches(table[p], req[t])
               /\ chosen' = [chosen EXCEPT ![t] = <<>>]
               /\ phase' = [phase EXCEPT ![t] = "scan"]
               /\ pos' = [pos EXCEPT ![t] = p + 1]
      BY <1>0, <3>2 DEF TypeOK
    <3> QED BY <1>6, <3>1, <3>2, ExamineEffect
  <2>4. \A j \in 1 .. pos[t] - 1 : ~Matches(table[j], req[t])
    BY <1>6 DEF Examine, IInv, ScanInv
  <2>5. Len(table) \in Nat
    BY <1>0 DEF TypeOK
  <2>6. ScanInv'
    BY <2>1, <2>2, <2>3, <2>4, <2>5 DEF IInv, ScanInv
  <2> QED BY <1>0, <2>1, <2>6 DEF IInv
<1>7. CASE UNCHANGED vars
  BY <1>0, <1>7 DEF vars, lookupVars, IInv, TableInv, ScanInv
<1> QED BY <1>1, <1>2, <1>3, <1>4, <1>5, <1>6, <1>7 DEF Next

LEMMA Inductive == Spec => []IInv
<1>1. Init => IInv
  BY TypeInit DEF Init, IInv, TableInv, ScanInv, ValidContents
<1>2. IInv /\ [Next]_vars => IInv'
  BY IInvStep
<1> QED BY <1>1, <1>2, PTL DEF Spec

(* resolve never returns None, whatever file the reload task reads, torn   *)
(* or not, and whenever it swaps the table.                                *)
THEOREM AllRequestsRouted == Spec => []EveryRequestRouted
<1>1. IInv => EveryRequestRouted
  <2> SUFFICES ASSUME IInv, NEW t \in Tasks
               PROVE  /\ phase[t] = "scan" =>
                           \E i \in pos[t] .. Len(table) : Matches(table[i], req[t])
                      /\ phase[t] = "done" => chosen[t] # <<>>
    BY DEF EveryRequestRouted
  <2>1. Matches(table[Len(table)], req[t]) /\ Len(table) \in Nat
    BY CatchAll DEF IInv, TypeOK
  <2> QED BY <2>1 DEF IInv, ScanInv
<1> QED BY Inductive, <1>1, PTL

-----------------------------------------------------------------------------
(* The refinement.                                                         *)

Route == [t \in Tasks |-> IF phase[t] = "done" /\ chosen[t] # <<>>
                          THEN <<req[t], chosen[t][1]>> ELSE <<>>]

(* FirstMatchRouting means the same by a match and by a valid table.       *)
LEMMA SameRules ==
  /\ \A rules : Atomic!Valid(rules) <=> Valid(rules)
  /\ \A rules, i, q : Atomic!IsFirstMatch(rules, i, q) <=> IsFirstMatch(rules, i, q)
<1>1. \A s, u : (Atomic!IsPrefix(s, u) <=> IsPrefix(s, u)) /\ Atomic!Reverse(s) = Reverse(s)
  BY DEF Atomic!IsPrefix, IsPrefix, Atomic!Reverse, Reverse
<1>2. \A s, u : Atomic!IsStrictSuffix(s, u) <=> IsStrictSuffix(s, u)
  BY <1>1 DEF Atomic!IsStrictSuffix, IsStrictSuffix, Atomic!IsSuffix, IsSuffix
<1>3. \A p, n : Atomic!HostMatches(p, n) <=> HostMatches(p, n)
  BY <1>2 DEF Atomic!HostMatches, HostMatches, Atomic!LowerName, LowerName
<1>4. \A r, q : Atomic!Matches(r, q) <=> Matches(r, q)
  BY <1>1, <1>3 DEF Atomic!Matches, Matches
<1> QED BY <1>4 DEF Atomic!Valid, Valid, Atomic!Last, Last, Atomic!IsFirstMatch, IsFirstMatch

LEMMA RefinementStep ==
  ASSUME IInv, IInv', [Next]_vars
  PROVE  [Atomic!Next]_<<table, Route>>
<1> USE DEF lookupVars
<1>1. CASE EditFile \/ Load \/ UNCHANGED vars
  BY <1>1 DEF EditFile, Load, vars, Route
<1>2. CASE Swap
  <2>1. Valid(table') /\ Route' = Route
    BY <1>2 DEF Swap, IInv, TableInv, ValidContents, Route
  <2> QED BY <2>1, SameRules DEF Atomic!Next, Atomic!Replace, Route
<1>3. ASSUME NEW t \in Tasks, Request(t) PROVE Atomic!NewRequest(t)
  BY <1>3 DEF Request, Atomic!NewRequest, Atomic!Unrouted, IInv, TypeOK, Route
<1>4. ASSUME NEW t \in Tasks, Lock(t) PROVE UNCHANGED <<table, Route>>
  BY <1>4 DEF Lock, IInv, TypeOK, Route
<1>5. ASSUME NEW t \in Tasks, Examine(t)
      PROVE  Atomic!Route(t) \/ UNCHANGED <<table, Route>>
  <2>1. table' = table /\ req' = req /\ phase[t] = "scan" /\ req[t] \in Requests
    BY <1>5 DEF Examine, IInv, TypeOK
  <2>2. CASE /\ IsFirstMatch(table, pos[t], req[t])
             /\ chosen' = [chosen EXCEPT ![t] = <<table[pos[t]]>>]
             /\ phase' = [phase EXCEPT ![t] = "done"]
    <3>1. Route[t] = <<>>
      BY <2>1 DEF Route
    <3>2. Route' = [Route EXCEPT ![t] = <<req[t], table[pos[t]]>>]
      BY <2>1, <2>2 DEF Route, IInv, TypeOK
    <3>3. pos[t] \in DOMAIN table
      BY <2>2 DEF IsFirstMatch
    <3> QED BY <2>1, <2>2, <3>1, <3>2, <3>3, SameRules
            DEF Atomic!Route, Atomic!Unrouted, Atomic!Routed, Route
  <2>3. CASE /\ chosen' = [chosen EXCEPT ![t] = <<>>]
             /\ phase' = [phase EXCEPT ![t] = "scan"]
    BY <2>1, <2>3 DEF Route, IInv, TypeOK
  <2> QED BY <1>5, <2>2, <2>3, ExamineEffect
<1> QED BY <1>1, <1>2, <1>3, <1>4, <1>5 DEF Next, Atomic!Next, Route

(* Lookups are atomic: the interleaving of scans, reloads and swaps        *)
(* implements routing by the first match in the table of one moment        *)
(* (resolve and start_reload_task).                                        *)
THEOREM AtomicRouting == Spec => RoutesAtomically
<1>1. Init => Atomic!Init
  BY SameRules DEF Init, Atomic!Init, Atomic!Unrouted
<1>2. IInv /\ IInv' /\ [Next]_vars => [Atomic!Next]_<<table, Route>>
  BY RefinementStep
<1> QED BY Inductive, <1>1, <1>2, PTL DEF Spec, RoutesAtomically, Atomic!Spec, Route

-----------------------------------------------------------------------------
(* Torn reads.                                                             *)

(* A table read while c was being written has the rules of c in front, and *)
(* after them at most one torn one.                                        *)
LEMMA ReadsShape ==
  ASSUME NEW c \in Configs, NEW f \in Reads(c)
  PROVE  \E n \in 0 .. Len(c) :
           /\ \A j \in 1 .. n : j \in DOMAIN f /\ f[j] = c[j]
           /\ \/ Len(f) = n
              \/ n + 1 \in 1 .. Len(c) /\ Len(f) = n + 1 /\ f[n + 1] \in TornRules(c[n + 1])
<1>1. c \in Seq(Rule) /\ Len(c) \in Nat
  BY IngressAssumption
<1>2. CASE \E n \in 0 .. Len(c) : f = SubSeq(c, 1, n)
  <2>1. PICK n \in 0 .. Len(c) : f = SubSeq(c, 1, n)
    BY <1>2
  <2>2. Len(f) = n /\ \A j \in 1 .. n : j \in DOMAIN f /\ f[j] = c[j]
    BY <1>1, <2>1
  <2> QED BY <2>2
<1>3. CASE \E n \in 1 .. Len(c) : \E r \in TornRules(c[n]) : f = Append(SubSeq(c, 1, n - 1), r)
  <2>1. PICK m \in 1 .. Len(c) : \E r \in TornRules(c[m]) : f = Append(SubSeq(c, 1, m - 1), r)
    BY <1>3
  <2>2. PICK r \in TornRules(c[m]) : f = Append(SubSeq(c, 1, m - 1), r)
    BY <2>1
  <2> DEFINE n == m - 1
             g == SubSeq(c, 1, n)
  <2>3. n \in 0 .. Len(c) /\ n + 1 = m
    BY <1>1
  <2>4. g \in Seq(Rule) /\ Len(g) = n /\ \A j \in 1 .. n : g[j] = c[j]
    BY <1>1, <2>3
  <2>5. Len(f) = n + 1 /\ f[n + 1] = r /\ \A j \in 1 .. n : j \in DOMAIN f /\ f[j] = g[j]
    <3> HIDE DEF g
    <3>1. f = Append(g, r)
      BY <2>2 DEF g
    <3> QED BY <2>3, <2>4, <3>1
  <2> HIDE DEF n, g
  <2>6. n + 1 \in 1 .. Len(c) /\ f[n + 1] \in TornRules(c[n + 1])
    BY <2>3, <2>5
  <2> QED BY <2>3, <2>4, <2>5, <2>6
<1> QED BY <1>2, <1>3 DEF Reads

LEMMA TornRoutes ==
  ASSUME IInv, NEW c \in Configs, table \in Reads(c), NEW q
  PROVE  SameRoute(c, q)
<1>1. c \in Seq(Rule) /\ table \in Seq(Rule) /\ Valid(table)
  BY IngressAssumption DEF IInv, TypeOK, TableInv, ValidContents
<1>2. PICK i \in DOMAIN table : IsFirstMatch(table, i, q)
  BY <1>1, ValidRoutes
<1>3. PICK n \in 0 .. Len(c) :
        /\ \A j \in 1 .. n : j \in DOMAIN table /\ table[j] = c[j]
        /\ \/ Len(table) = n
           \/ n + 1 \in 1 .. Len(c) /\ Len(table) = n + 1 /\ table[n + 1] \in TornRules(c[n + 1])
  BY ReadsShape
<1>4. i \in 1 .. Len(table) /\ Matches(table[i], q)
      /\ \A j \in 1 .. i - 1 : ~Matches(table[j], q)
  BY <1>1, <1>2 DEF IsFirstMatch
<1>5. CASE i <= n
  <2>1. IsFirstMatch(c, i, q) /\ table[i].service = c[i].service
    BY <1>1, <1>3, <1>4, <1>5 DEF IsFirstMatch
  <2> QED BY <1>2, <2>1 DEF SameRoute
<1>6. CASE i = n + 1 /\ table[i] \in TornRules(c[i]) /\ i \in 1 .. Len(c) /\ i = Len(table)
  <2>1. c[i] \in Rule
    BY <1>1, <1>6
  <2>2. \A j \in 1 .. i - 1 : ~Matches(c[j], q)
    BY <1>3, <1>4, <1>6
  <2>3. CASE c[i].first = "service"
    <3>1. table[i].first = "service"
      BY <1>6, <2>1, <2>3 DEF TornRules, Rule
    <3> QED BY <1>2, <1>6, <3>1 DEF SameRoute
  <2>4. CASE c[i].first # "service"
    <3>1. table[i] = [c[i] EXCEPT !.service = Cut]
      BY <1>6, <2>4 DEF TornRules
    <3>2. table[i].service = Cut /\ table[i].hostname = c[i].hostname
          /\ table[i].path = c[i].path
      BY <2>1, <3>1 DEF Rule
    <3>3. Matches(c[i], q)
      BY <1>4, <3>2 DEF Matches
    <3> QED BY <1>1, <1>2, <1>6, <2>2, <3>2, <3>3 DEF SameRoute, IsFirstMatch
  <2> QED BY <2>3, <2>4
<1> QED BY <1>3, <1>4, <1>5, <1>6

(* Whatever a reload reads of a file that is being written, the table it   *)
(* accepts routes as the whole configuration does, up to a service that is *)
(* cut short and a last rule that lost its hostname (validate_rules).      *)
THEOREM TornReadsRouteAlike == Spec => []TornReadSafe
<1>1. IInv => TornReadSafe
  <2> SUFFICES ASSUME IInv PROVE TornReadSafe
    OBVIOUS
  <2>1. PICK c \in Configs : table \in Reads(c)
    BY DEF IInv, TableInv, ValidContents, Contents
  <2> QED BY <2>1, TornRoutes DEF TornReadSafe
<1> QED BY Inductive, <1>1, PTL
=============================================================================
