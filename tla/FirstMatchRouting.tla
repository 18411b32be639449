------------------------- MODULE FirstMatchRouting --------------------------
(***************************************************************************)
(* What the ingress table promises: it is always valid, it is replaced as  *)
(* a whole, and a request is routed in one step, by the first rule of the  *)
(* table that matches it.                                                  *)
(***************************************************************************)
EXTENDS IngressRules

CONSTANTS Tasks, Requests

VARIABLES
  table,   \* the rules
  route    \* per task: the request it has routed and its rule, if any

Unrouted == <<>>
Routed(q, rule) == <<q, rule>>

Init == Valid(table) /\ route = [t \in Tasks |-> Unrouted]

Replace == Valid(table') /\ UNCHANGED route

NewRequest(t) ==
  /\ route' = [route EXCEPT ![t] = Unrouted]
  /\ UNCHANGED table

Route(t) ==
  /\ route[t] = Unrouted
  /\ \E q \in Requests : \E i \in DOMAIN table :
       /\ IsFirstMatch(table, i, q)
       /\ route' = [route EXCEPT ![t] = Routed(q, table[i])]
  /\ UNCHANGED table

Next == Replace \/ \E t \in Tasks : NewRequest(t) \/ Route(t)

Spec == Init /\ [][Next]_<<table, route>>
=============================================================================
