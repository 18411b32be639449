---------------------------- MODULE IngressRules ----------------------------
(***************************************************************************)
(* Ingress rules and how a request is matched against them: pure           *)
(* definitions.  A host name is the sequence of its labels, in lower or    *)
(* upper case, a path the sequence of its characters.  The empty sequence  *)
(* is the empty string, which an absent hostname or path stands for.       *)
(***************************************************************************)
EXTENDS Naturals, SequencesExt

CONSTANT Lower   \* the lower case of every label

LowerName(name) == [i \in DOMAIN name |-> Lower[name[i]]]

(* "*.x" matches every name that ends in ".x".                             *)
HostMatches(pattern, name) ==
  LET p == LowerName(pattern)
      n == LowerName(name)
  IN  IF Len(p) > 1 /\ p[1] = "*" THEN IsStrictSuffix(Tail(p), n) ELSE p = n

(* A rule without hostname takes every request, whatever its path says.    *)
(* The port of the Host header is ignored.                                 *)
Matches(rule, req) ==
  \/ rule.hostname = <<>>
  \/ /\ HostMatches(rule.hostname, req.host.name)
     /\ IsPrefix(rule.path, req.path)

IsFirstMatch(rules, i, req) ==
  /\ i \in DOMAIN rules
  /\ Matches(rules[i], req)
  /\ \A j \in 1 .. i - 1 : ~Matches(rules[j], req)

(* Mutant: any rules will do.                                              *)
ValidMutant(rules) == rules # <<>>

(* validate_rules: there are rules and the last one has no hostname.       *)
Valid(rules) == rules # <<>> /\ Last(rules).hostname = <<>>
=============================================================================
