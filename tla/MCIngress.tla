----------------------------- MODULE MCIngress ------------------------------
(***************************************************************************)
(* A small instance of Ingress: a wildcard rule with a path, a rule that   *)
(* is written service line first and whose host is in upper case, and a    *)
(* file without catch-all.                                                 *)
(***************************************************************************)
EXTENDS Ingress

MCLower == [l \in {"API", "api", "x", "*"} |-> IF l = "API" THEN "api" ELSE l]

MCChars == {"/", "a", "b"}
MCServices == {"s1", "s2", "s3", "s4", "s5"}

HostRule(hostname, path, service) ==
  [hostname |-> hostname, path |-> path, service |-> service, first |-> "hostname"]

MCConfigs ==
  { << HostRule(<<"*", "x">>, <<"/", "a">>, "s1"), HostRule(<<>>, <<>>, "s2") >>,
    << [HostRule(<<"API", "x">>, <<>>, "s3") EXCEPT !.first = "service"],
       HostRule(<<>>, <<"/", "b">>, "s4") >>,
    << HostRule(<<"x">>, <<>>, "s5") >> }

MCRequest(name, path) == [host |-> [name |-> name, port |-> "443"], path |-> path]

MCRequests ==
  { MCRequest(<<"API", "x">>, <<"/", "a", "b">>),
    MCRequest(<<"api", "x">>, <<"/", "b">>) }
=============================================================================
