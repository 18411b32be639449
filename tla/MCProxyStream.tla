--------------------------- MODULE MCProxyStream ---------------------------
(***************************************************************************)
(* Instances of ProxyStream for TLC: a few requests, services and answers  *)
(* that differ in what the code tells apart.                               *)
(***************************************************************************)
EXTENDS ProxyStream

CONSTANT Latin   \* a header value with characters to_str rejects

MCHopByHop == {"host", "connection", "upgrade"}
MCPrivate == {"host", "proxy-connection-upgrade"}

Plain == [n \in {"host", "accept"} |-> <<"a">>]
Cookies == [n \in {"cookie"} |-> <<"a", "b">>]
Odd == [n \in {"proxy-connection-upgrade", "x-name"} |-> <<Latin>>]

Get == [fields |-> Plain, lengths |-> <<>>, body |-> <<>>]
Post == [fields |-> Odd, lengths |-> <<2>>, body |-> <<"x", "y">>]
StreamedPost == [fields |-> Plain, lengths |-> <<>>, body |-> <<"x", "y">>]
TwoLengthsPost == [fields |-> Plain, lengths |-> <<2, 5>>, body |-> <<"x", "y">>]
CookieGet == [fields |-> Cookies, lengths |-> <<>>, body |-> <<>>]

MCRequests == {Get, Post, StreamedPost, TwoLengthsPost, CookieGet}
MCGetRequests == {Get}

Url == [kind |-> "url", addr |-> "origin", code |-> 0]
Opaque == [kind |-> "opaque", addr |-> "none", code |-> 0]
Status == [kind |-> "status", addr |-> "none", code |-> 404]
Hello == [kind |-> "hello", addr |-> "none", code |-> 0]

MCServices == {Url, Opaque, Status, Hello}
MCUrlServices == {Url}
MCStatusServices == {Status}

NoFields == [n \in {} |-> <<>>]
OneField == [n \in {"etag"} |-> <<Latin>>]
TwoFields == [n \in {"etag", "server"} |-> <<"a">>]
ManyFields == [n \in {"etag", "server"} |-> <<"a", "b">>]

Ok(fields, lengths, units) ==
  [sound |-> TRUE, code |-> 200, fields |-> fields, lengths |-> lengths,
   coding |-> "plain", body |-> units]

Garbage == [Ok(NoFields, <<>>, <<"x">>) EXCEPT !.sound = FALSE]
Chunked ==
  [Ok([n \in {"transfer-encoding"} |-> <<"chunked">>], <<>>, <<"x">>)
     EXCEPT !.coding = "chunked"]

MCResponses ==
  {Ok(NoFields, <<2>>, <<"x", "y">>), Ok(OneField, <<>>, <<"x">>),
   Ok(TwoFields, <<0>>, <<>>), Ok(ManyFields, <<>>, <<>>), Garbage, Chunked}
MCTwoFieldResponses == {Ok(TwoFields, <<1>>, <<"x">>)}
=============================================================================
