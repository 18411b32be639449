------------------------------ MODULE MCClient ------------------------------
(***************************************************************************)
(* The program from the command line to the registration: tokens and       *)
(* secrets of every form, files that change, a resolver that fails, and    *)
(* edges of three schemas.                                                 *)
(***************************************************************************)
EXTENDS Registration

Fill(b, n) ==
  LET four == <<b, b, b, b>>
      twelve == four \o four \o four
  IN  SubSeq(twelve \o twelve \o twelve, 1, n)

Texts == [alphabet : {"any", "standard", "url_safe"},
          padding : {"present", "missing", "none_needed"}, blanks : BOOLEAN]
Plain == [alphabet |-> "any", padding |-> "none_needed", blanks |-> FALSE]

Token(text, json, account, secret, bytes, id) ==
  [text |-> text, json |-> json, a |-> Fill("a", account),
   s |-> [text |-> secret, bytes |-> Fill("s", bytes)], t |-> Fill("t", id)]

(* Lengths at which a text with its NUL, or data, fills a word.            *)
SomeTokens ==
  {Token(text, TRUE, 7, Plain, 32, 16) : text \in Texts}
    \cup {Token(Plain, TRUE, 8, secret, 32, 16) : secret \in Texts}
    \cup {Token(Plain, TRUE, 8, Plain, bytes, 16) : bytes \in {31, 33}}
    \cup {Token(Plain, FALSE, 8, Plain, 32, 16), Token(Plain, TRUE, 8, Plain, 32, 0)}

Given == [p \in Paths |-> IF p = "given" THEN "sound" ELSE "absent"]
Start(command, token, config, homed, found, changes) ==
  [args |-> [command |-> command, token |-> token, config |-> config],
   home |-> homed, files |-> found, edits |-> changes]

(* Every token with one file; every state of the files with a token whose  *)
(* id is no UUID.                                                          *)
SomeStarts ==
  {Start("tunnel", token, "given", TRUE, Given, 0) : token \in SomeTokens}
    \cup {Start("tunnel", Token(Plain, TRUE, 8, Plain, 32, 0), config, homed, found, 1) :
            config \in {NoPath, "given"}, homed \in BOOLEAN,
            found \in [Paths -> {"absent", "sound", "unsound"}]}
    \cup {Start(command, Token(Plain, TRUE, 8, Plain, 32, 0), NoPath, TRUE, Given, 0) :
            command \in {"proxy", "info"}}

(* One token, for what does not depend on it.                              *)
OneStart ==
  {Start("tunnel", Token(Plain, TRUE, 7, Plain, 32, 16), "given", TRUE, Given, 0)}

SomeClients == {Fill("c", 16), Fill("d", 16)}
SomeAnswers == [region1 |-> {{"a1", "a2"}}, region2 |-> {{"b1"}}]
BuiltIn == {"f1", "f2"}
SomeVersion == Fill("v", 9)
SomeArch == Fill("x", 12)
SomeFeatures == <<Fill("h", 9), Fill("z", 18)>>
SomeCauses == {<<>>, <<"n", "o">>}
SomeLocations == {<<"l", "h", "r">>}
=============================================================================
