----------------------------- MODULE ByteStream -----------------------------
(***************************************************************************)
(* What one direction of an h2 stream promises to who reads it: the bytes  *)
(* arrive in the order they were sent, none lost and none doubled; the end *)
(* is only reported after all of them, an error only of a stream that was  *)
(* reset.                                                                  *)
(***************************************************************************)
EXTENDS Naturals, Sequences

CONSTANT Bytes

VARIABLES
  sent,      \* all the bytes sent so far
  sender,    \* "open", "ended" or "reset"
  got,       \* all the bytes the reader has
  reader     \* "open", "eof" or "error"

Init == sent = <<>> /\ sender = "open" /\ got = <<>> /\ reader = "open"

Send ==
  /\ sender = "open"
  /\ sent' \in Seq(Bytes)
  /\ Len(sent') > Len(sent)
  /\ SubSeq(sent', 1, Len(sent)) = sent
  /\ UNCHANGED <<sender, got, reader>>

Close ==
  /\ \/ sender = "open" /\ sender' \in {"ended", "reset"}
     \/ sender = "ended" /\ sender' = "reset"
  /\ UNCHANGED <<sent, got, reader>>

Receive ==
  /\ reader = "open"
  /\ \E n \in Len(got) + 1 .. Len(sent) : got' = SubSeq(sent, 1, n)
  /\ UNCHANGED <<sent, sender, reader>>

ReportEnd ==
  /\ reader = "open"
  /\ sender = "ended"
  /\ got = sent
  /\ reader' = "eof"
  /\ UNCHANGED <<sent, sender, got>>

ReportError ==
  /\ reader = "open"
  /\ sender = "reset"
  /\ reader' = "error"
  /\ UNCHANGED <<sent, sender, got>>

Next == Send \/ Close \/ Receive \/ ReportEnd \/ ReportError

Spec == Init /\ [][Next]_<<sent, sender, got, reader>>
=============================================================================
