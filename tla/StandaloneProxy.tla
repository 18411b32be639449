-------------------------- MODULE StandaloneProxy --------------------------
(***************************************************************************)
(* The standalone TCP proxy: run_proxy and proxy_conn.  Every connection   *)
(* runs in a task of its own, so one of them is modelled beside the        *)
(* listener, whose failure ends the process and all the tasks with it.     *)
(*                                                                         *)
(* A direction is named after the side its bytes come from.  They pass     *)
(* through the proxy's receive buffer (inbox), the buffer of io::copy      *)
(* (buf) and the proxy's send buffer (out) on their way to the other side. *)
(***************************************************************************)
EXTENDS Naturals, Sequences

CONSTANTS
  Bytes,     \* what the sides send
  MaxSent,   \* bound: bytes a side sends in a behaviour
  MaxCopy    \* the buffer of io::copy

ASSUME StandaloneAssumption == MaxSent \in Nat /\ MaxCopy \in Nat \ {0}

VARIABLES
  listener,         \* "open" or "failed"
  phase,            \* where the task of the connection is
  first,            \* the direction that came to its end first, if one did
  sent, fin,        \* what each side has sent, and how it closed
  inbox, buf, out,
  got, end          \* what the other side has of it, and the end it sees

sideVars == <<sent, fin>>
proxyVars == <<inbox, buf, out>>
vars == <<listener, phase, first, sideVars, proxyVars, got, end>>

Sides == {"client", "upstream"}
Other(s) == IF s = "client" THEN "upstream" ELSE "client"

Init ==
  /\ listener = "open"
  /\ phase = "none"
  /\ first = "none"
  /\ sent = [s \in Sides |-> <<>>] /\ fin = [s \in Sides |-> "open"]
  /\ inbox = [s \in Sides |-> <<>>]
  /\ buf = [s \in Sides |-> <<>>]
  /\ out = [s \in Sides |-> <<>>]
  /\ got = [s \in Sides |-> <<>>] /\ end = [s \in Sides |-> "open"]

-----------------------------------------------------------------------------
(* The sockets are dropped, with all that is still to be copied.  The      *)
(* other side sees a reset if its socket holds bytes nobody read.          *)
Drop ==
  LET resets == {s \in Sides : inbox[Other(s)] # <<>>} IN
  /\ phase' = IF phase = "connect" THEN "refused" ELSE "over"
  /\ inbox' = [s \in Sides |-> <<>>]
  /\ buf' = [s \in Sides |-> <<>>]
  /\ out' = [s \in Sides |-> IF s \in resets THEN <<>> ELSE out[s]]
  /\ end' = [s \in Sides |-> IF s \in resets THEN "reset" ELSE end[s]]

(* run_proxy accepts the client and spawns the task.                       *)
Accept ==
  /\ listener = "open"
  /\ phase = "none"
  /\ phase' = "connect"
  /\ UNCHANGED <<listener, first, sideVars, proxyVars, got, end>>

(* An error of accept ends run_proxy, and the process.                     *)
AcceptFails ==
  /\ listener = "open"
  /\ listener' = "failed"
  /\ IF phase \in {"connect", "copy"}
     THEN Drop
     ELSE UNCHANGED <<phase, proxyVars, end>>
  /\ UNCHANGED <<first, sideVars, got>>

(* The target is connected; or it is no URL, or cannot be reached.         *)
Connect ==
  /\ phase = "connect"
  /\ \/ phase' = "copy" /\ UNCHANGED <<proxyVars, end>>
     \/ Drop
  /\ UNCHANGED <<listener, first, sideVars, got>>

(* Mutants: what is read replaces what is still to be written; the answer  *)
(* is only copied when the request has come to its end.                    *)
ReadOverMutant(s) ==
  /\ phase = "copy"
  /\ inbox[s] # <<>>
  /\ buf' = [buf EXCEPT ![s] = <<Head(inbox[s])>>]
  /\ inbox' = [inbox EXCEPT ![s] = Tail(@)]
  /\ UNCHANGED <<listener, phase, first, sideVars, out, got, end>>

ReadInTurnMutant(s) ==
  /\ phase = "copy"
  /\ s = "client" \/ fin["client"] = "ended"
  /\ Len(buf[s]) < MaxCopy
  /\ inbox[s] # <<>>
  /\ buf' = [buf EXCEPT ![s] = Append(@, Head(inbox[s]))]
  /\ inbox' = [inbox EXCEPT ![s] = Tail(@)]
  /\ UNCHANGED <<listener, phase, first, sideVars, out, got, end>>

(* io::copy reads into its buffer, and writes from it.                     *)
Read(s) ==
  /\ phase = "copy"
  /\ Len(buf[s]) < MaxCopy
  /\ inbox[s] # <<>>
  /\ buf' = [buf EXCEPT ![s] = Append(@, Head(inbox[s]))]
  /\ inbox' = [inbox EXCEPT ![s] = Tail(@)]
  /\ UNCHANGED <<listener, phase, first, sideVars, out, got, end>>

Write(s) ==
  /\ phase = "copy"
  /\ buf[s] # <<>>
  /\ out' = [out EXCEPT ![s] = Append(@, Head(buf[s]))]
  /\ buf' = [buf EXCEPT ![s] = Tail(@)]
  /\ UNCHANGED <<listener, phase, first, sideVars, inbox, got, end>>

(* Mutants: the copy ends with bytes in its buffer; the sockets outlive    *)
(* the task.                                                               *)
CopyEndsMutant(s) ==
  /\ phase = "copy"
  /\ fin[s] = "ended"
  /\ inbox[s] = <<>>
  /\ first' = s
  /\ Drop
  /\ UNCHANGED <<listener, sideVars, got>>

CopyEndsBusyMutant(s) ==
  /\ phase = "copy"
  /\ fin[s] = "ended"
  /\ inbox[s] = <<>>
  /\ buf[s] = <<>>
  /\ first' = s
  /\ phase' = "over"
  /\ buf' = [t \in Sides |-> <<>>]
  /\ UNCHANGED <<listener, sideVars, inbox, out, got, end>>

(* One direction comes to its end: select! gives up the other one.         *)
CopyEnds(s) ==
  /\ phase = "copy"
  /\ fin[s] = "ended"
  /\ inbox[s] = <<>>
  /\ buf[s] = <<>>
  /\ first' = s
  /\ Drop
  /\ UNCHANGED <<listener, sideVars, got>>

(* Reading from a side that reset its connection, or writing to it, fails, *)
(* which ends select! like any other end.                                  *)
CopyFails(s) ==
  /\ phase = "copy"
  /\ fin[s] = "reset"
  /\ Drop
  /\ UNCHANGED <<listener, first, sideVars, got>>

-----------------------------------------------------------------------------
(* The two sides and the network.                                          *)

Connected(s) ==
  IF s = "client" THEN phase # "none" ELSE phase \in {"copy", "over"}

Send(s) ==
  /\ Connected(s) /\ phase \in {"connect", "copy"}
  /\ fin[s] = "open"
  /\ Len(sent[s]) < MaxSent
  /\ \E b \in Bytes :
       /\ sent' = [sent EXCEPT ![s] = Append(@, b)]
       /\ inbox' = [inbox EXCEPT ![s] = Append(@, b)]
  /\ UNCHANGED <<listener, phase, first, fin, buf, out, got, end>>

(* What is sent to a socket that was closed is answered with a reset.      *)
SendLate(s) ==
  /\ Connected(s) /\ phase \in {"refused", "over"}
  /\ fin[s] = "open"
  /\ end[Other(s)] = "open"
  /\ out' = [out EXCEPT ![Other(s)] = <<>>]
  /\ end' = [end EXCEPT ![Other(s)] = "reset"]
  /\ UNCHANGED <<listener, phase, first, sideVars, inbox, buf, got>>

(* A side ends its direction and goes on reading, or resets both.          *)
Finish(s) ==
  /\ Connected(s)
  /\ \/ fin[s] = "open" /\ fin' \in {[fin EXCEPT ![s] = f] : f \in {"ended", "reset"}}
     \/ fin[s] = "ended" /\ fin' = [fin EXCEPT ![s] = "reset"]
  /\ UNCHANGED <<listener, phase, first, sent, proxyVars, got, end>>

Deliver(s) ==
  /\ out[s] # <<>>
  /\ fin[Other(s)] # "reset"
  /\ got' = [got EXCEPT ![s] = Append(@, Head(out[s]))]
  /\ out' = [out EXCEPT ![s] = Tail(@)]
  /\ UNCHANGED <<listener, phase, first, sideVars, inbox, buf, end>>

DeliverEnd(s) ==
  /\ Connected(Other(s)) /\ phase \in {"refused", "over"}
  /\ out[s] = <<>>
  /\ end[s] = "open"
  /\ end' = [end EXCEPT ![s] = "eof"]
  /\ UNCHANGED <<listener, phase, first, sideVars, proxyVars, got>>

-----------------------------------------------------------------------------
Copy == \E s \in Sides : Read(s) \/ Write(s) \/ CopyEnds(s) \/ CopyFails(s)

Network == \E s \in Sides : Deliver(s) \/ DeliverEnd(s)

Next ==
  \/ Accept \/ AcceptFails \/ Connect \/ Copy \/ Network
  \/ \E s \in Sides : Send(s) \/ SendLate(s) \/ Finish(s)

Spec == Init /\ [][Next]_vars

(* Tasks that can go on are polled, each of the two copies of select!      *)
(* among them; connecting comes to an end, and the sides read what they    *)
(* are sent.                                                               *)
FairSpec ==
  /\ Spec /\ WF_vars(Accept) /\ WF_vars(Connect)
  /\ \A s \in Sides :
       /\ WF_vars(Read(s)) /\ WF_vars(Write(s))
       /\ WF_vars(CopyEnds(s)) /\ WF_vars(CopyFails(s))
       /\ WF_vars(Deliver(s)) /\ WF_vars(DeliverEnd(s))

-----------------------------------------------------------------------------
(* Every variable keeps to its type, and a task that is over holds nothing.*)
TypeOK ==
  /\ listener \in {"open", "failed"}
  /\ phase \in {"none", "connect", "copy", "refused", "over"}
  /\ first \in Sides \cup {"none"}
  /\ sent \in [Sides -> Seq(Bytes)] /\ got \in [Sides -> Seq(Bytes)]
  /\ inbox \in [Sides -> Seq(Bytes)]
  /\ buf \in [Sides -> Seq(Bytes)]
  /\ out \in [Sides -> Seq(Bytes)]
  /\ fin \in [Sides -> {"open", "ended", "reset"}]
  /\ end \in [Sides -> {"open", "eof", "reset"}]
  /\ phase \in {"refused", "over"} =>
       \A s \in Sides : inbox[s] = <<>> /\ buf[s] = <<>>

(* Nothing is doubled or reordered, and nothing is lost before what comes  *)
(* behind it: what a side was sent is always a prefix (proxy_conn).        *)
InOrder ==
  \A s \in Sides :
    Len(got[s]) <= Len(sent[s]) /\ got[s] = SubSeq(sent[s], 1, Len(got[s]))

(* The direction that ends first is relayed whole: its orderly end is seen *)
(* behind all of its bytes (the select! of proxy_conn).                    *)
FirstEndIsWhole ==
  \A s \in Sides : first = s /\ end[s] = "eof" => got[s] = sent[s]

(* Bytes are relayed as long as the connection lasts: neither direction    *)
(* waits for the other or for a full buffer (proxy_conn).                  *)
Relayed ==
  \A s \in Sides, n \in 1 .. MaxSent :
    Len(sent[s]) >= n ~> Len(got[s]) >= n \/ phase \in {"refused", "over"}
=============================================================================
