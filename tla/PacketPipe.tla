----------------------------- MODULE PacketPipe -----------------------------
(***************************************************************************)
(* What the UART transmit side promises to its callers: packets leave in   *)
(* the order in which they were accepted, each at most once, and the only  *)
(* way to lose some is to lose everything that was waiting (a write error  *)
(* empties the queue).  SerialTransport is shown to implement this module. *)
(***************************************************************************)
EXTENDS Sequences

CONSTANT Packets    \* the frames that can be sent

VARIABLES
  waiting,          \* accepted, not yet on the wire
  wire              \* everything written to the port, oldest first

pipeVars == <<waiting, wire>>

Init ==
  /\ waiting = <<>>
  /\ wire = <<>>

Put(p) ==
  /\ waiting' = Append(waiting, p)
  /\ UNCHANGED wire

Deliver ==
  /\ waiting # <<>>
  /\ wire' = Append(wire, Head(waiting))
  /\ waiting' = Tail(waiting)

Flush ==
  /\ waiting' = <<>>
  /\ UNCHANGED wire

Next ==
  \/ \E p \in Packets : Put(p)
  \/ Deliver
  \/ Flush

Spec == Init /\ [][Next]_pipeVars
=============================================================================
