------------------------------ MODULE DwinParser ------------------------------
(***************************************************************************)
(* How the touches of the DWIN display become messages (src/parser/        *)
(* DwinParser.cpp): the UART delivers the display's frames in pieces of    *)
(* any length, parse() appends each piece to m_buffer and cuts complete    *)
(* packets off it, discarding what does not begin with 5A A5.              *)
(*                                                                         *)
(* A byte is its number.  parse() runs on the io thread; one iteration of  *)
(* its loop is one action, so the core thread may handle earlier messages  *)
(* in between.  The receive handler queues the messages when parse()       *)
(* returns.  A length byte of 0, for which the code reads past its buffer, *)
(* is not sent by the display and is left out.                             *)
(***************************************************************************)
EXTENDS Naturals, Sequences

CONSTANT Pieces  \* bound: sizes in which the port may cut what has arrived

ASSUME PiecesAssumption == Pieces \subseteq Nat \ {0}

VARIABLES
  line,       \* bytes the display has sent and the port has not read
  m_buffer,
  parsing,    \* the io thread is inside parse()
  messages,   \* what this call of parse() has found
  inbox       \* queued for the core thread

parserVars == <<line, m_buffer, parsing, messages, inbox>>

Byte == 0..255

ParserInit ==
  /\ line = <<>>
  /\ m_buffer = <<>>
  /\ parsing = FALSE
  /\ messages = <<>>
  /\ inbox = <<>>

ParserTypeOK ==
  /\ line \in Seq(Byte)
  /\ m_buffer \in Seq(Byte)
  /\ parsing \in BOOLEAN
  /\ \A q \in {messages, inbox} :
       \A i \in 1..Len(q) :
         /\ q[i].type \in {"vp_data", "write_ack_ok", "write_ack", "unknown_dwin"}
         /\ q[i].payload \in Seq(Byte)

\* Mutant: the length byte taken to count itself.
packetSize_CountsItself(b) == 2 + b[3]

\* Header, length byte and what the length byte counts.
packetSize(b) == 3 + b[3]

Garbage == Len(m_buffer) >= 3 /\ SubSeq(m_buffer, 1, 2) # <<90, 165>>
Complete ==
  /\ Len(m_buffer) >= 3
  /\ ~Garbage
  /\ Len(m_buffer) >= packetSize(m_buffer)

\* The message of packet p.
Parsed(p) ==
  LET payload == SubSeq(p, 5, Len(p))
  IN  CASE p[4] = 131 -> [type |-> "vp_data", payload |-> payload]
        [] p[4] = 130 -> [type |-> IF payload = <<79, 75>> THEN "write_ack_ok" ELSE "write_ack",
                          payload |-> payload]
        [] OTHER -> [type |-> "unknown_dwin", payload |-> p]

\* The port hands over the next n bytes.
Receive(n) ==
  /\ ~parsing
  /\ line # <<>>
  /\ m_buffer' = m_buffer \o SubSeq(line, 1, n)
  /\ line' = SubSeq(line, n + 1, Len(line))
  /\ parsing' = TRUE
  /\ UNCHANGED <<messages, inbox>>

\* Mutant: garbage is dropped in pairs.
SkipGarbage_Two ==
  /\ parsing
  /\ Garbage
  /\ m_buffer' = SubSeq(m_buffer, 3, Len(m_buffer))
  /\ UNCHANGED <<line, parsing, messages, inbox>>

SkipGarbage ==
  /\ parsing
  /\ Garbage
  /\ m_buffer' = Tail(m_buffer)
  /\ UNCHANGED <<line, parsing, messages, inbox>>

TakePacket ==
  /\ parsing
  /\ Complete
  /\ LET n == packetSize(m_buffer)
     IN  /\ messages' = Append(messages, Parsed(SubSeq(m_buffer, 1, n)))
         /\ m_buffer' = SubSeq(m_buffer, n + 1, Len(m_buffer))
  /\ UNCHANGED <<line, parsing, inbox>>

\* parse() returns; the receive handler queues what it found.
EndParse ==
  /\ parsing
  /\ ~Garbage
  /\ ~Complete
  /\ parsing' = FALSE
  /\ inbox' = inbox \o messages
  /\ messages' = <<>>
  /\ UNCHANGED <<line, m_buffer>>

Parse ==
  \/ \E n \in {k \in Pieces : k < Len(line)} \cup {Len(line)} : Receive(n)
  \/ SkipGarbage
  \/ TakePacket
  \/ EndParse
=============================================================================
