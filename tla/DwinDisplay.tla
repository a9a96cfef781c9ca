------------------------------ MODULE DwinDisplay ------------------------------
(***************************************************************************)
(* The display and the way of a touch: the display (external) sends a      *)
(* frame, DwinParser cuts it out of the bytes that arrive, the core thread *)
(* hands the message to DwinLogic.  Stray bytes, of a display that is      *)
(* switched on or reset, arrive between frames, one at a time.             *)
(***************************************************************************)
EXTENDS DwinParser, DwinLogic

CONSTANTS
  Screens,       \* pages of the display: sets of touches [vp, key]
  Strays,        \* stray bytes
  Amounts,       \* digits before the comma of an amount to be shown
  Balances,      \* [n, negative]: balances of cards
  CardParts,     \* <<first, second>>: lengths of the parts of card numbers
  MaxInFlight    \* bound: touches the core has not handled yet

ASSUME StrayAssumption == Strays \subseteq Byte

Word == {n \in Nat : n < 65536}
Touches == UNION Screens

\* An address and a key have two bytes each.
ASSUME TouchAssumption == Touches \subseteq [vp : Byte \X Byte, key : Word]

VARIABLES
  screen,        \* the page shown
  pending,       \* history: touches the core has not handled, oldest first
  noisy          \* the last byte sent is a stray one

vars == <<parserVars, logicVars, out, screen, pending, noisy>>

TypeOK ==
  /\ ParserTypeOK
  /\ LogicTypeOK
  /\ screen \in Screens
  /\ pending \in Seq(Touches)
  /\ noisy \in BOOLEAN

Init ==
  /\ ParserInit
  /\ LogicInit
  /\ screen \in Screens
  /\ pending = <<>>
  /\ noisy = FALSE

\* Address, word count and key of a touch, as the display reports them.
Payload(t) == t.vp \o <<1, t.key \div 256, t.key % 256>>
Frame(t) == <<90, 165, 6, 131>> \o Payload(t)

\* Bytes that arrive while parse() runs wait in the port: the display need not
\* be given steps then.
Touch(t) ==
  /\ alive
  /\ t \in screen
  /\ ~parsing
  /\ Len(pending) < MaxInFlight
  /\ line' = line \o Frame(t)
  /\ pending' = Append(pending, t)
  /\ noisy' = FALSE
  /\ out' = Nothing
  /\ UNCHANGED <<m_buffer, parsing, messages, inbox, logicVars, screen>>

\* Another page is shown, by the display itself or by a command.  Bound: it is
\* while no touch is in flight.
TurnPage(p) ==
  /\ alive
  /\ pending = <<>>
  /\ p # screen
  /\ screen' = p
  /\ out' = Nothing
  /\ UNCHANGED <<parserVars, logicVars, pending, noisy>>

\* The display acknowledges a write; nothing waits for it.  Bound: it does so
\* while nothing is in flight.
Acknowledge ==
  /\ alive
  /\ line = <<>> /\ ~parsing /\ inbox = <<>>
  /\ ~noisy
  /\ line' = <<90, 165, 3, 130, 79, 75>>
  /\ out' = Nothing
  /\ UNCHANGED <<m_buffer, parsing, messages, inbox, logicVars, screen, pending, noisy>>

Stray(c) ==
  /\ alive
  /\ ~parsing
  /\ ~noisy
  /\ Len(pending) < MaxInFlight
  /\ line' = Append(line, c)
  /\ noisy' = TRUE
  /\ out' = Nothing
  /\ UNCHANGED <<m_buffer, parsing, messages, inbox, logicVars, screen, pending>>

\* MessageLayer::run(): the core thread takes the oldest message.
HandleMessage ==
  /\ alive
  /\ inbox # <<>>
  /\ handle(Head(inbox))
  /\ inbox' = Tail(inbox)
  /\ pending' = IF Head(inbox).type = "vp_data" /\ pending # <<>> THEN Tail(pending)
                                                                 ELSE pending
  /\ UNCHANGED <<line, m_buffer, parsing, messages, screen, noisy>>

\* The io thread is inside parse(), or enters it.
ParseStep ==
  /\ alive
  /\ Parse
  /\ out' = Nothing
  /\ UNCHANGED <<logicVars, screen, pending, noisy>>

\* handle() called by another layer.
OtherLayer ==
  /\ alive
  /\ \/ \E n \in Amounts : ShowAmount(n) \/ handleRevertAmount(n)
     \/ clearInputAmountAndVolumeText
     \/ \E c \in CardParts, b \in Balances, hidden \in BOOLEAN :
          ShowBalance(c[1], c[2], hidden, b.n, b.negative)
  /\ UNCHANGED <<parserVars, screen, pending, noisy>>

Next ==
  \/ \E t \in Touches : Touch(t)
  \/ \E p \in Screens : TurnPage(p)
  \/ Acknowledge
  \/ \E c \in Strays : Stray(c)
  \/ ParseStep
  \/ HandleMessage
  \/ OtherLayer

Spec == Init /\ [][Next]_vars

-----------------------------------------------------------------------------
(* Properties.                                                             *)

\* However parse() receives the bytes, cut anywhere and with stray ones between
\* the frames, the messages handled are the touches made, in their order.
TouchesInOrder ==
  [][HandleMessage /\ Head(inbox).type # "write_ack_ok" =>
       /\ pending # <<>>
       /\ Head(inbox) = [type |-> "vp_data", payload |-> Payload(Head(pending))]]_vars

\* parse() keeps no touch back: when it has returned and all that was sent was
\* read and handled, every touch was.
NoTouchLost ==
  line = <<>> /\ ~parsing /\ inbox = <<>> => pending = <<>>

\* Whatever is typed, on whatever pads in turn, d_pinpad_buffer stays a number:
\* it begins with a digit, has at most one comma and two decimals, and no
\* leading zero before another digit.
PinpadIsNumber ==
  LET b == d_pinpad_buffer
      commas == {i \in 1..Len(b) : b[i] = Comma}
  IN  /\ \A i, j \in commas : i = j
      /\ \A i \in commas : i > 1 /\ Len(b) - i <= 2
      /\ Len(b) > 1 /\ b[1] = 0 => 2 \in commas

\* The volume, or the price, passed on by Enter is the one its pad showed to
\* the customer, unless the key before it that wrote a field was another pad's.
OrderedIsShown ==
  [][\A p \in {"volume", "price"} :
       HandleMessage /\ out'.type = EnterType(p) /\ pad = p
         => out'.payload = shown[p]]_vars

\* Refuted: it is so whatever was touched before.  All pads share one buffer:
\* Enter as the first key on a pad passes on what was typed on another.
OrderedWasShown ==
  [][\A p \in {"volume", "price"} :
       HandleMessage /\ out'.type = EnterType(p) => out'.payload = shown[p]]_vars

\* No touch and no message ends the process with an exception.
KeepsRunning == alive
=============================================================================
