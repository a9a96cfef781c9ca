------------------------------- MODULE DwinLogic -------------------------------
(***************************************************************************)
(* What the messages of the display, and those of the other layers that    *)
(* are for it, do (src/logic/DwinLogic.cpp): most touches are passed on to *)
(* PrimeLogic; the keys of the five pin pads edit one buffer,              *)
(* d_pinpad_buffer, that all of them share.                                *)
(*                                                                         *)
(* A typed text is the sequence of its keys, 10 being the comma.  The      *)
(* pages and the texts nothing depends on are left out; what every text    *)
(* has to do is fit its field: sendRightAlignmentWithPadding() computes    *)
(* len - textLen without a sign, pads for as long as memory lasts and      *)
(* throws, and nothing on the core thread catches it: the process ends.    *)
(***************************************************************************)
EXTENDS Integers, Sequences, SequencesExt

CONSTANTS
  MaxInput,        \* handleTouchPinPad(): 6 keys
  LenInteger,      \* text_len_order_integer, 6 in config.json
  LenGroup,        \* text_len_fuel_integer, 3: thousands and units of a balance
  LenCardFirst,    \* text_len_fuel_type, 3
  LenCardSecond    \* text_len_standalone_id, 6

ASSUME WidthAssumption ==
  {MaxInput, LenInteger, LenGroup, LenCardFirst, LenCardSecond} \subseteq Nat \ {0}

VARIABLES
  d_pinpad_buffer,
  pad,             \* history: the pin pad whose field was written last
  shown,           \* per pin pad: the text in its field
  out,             \* what this step passed on to PrimeLogic
  alive            \* the process has not ended with an exception

logicVars == <<d_pinpad_buffer, pad, shown, alive>>

Comma == 10
Pads == {"volume", "price", "pin", "service", "document"}
Key == 0..10
Star == 42
NoPad == "none"
Nothing == [type |-> "", payload |-> <<>>]

LogicInit ==
  /\ d_pinpad_buffer = <<>>
  /\ pad = NoPad
  /\ shown = [p \in Pads |-> <<>>]
  /\ out = Nothing
  /\ alive = TRUE

LogicTypeOK ==
  /\ d_pinpad_buffer \in Seq(Key)
  /\ pad \in Pads \cup {NoPad}
  /\ shown \in [Pads -> Seq(Key \cup {Star})]
  /\ out.payload \in Seq(0..255)
  /\ alive \in BOOLEAN

-----------------------------------------------------------------------------
(* The virtual addresses of the display's buttons (config.json).           *)

PadOf ==
  [volume |-> <<83, 64>>, price |-> <<83, 66>>, pin |-> <<83, 68>>,
   service |-> <<83, 70>>, document |-> <<84, 37>>]

\* Buttons whose message is only a type.
PlainButton ==
  [PAY_GET_BALANCE |-> <<84, 34>>, CHOOSE_RECEPTION_LEVEL_GAUGE |-> <<113, 146>>,
   CHOOSE_MULTI_TRK |-> <<80, 52>>, CHOOSE_FUEL_FOR_EDIT |-> <<112, 16>>,
   CANCEL_TRANSACTION |-> <<86, 96>>, FINISH_RECEPTION_FUEL |-> <<119, 115>>]

\* Buttons that pass the low byte of their key on.
KeyButton ==
  [CHOOSE_TRK |-> {<<113, 8>>, <<113, 16>>, <<114, 4>>},
   AMOUNT_TRK |-> {<<83, 24>>}, TAP_ON_USED_TRK |-> {<<120, 96>>}]

\* Arrows: one direction for key 1, the other for any other key.
ArrowButton ==
  [PAGINATION_TRK |-> <<80, 48>>, PAGINATION_RECEPTION_LEVEL_GAUGE |-> <<113, 136>>,
   PAGINATION_FUEL |-> <<112, 8>>, PAGINATION_LEVEL_GAUGE |-> <<101, 24>>]

VolumeButton == <<84, 32>>
ServiceMenu == <<80, 22>>
BasicTouch == <<80, 54>>

Buttons ==
  Range(PadOf) \cup Range(PlainButton) \cup UNION Range(KeyButton)
    \cup Range(ArrowButton) \cup {VolumeButton, ServiceMenu, BasicTouch}

\* handleServiceMenu() and handleBasicTouch(): the type for each key; a key
\* without one passes an empty type on, which PrimeLogic ignores.
ServiceType(k) ==
  CASE k = 1 -> "SERVICE_MENU_LEVEL_GAUGE" [] k = 2 -> "SERVICE_MENU_CHANGE_FUEL_PRICE"
    [] k = 4 -> "SET_USED_TRK" [] k = 5 -> "SERVICE_MENU_RECEPTION_LEVEL_GAUGE"
    [] OTHER -> ""
BasicTypes ==
  <<"BASIC_TOUCH", "BEGIN_FUELLING", "CREATE_NEW_ORDER", "ATTACH_CARD_BACK",
    "DECLINE_ENTER_SERVICE_CODE", "CANCEL_AFTER_ENTER_PIN", "", "ACCEPT_SELECTED_TRK",
    "RESET_SELECTED_TRK", "CLOSE_ORDER", "ACCEPT_RECEPTION_FUEL", "CLEAR_CARD_DATA">>
BasicType(k) == IF k \in DOMAIN BasicTypes THEN BasicTypes[k] ELSE ""

-----------------------------------------------------------------------------
(* The pin pads.                                                           *)

CommaAt(b) == SelectInSeq(b, LAMBDA c : c = Comma)

\* Two decimals are typed: handleTouchPinPad() returns at once.
DecimalsFull(b) == CommaAt(b) # 0 /\ Len(b) - (CommaAt(b) - 1) > 2

\* Mutant: a second comma is accepted.
Typed_SecondComma(b, k) ==
  CASE k \in 0..9 -> IF Len(b) >= MaxInput THEN b ELSE IF b = <<0>> THEN <<k>> ELSE Append(b, k)
    [] k = Comma -> IF Len(b) >= MaxInput THEN b ELSE IF b = <<>> THEN <<0, Comma>> ELSE Append(b, Comma)
    [] k = 11 -> <<>>
    [] k = 12 -> IF b = <<>> THEN b ELSE Front(b)
    [] OTHER -> b

\* The buffer b after key k: a digit, the comma, Decline, Backspace.
Typed(b, k) ==
  CASE k \in 0..9 -> IF Len(b) >= MaxInput THEN b ELSE IF b = <<0>> THEN <<k>> ELSE Append(b, k)
    [] k = Comma -> IF CommaAt(b) # 0 THEN b ELSE IF b = <<>> THEN <<0, Comma>> ELSE Append(b, Comma)
    [] k = 11 -> <<>>
    [] k = 12 -> IF b = <<>> THEN b ELSE Front(b)
    [] OTHER -> b

\* Text fields have text_len_trk_id = 4 characters.
Cut(t) == SubSeq(t, 1, IF Len(t) < 4 THEN Len(t) ELSE 4)

\* Mutant: the number fields cut as well.
Render_CutsAll(p, b) == Cut(IF p \in {"pin", "service"} THEN [i \in 1..Len(b) |-> Star]
                            ELSE IF b = <<>> THEN <<0>> ELSE b)

\* What the field of pad p shows for buffer b.
Render(p, b) ==
  CASE p \in {"pin", "service"} -> Cut([i \in 1..Len(b) |-> Star])
    [] p = "document" -> Cut(IF b = <<>> THEN <<0>> ELSE b)
    [] OTHER -> IF b = <<>> THEN <<0>> ELSE b

\* Only the right-aligned fields are not cut.
Fits(p, t) == p \in {"volume", "price"} => Len(t) <= LenInteger

EnterType(p) ==
  CASE p = "volume" -> "ENTER_FUEL_VOLUME" [] p = "price" -> "ENTER_FUEL_EDITING"
    [] p = "pin" -> "ENTER_PIN_CODE" [] p = "document" -> "ENTER_DOCUMENT_NUMBER"
    [] OTHER -> ""

\* std::stoi() of the service code needs a digit first.
Enter(p) ==
  IF d_pinpad_buffer = <<>>
    THEN /\ out' = Nothing
         /\ UNCHANGED logicVars
    ELSE IF p = "service" /\ Head(d_pinpad_buffer) = Comma
      THEN /\ alive' = FALSE
           /\ out' = Nothing
           /\ UNCHANGED <<d_pinpad_buffer, pad, shown>>
      ELSE /\ pad' = p
           /\ shown' = [shown EXCEPT ![p] = IF p = "volume" THEN <<0>> ELSE <<>>]
           /\ out' = [type |-> EnterType(p), payload |-> d_pinpad_buffer]
           /\ d_pinpad_buffer' = <<>>
           /\ UNCHANGED alive

\* handleTouchPinPad() of key k on pad p.
TouchPinPad(p, k) ==
  \/ /\ k = 13
     /\ Enter(p)
  \/ /\ k \in 0..9 /\ DecimalsFull(d_pinpad_buffer)
     /\ out' = Nothing
     /\ UNCHANGED logicVars
  \/ /\ k # 13
     /\ ~(k \in 0..9 /\ DecimalsFull(d_pinpad_buffer))
     /\ LET b == Typed(d_pinpad_buffer, k)
            t == Render(p, b)
            cleared == IF k = 11 THEN [q \in Pads |-> <<>>] ELSE shown
        IN  /\ d_pinpad_buffer' = b
            /\ shown' = [cleared EXCEPT ![p] = t]
            /\ alive' = Fits(p, t)
     /\ pad' = p
     /\ out' = Nothing

-----------------------------------------------------------------------------
(* The other touches.                                                      *)

PassOn(type, payload) ==
  /\ out' = [type |-> type, payload |-> payload]
  /\ UNCHANGED <<d_pinpad_buffer, pad, shown, alive>>

\* handleBasicTouch(): only leaving the service code (key 5) clears the buffer.
handleBasicTouch(k) ==
  \/ /\ k = 5
     /\ d_pinpad_buffer' = <<>>
     /\ shown' = [shown EXCEPT !["service"] = <<>>]
     /\ out' = [type |-> BasicType(k), payload |-> <<>>]
     /\ UNCHANGED <<pad, alive>>
  \/ /\ k # 5
     /\ PassOn(BasicType(k), <<>>)

\* handleDwinEvent(): the button at address vp was touched with key k.
handleDwinEvent(vp, k) ==
  \/ \E p \in Pads : vp = PadOf[p] /\ TouchPinPad(p, k)
  \/ \E b \in DOMAIN PlainButton : vp = PlainButton[b] /\ PassOn(b, <<>>)
  \/ \E b \in DOMAIN KeyButton : vp \in KeyButton[b] /\ PassOn(b, <<k % 256>>)
  \/ \E b \in DOMAIN ArrowButton :
       vp = ArrowButton[b] /\ PassOn(b, <<IF k = 1 THEN 1 ELSE 255>>)
  \/ vp = VolumeButton /\ PassOn("VOLUME", <<k \div 256, k % 256>>)
  \/ vp = ServiceMenu /\ PassOn(ServiceType(k), <<>>)
  \/ vp = BasicTouch /\ handleBasicTouch(k)
  \/ vp \notin Buttons /\ out' = Nothing /\ UNCHANGED logicVars

\* handle() of a message m from the parser.
handle(m) ==
  LET touch == m.type = "vp_data" /\ Len(m.payload) >= 5
  IN  \/ /\ touch
         /\ handleDwinEvent(<<m.payload[1], m.payload[2]>>, 256 * m.payload[4] + m.payload[5])
      \/ /\ ~touch
         /\ out' = Nothing
         /\ UNCHANGED logicVars

-----------------------------------------------------------------------------
(* Messages of the other layers: texts of a given length to be shown.      *)

\* UPDATE_CURRENT_*: splitFloatString() leaves n digits before the comma.
ShowAmount(n) ==
  /\ alive' = (n <= LenInteger)
  /\ out' = Nothing
  /\ UNCHANGED <<d_pinpad_buffer, pad, shown>>

handleRevertAmount(n) == ShowAmount(n)
clearInputAmountAndVolumeText == ShowAmount(1)

\* sendTriPartFloatToDwin(): n digits in groups of three, the sign before the
\* first group there is.
TriPartFits(n, negative) ==
  LET sign == IF negative THEN 1 ELSE 0
  IN  IF n > 3 THEN n - 3 + sign <= LenGroup /\ 3 <= LenGroup
               ELSE n + sign <= LenGroup

\* handleGetBalanceResponse() for a card number in two parts.
ShowBalance(first, second, hidden, n, negative) ==
  /\ alive' = /\ first <= LenCardFirst
              /\ second <= LenCardSecond
              /\ hidden \/ TriPartFits(n, negative)
  /\ out' = Nothing
  /\ UNCHANGED <<d_pinpad_buffer, pad, shown>>
=============================================================================
